------------------------------- MODULE Display -------------------------------
(***************************************************************************)
(* The display protocol: DisplayChildClient (packages/ows-wallet-utils) in *)
(* the Branding Layer asks DisplayHostHandler (packages/ows-provider) in   *)
(* the host page to show or hide the wallet iframe, over the two Postmate  *)
(* channels.  The host's RPC client and the application share the panel.   *)
(*                                                                         *)
(* A Task is a caller of requestDisplay or requestHide.  Styles are        *)
(* abstracted to the layout they amount to; a drawer that slides out is    *)
(* still laid out as a drawer.  Microtasks (the continuation of a          *)
(* cancelled animation, an await of a settled promise) run in the step of  *)
(* the task that queued them.                                              *)
(***************************************************************************)
EXTENDS Naturals, Sequences

CONSTANTS Tasks,        \* callers in the Branding Layer
          Ids,          \* display ids, in the order nextDisplayId gives them
          Anonymous,    \* the pendingHide key of a hide without an id
          None,         \* null
          Modes,        \* presentation modes a proxy may be created with
          Viewports,    \* "flyout" if the viewport is wide, "drawer" if narrow
          MaxRpc,       \* bound: host RPCs in flight, and 250 ms timers running
          MaxQueue,     \* bound: messages and animations under way when one is sent
          MaxAnimations \* bound: hide animations running at once

ASSUME IdsAssumption    == Ids \subseteq Nat
ASSUME NamesAssumption  == None \notin Tasks \cup Ids \cup {Anonymous} /\ Anonymous \notin Ids
ASSUME ModesAssumption  == Modes \subseteq {"flyout", "inline"}
ASSUME ViewsAssumption  == Viewports \subseteq {"flyout", "drawer"}
ASSUME BoundsAssumption == MaxRpc \in Nat /\ MaxQueue \in Nat /\ MaxAnimations \in Nat

VARIABLES
  \* DisplayHostHandler
  presentationMode,  \* fixed for the life of the proxy
  viewport,          \* what shouldUseDrawer finds
  layout,            \* the styles of the container
  originalLayout,    \* what hideLayoutSync restores, or None
  childDisplayId,    \* the Branding Layer's display session, or None
  hostDisplayActive, \* the application has the panel shown
  rpcAccessCount,    \* host RPCs in flight
  timers,            \* completeRpcAccess timers that are running
  running,           \* hide animations, oldest first, by what is acknowledged after
  hideAnimation,     \* the field names the newest of running
  destroyed,
  \* the channels
  toHost, toChild,
  \* DisplayChildClient
  task,              \* what each caller awaits or holds
  pending,           \* ids of requests without an answer
  pendingHide,       \* the caller each hide key resolves
  activeSession, displayDepth, nextDisplayId,
  \* history
  shownOver,         \* the last show came while an animation was running
  timedOut,          \* ids whose request timed out
  hideUsed           \* some caller used hide instead of release

hostVars  == <<presentationMode, viewport, layout, originalLayout, childDisplayId,
               hostDisplayActive, rpcAccessCount, timers, running, hideAnimation,
               destroyed, shownOver>>
childVars == <<task, pending, pendingHide, activeSession, displayDepth, nextDisplayId,
               timedOut, hideUsed>>
vars == <<hostVars, childVars, toHost, toChild>>

Panels  == {"flyout", "drawer", "inline"}
Layouts == Panels \cup {"hidden", "passthrough"}
Keys    == Ids \cup {Anonymous}

ASSUME LayoutsAssumption == None \notin Layouts

Free    == [state |-> "idle", id |-> None]

Message(kind, id) == [kind |-> kind, id |-> id]
ToHost  == [kind : {"requestDisplay", "releaseDisplay", "requestHide"}, id : Keys]
ToChild == [kind : {"displayReady", "hideReady"}, id : Keys]

TypeOK ==
  /\ presentationMode \in Modes
  /\ viewport \in Viewports
  /\ layout \in Layouts
  /\ originalLayout \in Layouts \cup {None}
  /\ childDisplayId \in Keys \cup {None}
  /\ hostDisplayActive \in BOOLEAN
  /\ rpcAccessCount \in Nat
  /\ timers \in Nat
  /\ running \in Seq(Keys \cup {None})
  /\ hideAnimation \in BOOLEAN
  /\ destroyed \in BOOLEAN
  /\ toHost \in Seq(ToHost)
  /\ toChild \in Seq(ToChild)
  /\ task \in [Tasks -> [state : {"idle", "waiting", "held", "hiding"}, id : Keys \cup {None}]]
  /\ pending \in SUBSET Keys
  /\ pendingHide \in [Keys -> Tasks \cup {None}]
  /\ activeSession \in Keys \cup {None}
  /\ displayDepth \in Nat
  /\ nextDisplayId \in Nat
  /\ shownOver \in BOOLEAN
  /\ timedOut \in SUBSET Keys
  /\ hideUsed \in BOOLEAN

\* OWSProxy.create: initializeHidden, or initializeInlineVisible after the handshake.
Init ==
  /\ presentationMode \in Modes
  /\ viewport \in Viewports
  /\ layout = IF presentationMode = "inline" THEN "inline" ELSE "hidden"
  /\ originalLayout = "hidden"
  /\ childDisplayId = None
  /\ hostDisplayActive = (presentationMode = "inline")
  /\ rpcAccessCount = 0
  /\ timers = 0
  /\ running = <<>>
  /\ hideAnimation = FALSE
  /\ destroyed = FALSE
  /\ toHost = <<>>
  /\ toChild = <<>>
  /\ task = [t \in Tasks |-> Free]
  /\ pending = {}
  /\ pendingHide = [k \in Keys |-> None]
  /\ activeSession = None
  /\ displayDepth = 0
  /\ nextDisplayId = 1
  /\ shownOver = FALSE
  /\ timedOut = {}
  /\ hideUsed = FALSE

-----------------------------------------------------------------------------
(* Layouts of the host. *)

isInline == presentationMode = "inline"
Held     == childDisplayId # None \/ hostDisplayActive

\* showVisiblePanel.
Panel(view) == IF isInline THEN "inline" ELSE view

Ack(id) == IF id = None THEN <<>> ELSE <<Message("hideReady", id)>>

AllButLast(s) == SubSeq(s, 1, Len(s) - 1)

\* Fault: a show does not cancel the animation that is hiding the panel.
ShowWithoutCancel(to, posts) ==
  /\ layout' = to
  /\ originalLayout' = IF originalLayout = None THEN layout ELSE originalLayout
  /\ toChild' = toChild \o posts
  /\ shownOver' = FALSE
  /\ UNCHANGED <<running, hideAnimation>>

\* prepareFrameFill and the layout that follows it.  Cancelling the animation
\* rejects its finished promise: hideLayoutAnimated goes on in a microtask, hides
\* the panel that was just shown and acknowledges its hide.
Show(to, posts) ==
  LET original == IF originalLayout = None THEN layout ELSE originalLayout
  IN /\ shownOver' = (running # <<>>)
     /\ hideAnimation' = FALSE
     /\ IF hideAnimation
        THEN /\ layout' = original
             /\ originalLayout' = None
             /\ running' = AllButLast(running)
             /\ toChild' = toChild \o posts \o Ack(running[Len(running)])
        ELSE /\ layout' = to
             /\ originalLayout' = original
             /\ toChild' = toChild \o posts
             /\ UNCHANGED running

\* Fault: the layout to restore survives the hide that used it, restyled.
HideKeepingLayout ==
  /\ layout' = IF originalLayout = None THEN "hidden" ELSE originalLayout
  /\ originalLayout' = layout

hideLayoutSync ==
  /\ layout' = IF originalLayout = None THEN "hidden" ELSE originalLayout
  /\ originalLayout' = None

\* hideLayoutAnimated, then the acknowledgement of the hide request, if any.  A
\* second animation cancels the first one, whose continuation then clears the
\* field that already names the second.
hideLayoutAnimated(ack) ==
  /\ UNCHANGED shownOver
  /\ \/ /\ layout = "drawer"
        /\ Len(running) < MaxAnimations \/ hideAnimation
        /\ IF hideAnimation
           THEN /\ running' = Append(AllButLast(running), ack)
                /\ hideAnimation' = FALSE
                /\ toChild' = toChild \o Ack(running[Len(running)])
                /\ hideLayoutSync
           ELSE /\ running' = Append(running, ack)
                /\ hideAnimation' = TRUE
                /\ UNCHANGED <<toChild, layout, originalLayout>>
     \/ /\ layout # "drawer"
        /\ toChild' = toChild \o Ack(ack)
        /\ hideLayoutSync
        /\ UNCHANGED <<running, hideAnimation>>

layoutVars == <<layout, originalLayout, running, hideAnimation, shownOver, toChild>>
holdVars   == <<childDisplayId, hostDisplayActive, rpcAccessCount, timers>>
fixedVars  == <<presentationMode, viewport, destroyed>>

AnimationFinished ==
  /\ running # <<>>
  /\ ~destroyed
  /\ running' = Tail(running)
  /\ hideAnimation' = FALSE
  /\ hideLayoutSync
  /\ toChild' = toChild \o Ack(Head(running))
  /\ UNCHANGED <<shownOver, holdVars, fixedVars, childVars, toHost>>

-----------------------------------------------------------------------------
(* The application and the RPC client: calls of DisplayHostHandler. *)

Resize ==
  /\ ~destroyed
  /\ viewport' \in Viewports \ {viewport}
  /\ IF isInline \/ layout = "passthrough" \/ ~Held
     THEN UNCHANGED layoutVars
     ELSE Show(viewport', <<>>)
  /\ UNCHANGED <<presentationMode, destroyed, holdVars, childVars, toHost>>

HostShow ==
  /\ ~destroyed
  /\ hostDisplayActive' = TRUE
  /\ Show(Panel(viewport), <<>>)
  /\ UNCHANGED <<childDisplayId, rpcAccessCount, timers, fixedVars, childVars, toHost>>

HostHide ==
  /\ ~destroyed
  /\ ~isInline
  /\ hostDisplayActive' = FALSE
  /\ IF rpcAccessCount = 0 /\ childDisplayId = None
     THEN hideLayoutAnimated(None)
     ELSE UNCHANGED layoutVars
  /\ UNCHANGED <<childDisplayId, rpcAccessCount, timers, fixedVars, childVars, toHost>>

prepareForRpcAccess ==
  /\ ~destroyed
  /\ rpcAccessCount < MaxRpc
  /\ rpcAccessCount' = rpcAccessCount + 1
  /\ IF isInline \/ hostDisplayActive \/ (childDisplayId # None /\ layout # "passthrough")
     THEN UNCHANGED layoutVars
     ELSE Show("passthrough", <<>>)
  /\ UNCHANGED <<childDisplayId, hostDisplayActive, timers, fixedVars, childVars, toHost>>

completeRpcAccess ==
  /\ rpcAccessCount > 0
  /\ rpcAccessCount' = rpcAccessCount - 1
  /\ rpcAccessCount = 1 => timers < MaxRpc
  /\ timers' = IF rpcAccessCount = 1 THEN timers + 1 ELSE timers
  /\ UNCHANGED <<childDisplayId, hostDisplayActive, fixedVars, layoutVars, childVars, toHost>>

\* Fault: the timer does not look whether another RPC has started.
RestoreUnchecked ==
  /\ timers > 0
  /\ timers' = timers - 1
  /\ ~destroyed
  /\ IF childDisplayId # None
     THEN Show(Panel(viewport), <<>>)
     ELSE hideLayoutAnimated(None)
  /\ UNCHANGED <<childDisplayId, hostDisplayActive, rpcAccessCount, fixedVars, childVars, toHost>>

\* restoreOrHide; after destroy the frame is detached and has no layout.
restoreOrHide ==
  /\ timers > 0
  /\ timers' = timers - 1
  /\ \/ /\ rpcAccessCount # 0 \/ destroyed
        /\ UNCHANGED layoutVars
     \/ /\ rpcAccessCount = 0 /\ ~destroyed
        /\ isInline \/ Held
        /\ Show(Panel(viewport), <<>>)
     \/ /\ rpcAccessCount = 0 /\ ~destroyed
        /\ ~isInline /\ ~Held
        /\ hideLayoutAnimated(None)
  /\ UNCHANGED <<childDisplayId, hostDisplayActive, rpcAccessCount, fixedVars, childVars, toHost>>

\* destroy; Postmate's destroy then removes the frame and its listeners.
Destroy ==
  /\ ~destroyed
  /\ destroyed' = TRUE
  /\ hostDisplayActive' = FALSE
  /\ running' = <<>>
  /\ hideAnimation' = FALSE
  /\ IF isInline THEN UNCHANGED <<layout, originalLayout>>
     ELSE layout' = "hidden" /\ originalLayout' = None
  /\ toHost' = <<>>
  /\ toChild' = <<>>
  /\ UNCHANGED <<presentationMode, viewport, childDisplayId, rpcAccessCount, timers,
                 shownOver, childVars>>

-----------------------------------------------------------------------------
(* The host's handlers of the Branding Layer's events. *)

Receives(kind, id) == /\ toHost # <<>>
                      /\ Head(toHost) = Message(kind, id)
                      /\ toHost' = Tail(toHost)

handleRequestDisplay(id) ==
  /\ Receives("requestDisplay", id)
  /\ childDisplayId' = id
  /\ Show(Panel(viewport), <<Message("displayReady", id)>>)
  /\ UNCHANGED <<hostDisplayActive, rpcAccessCount, timers, fixedVars, childVars>>

handleReleaseDisplay(id) ==
  /\ Receives("releaseDisplay", id)
  /\ IF childDisplayId # id THEN UNCHANGED <<childDisplayId, layoutVars>>
     ELSE /\ childDisplayId' = None
          /\ \/ isInline /\ Show("inline", <<>>)
             \/ /\ ~isInline /\ rpcAccessCount = 0 /\ ~hostDisplayActive
                /\ hideLayoutAnimated(None)
             \/ /\ ~isInline /\ (rpcAccessCount # 0 \/ hostDisplayActive)
                /\ UNCHANGED layoutVars
  /\ UNCHANGED <<hostDisplayActive, rpcAccessCount, timers, fixedVars, childVars>>

\* A hide that names a session other than the host's.
Superseded(id) == id # Anonymous /\ childDisplayId \notin {None, id}

handleRequestHide(id) ==
  /\ Receives("requestHide", id)
  /\ \/ /\ Superseded(id)
        /\ toChild' = toChild \o Ack(id)
        /\ UNCHANGED <<childDisplayId, hostDisplayActive, layout, originalLayout,
                       running, hideAnimation, shownOver>>
     \/ /\ ~Superseded(id) /\ isInline
        /\ childDisplayId' = None
        /\ Show("inline", Ack(id))
        /\ UNCHANGED hostDisplayActive
     \/ /\ ~Superseded(id) /\ ~isInline
        /\ childDisplayId' = None
        /\ hostDisplayActive' = FALSE
        /\ hideLayoutAnimated(id)
  /\ UNCHANGED <<rpcAccessCount, timers, fixedVars, childVars>>

-----------------------------------------------------------------------------
(* DisplayChildClient. *)

Emit(kind, id) == toHost' = Append(toHost, Message(kind, id))
Room           == ~destroyed /\ Len(toHost) + Len(toChild) + Len(running) < MaxQueue
Set(t, state, id) == [task EXCEPT ![t] = [state |-> state, id |-> id]]

requestDisplay(t) ==
  /\ Room
  /\ task[t].state = "idle"
  /\ IF activeSession # None
     THEN /\ displayDepth' = displayDepth + 1
          /\ task' = Set(t, "held", activeSession)
          /\ UNCHANGED <<pending, nextDisplayId, toHost>>
     ELSE /\ nextDisplayId \in Ids
          /\ nextDisplayId' = nextDisplayId + 1
          /\ pending' = pending \cup {nextDisplayId}
          /\ task' = Set(t, "waiting", nextDisplayId)
          /\ Emit("requestDisplay", nextDisplayId)
          /\ UNCHANGED displayDepth
  /\ UNCHANGED <<pendingHide, activeSession, timedOut, hideUsed, hostVars, toChild>>

\* The caller whose promise the answer to id settles.
WaiterOf(id, state) == {t \in Tasks : task[t] = [state |-> state, id |-> id]}

Answered(kind, id) == /\ toChild # <<>>
                      /\ Head(toChild) = Message(kind, id)
                      /\ toChild' = Tail(toChild)

\* Fault: the depth starts again with every acknowledgement.
ReadyResettingDepth(id) ==
  /\ Answered("displayReady", id)
  /\ IF id \notin pending THEN UNCHANGED <<pending, task, activeSession, displayDepth>>
     ELSE /\ pending' = pending \ {id}
          /\ task' = [t \in Tasks |-> IF t \in WaiterOf(id, "waiting")
                                      THEN [state |-> "held", id |-> id] ELSE task[t]]
          /\ displayDepth' = 1
          /\ activeSession' = id
  /\ UNCHANGED <<pendingHide, nextDisplayId, timedOut, hideUsed, hostVars, toHost>>

handleDisplayReady(id) ==
  /\ Answered("displayReady", id)
  /\ IF id \notin pending THEN UNCHANGED <<pending, task, activeSession, displayDepth>>
     ELSE /\ pending' = pending \ {id}
          /\ task' = [t \in Tasks |-> IF t \in WaiterOf(id, "waiting")
                                      THEN [state |-> "held", id |-> id] ELSE task[t]]
          /\ displayDepth' = IF activeSession # None THEN displayDepth + 1 ELSE 1
          /\ activeSession' = id
  /\ UNCHANGED <<pendingHide, nextDisplayId, timedOut, hideUsed, hostVars, toHost>>

DisplayTimeout(t) ==
  /\ ~destroyed
  /\ task[t].state = "waiting"
  /\ pending' = pending \ {task[t].id}
  /\ timedOut' = timedOut \cup {task[t].id}
  /\ task' = [task EXCEPT ![t] = Free]
  /\ UNCHANGED <<pendingHide, activeSession, displayDepth, nextDisplayId, hideUsed,
                 hostVars, toHost, toChild>>

\* clearActiveSession, a hide without an id clearing any session.
ClearActiveSession(id) ==
  IF id \in {Anonymous, activeSession} THEN activeSession' = None /\ displayDepth' = 0
  ELSE UNCHANGED <<activeSession, displayDepth>>

\* Fault: only the session the caller was given is released.
ReleaseOwnSession(t) ==
  /\ Room
  /\ task[t].state = "held"
  /\ task' = [task EXCEPT ![t] = Free]
  /\ \/ /\ activeSession # task[t].id
        /\ UNCHANGED <<activeSession, displayDepth, toHost>>
     \/ /\ activeSession = task[t].id /\ displayDepth > 1
        /\ displayDepth' = displayDepth - 1
        /\ UNCHANGED <<activeSession, toHost>>
     \/ /\ activeSession = task[t].id /\ displayDepth <= 1
        /\ Emit("releaseDisplay", activeSession)
        /\ activeSession' = None
        /\ displayDepth' = 0
  /\ UNCHANGED <<pending, pendingHide, nextDisplayId, timedOut, hideUsed, hostVars, toChild>>

releaseSession(t) ==
  /\ Room
  /\ task[t].state = "held"
  /\ task' = [task EXCEPT ![t] = Free]
  /\ \/ /\ activeSession = None
        /\ UNCHANGED <<activeSession, displayDepth, toHost>>
     \/ /\ activeSession # None /\ displayDepth > 1
        /\ displayDepth' = displayDepth - 1
        /\ UNCHANGED <<activeSession, toHost>>
     \/ /\ activeSession # None /\ displayDepth <= 1
        /\ Emit("releaseDisplay", activeSession)
        /\ activeSession' = None
        /\ displayDepth' = 0
  /\ UNCHANGED <<pending, pendingHide, nextDisplayId, timedOut, hideUsed, hostVars, toChild>>

\* session.hide of a holder, or OWSWallet.requestHide, which names no session.
requestHide(t) ==
  /\ Room
  /\ task[t].state \in {"held", "idle"}
  /\ LET id == IF task[t].state = "held" THEN task[t].id ELSE Anonymous
     IN /\ pendingHide' = [pendingHide EXCEPT ![id] = t]
        /\ task' = Set(t, "hiding", id)
        /\ Emit("requestHide", id)
  /\ hideUsed' = TRUE
  /\ UNCHANGED <<pending, activeSession, displayDepth, nextDisplayId, timedOut, hostVars, toChild>>

handleHideReady(id) ==
  /\ Answered("hideReady", id)
  /\ IF pendingHide[id] = None
     THEN UNCHANGED <<pendingHide, task, activeSession, displayDepth>>
     ELSE /\ pendingHide' = [pendingHide EXCEPT ![id] = None]
          /\ task' = [task EXCEPT ![pendingHide[id]] = Free]
          /\ ClearActiveSession(id)
  /\ UNCHANGED <<pending, nextDisplayId, timedOut, hideUsed, hostVars, toHost>>

\* The timer removes the entry of its key, be it its own or a later caller's.
HideTimeout(t) ==
  /\ ~destroyed
  /\ task[t].state = "hiding"
  /\ pendingHide' = [pendingHide EXCEPT ![task[t].id] = None]
  /\ task' = [task EXCEPT ![t] = Free]
  /\ ClearActiveSession(task[t].id)
  /\ UNCHANGED <<pending, nextDisplayId, timedOut, hideUsed, hostVars, toHost, toChild>>

-----------------------------------------------------------------------------
Host == \/ AnimationFinished \/ Resize \/ HostShow \/ HostHide
        \/ prepareForRpcAccess \/ completeRpcAccess \/ restoreOrHide \/ Destroy
        \/ \E id \in Keys : \/ handleRequestDisplay(id) \/ handleReleaseDisplay(id)
                            \/ handleRequestHide(id)

Child == \/ \E id \in Keys : handleDisplayReady(id) \/ handleHideReady(id)
         \/ \E t \in Tasks : \/ requestDisplay(t) \/ DisplayTimeout(t)
                             \/ releaseSession(t) \/ requestHide(t) \/ HideTimeout(t)

Next == Host \/ Child

Spec == Init /\ [][Next]_vars

-----------------------------------------------------------------------------
(* Properties. *)

\* While the Branding Layer or the application holds the panel, it is on the
\* screen, unless the last show met a drawer that was sliding out
\* (DisplayHostHandler.ts hide, completeRpcAccess, handleReleaseDisplay).
ShownWhileHeld == Held /\ ~destroyed /\ ~shownOver => layout \in Panels

\* Not so in the code: the same of the drawer, whatever was animated when it was
\* shown.  The finally of a hide animation removes a drawer shown meanwhile
\* (DisplayHostHandler.ts:612).
DrawerShownWhileHeld == Held /\ ~destroyed => layout \in Panels

\* Once nobody holds the panel, no RPC is in flight and no timer or animation is
\* left to hide it, it is hidden: neither panel nor passthrough frame stays
\* behind (completeRpcAccess, handleReleaseDisplay, hide).
HiddenWhenIdle ==
  ~isInline /\ ~Held /\ rpcAccessCount = 0 /\ timers = 0 /\ running = <<>>
    => layout = "hidden"

Queued(q, m) == \E i \in DOMAIN q : q[i] = m

Settled == ~destroyed /\ toHost = <<>> /\ toChild = <<>> /\ \A t \in Tasks : task[t].state = "idle"

\* As long as callers release and do not hide, a session one of them still holds
\* is not closed by another's release, the other end of the channel included
\* (child-client.ts handleDisplayReady, releaseSession).
HolderKeepsDisplay ==
  ~destroyed /\ ~hideUsed => \A t \in Tasks : task[t].state = "held" => childDisplayId # None

\* Callers that release what they asked for leave no display session behind in
\* the host, however their requests overlapped, if none timed out
\* (child-client.ts releaseSession).
NoneLeakedByRelease == Settled /\ ~hideUsed /\ timedOut = {} => childDisplayId = None

\* Not so in the code: the same of callers that hide or release.  An anonymous hide
\* that is answered late clears a newer session in the child; its release then
\* says nothing to the host (child-client.ts:171, 191-194).
NoneLeaked == Settled /\ timedOut = {} => childDisplayId = None
=============================================================================
