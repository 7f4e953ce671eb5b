---------------------------- MODULE Display_proofs ----------------------------
(***************************************************************************)
(* The panel is on the screen while it is held, and off it when nobody     *)
(* holds it and nothing is left to hide it, for any number of callers,     *)
(* display sessions, host RPCs, timers and animations.  And as long as     *)
(* callers release what they asked for and nobody hides, a session that is *)
(* held stays open at the host and one that is not is closed.  That needs  *)
(* a second invariant, SessionInv: ids only grow on their way through both *)
(* channels, so that a release can never close a newer session.            *)
(***************************************************************************)
EXTENDS Display, SequenceTheorems, FiniteSetTheorems, TLAPS

LayoutTypes ==
  /\ viewport \in Viewports
  /\ running \in Seq(Keys \cup {None})
  /\ hideAnimation \in BOOLEAN /\ shownOver \in BOOLEAN
  /\ rpcAccessCount \in Nat /\ timers \in Nat

\* An inline wallet never leaves its place.
InlineStays == isInline => layout = "inline" /\ running = <<>> /\ ~hideAnimation

\* What a hide restores is the hidden frame, and the frame is hidden unless that
\* is recorded.
RestoresHidden ==
  ~isInline => /\ originalLayout \in {None, "hidden"}
               /\ originalLayout = None => layout = "hidden"

AnimationIsRunning == hideAnimation => running # <<>>

LayoutInv == LayoutTypes /\ InlineStays /\ RestoresHidden /\ AnimationIsRunning

\* Animations start when nobody holds the panel: one that runs while it is held
\* was met by a show.
HeldMeansShownOver == running # <<>> /\ Held => shownOver

NoPassthroughWhileHeld == ~isInline /\ Held /\ ~destroyed => layout # "passthrough"

DestroyedIsHidden ==
  destroyed => toHost = <<>> /\ running = <<>> /\ (~isInline => layout = "hidden")

IInv == /\ LayoutInv /\ HeldMeansShownOver /\ NoPassthroughWhileHeld /\ DestroyedIsHidden
        /\ ShownWhileHeld /\ HiddenWhenIdle

-----------------------------------------------------------------------------
(* Shows and hides. *)

LEMMA RunningFacts ==
  ASSUME NEW S, NEW q \in Seq(S), q # <<>>
  PROVE  /\ Tail(q) \in Seq(S) /\ AllButLast(q) \in Seq(S)
         /\ \A e \in S : Append(AllButLast(q), e) # <<>>
<1>1. Len(q) \in Nat \ {0}
  BY EmptySeq
<1>2. AllButLast(q) \in Seq(S)
  BY <1>1 DEF AllButLast
<1>3. Tail(q) \in Seq(S)
  BY HeadTailProperties
<1> QED  BY <1>2, <1>3, AppendProperties

\* A show puts the panel up, unless it cancels an animation; then it hides it.
LEMMA ShowLayout ==
  ASSUME LayoutInv, NEW to \in Panels \cup {"passthrough"}, NEW posts, Show(to, posts),
         isInline => to = "inline",
         presentationMode' = presentationMode, viewport' \in Viewports,
         rpcAccessCount' \in Nat, timers' \in Nat
  PROVE  /\ LayoutInv'
         /\ layout' \in {to, "hidden"}
         /\ shownOver' = (running # <<>>)
         /\ ~shownOver' => layout' = to
         /\ running' # <<>> => shownOver'
         /\ isInline' = isInline
<1> USE DEF LayoutInv
<1>1. CASE hideAnimation
  <2>1. running # <<>> /\ ~isInline
    BY <1>1 DEF AnimationIsRunning, InlineStays
  <2>2. running' \in Seq(Keys \cup {None})
    BY <1>1, <2>1, RunningFacts DEF Show, LayoutTypes
  <2>3. layout' = "hidden" /\ originalLayout' = None
    BY <1>1, <2>1 DEF Show, RestoresHidden
  <2> QED
    BY <1>1, <2>1, <2>2, <2>3
       DEF Show, LayoutTypes, InlineStays, RestoresHidden, AnimationIsRunning, isInline
<1>2. CASE ~hideAnimation
  <2>1. ~isInline => originalLayout' = "hidden"
    BY <1>2, LayoutsAssumption DEF Show, RestoresHidden, Layouts
  <2>2. None # "hidden"
    BY LayoutsAssumption DEF Layouts
  <2> QED
    BY <1>2, <2>1, <2>2
       DEF Show, LayoutTypes, InlineStays, RestoresHidden, AnimationIsRunning, isInline
<1> QED  BY <1>1, <1>2 DEF LayoutTypes

\* A hide leaves an animation running, or the panel hidden.
LEMMA HideLayout ==
  ASSUME LayoutInv, ~isInline, NEW ack \in Keys \cup {None}, hideLayoutAnimated(ack),
         presentationMode' = presentationMode, viewport' \in Viewports,
         rpcAccessCount' \in Nat, timers' \in Nat
  PROVE  /\ LayoutInv'
         /\ running' # <<>> \/ layout' = "hidden"
         /\ isInline' = isInline
<1> USE DEF LayoutInv
<1>1. isInline' = isInline
  BY DEF isInline
<1>2. CASE layout # "drawer"
  <2>1. layout' = "hidden" /\ originalLayout' = None
    BY <1>2 DEF hideLayoutAnimated, hideLayoutSync, RestoresHidden
  <2> QED
    BY <1>1, <1>2, <2>1
       DEF hideLayoutAnimated, LayoutTypes, InlineStays, RestoresHidden, AnimationIsRunning
<1>3. CASE layout = "drawer" /\ hideAnimation
  <2>1. running # <<>> /\ running' = Append(AllButLast(running), ack)
    BY <1>3 DEF hideLayoutAnimated, AnimationIsRunning
  <2>2. running' \in Seq(Keys \cup {None}) /\ running' # <<>>
    BY <2>1, RunningFacts, AppendProperties DEF LayoutTypes
  <2>3. layout' = "hidden" /\ originalLayout' = None
    BY <1>3 DEF hideLayoutAnimated, hideLayoutSync, RestoresHidden
  <2> QED
    BY <1>1, <1>3, <2>2, <2>3
       DEF hideLayoutAnimated, LayoutTypes, InlineStays, RestoresHidden, AnimationIsRunning
<1>4. CASE layout = "drawer" /\ ~hideAnimation
  <2>1. running' \in Seq(Keys \cup {None}) /\ running' # <<>>
    BY <1>4, AppendProperties DEF hideLayoutAnimated, LayoutTypes
  <2> QED
    BY <1>1, <1>4, <2>1
       DEF hideLayoutAnimated, LayoutTypes, InlineStays, RestoresHidden, AnimationIsRunning
<1> QED  BY <1>2, <1>3, <1>4 DEF LayoutTypes

\* The invariant after a panel was put up for whoever holds it.
LEMMA PanelKeeps ==
  ASSUME IInv, NEW to \in Panels, NEW posts, Show(to, posts), isInline => to = "inline",
         ~destroyed, UNCHANGED <<presentationMode, destroyed>>, viewport' \in Viewports,
         rpcAccessCount' \in Nat, timers' \in Nat, Held' \/ isInline
  PROVE  IInv'
<1>1. /\ LayoutInv' /\ layout' \in {to, "hidden"} /\ (~shownOver' => layout' = to)
      /\ (running' # <<>> => shownOver') /\ isInline' = isInline
  BY ShowLayout DEF IInv
<1>2. NoPassthroughWhileHeld' /\ DestroyedIsHidden'
  BY <1>1 DEF NoPassthroughWhileHeld, DestroyedIsHidden, Panels
<1>3. HeldMeansShownOver' /\ ShownWhileHeld' /\ HiddenWhenIdle'
  BY <1>1 DEF HeldMeansShownOver, ShownWhileHeld, HiddenWhenIdle
<1> QED  BY <1>1, <1>2, <1>3 DEF IInv

\* The invariant after the last holder let go.
LEMMA HideKeeps ==
  ASSUME IInv, ~isInline, NEW ack \in Keys \cup {None}, hideLayoutAnimated(ack),
         ~destroyed, UNCHANGED <<presentationMode, destroyed>>, viewport' \in Viewports,
         rpcAccessCount' \in Nat, timers' \in Nat, ~Held'
  PROVE  IInv'
<1>1. /\ LayoutInv' /\ (running' # <<>> \/ layout' = "hidden") /\ isInline' = isInline
  BY HideLayout DEF IInv
<1> QED
  BY <1>1 DEF IInv, HeldMeansShownOver, NoPassthroughWhileHeld, DestroyedIsHidden,
     ShownWhileHeld, HiddenWhenIdle

\* The invariant when the layout stays: nobody who holds the panel is new, and
\* what keeps an unheld one up is still there.
LEMMA LayoutStays ==
  ASSUME IInv, UNCHANGED <<layout, originalLayout, running, hideAnimation, shownOver,
                           presentationMode, destroyed>>,
         viewport' \in Viewports, rpcAccessCount' \in Nat, timers' \in Nat,
         Held' => Held, destroyed => toHost' = <<>>,
         \/ destroyed \/ isInline \/ Held' \/ rpcAccessCount' # 0 \/ timers' # 0
         \/ ~Held /\ rpcAccessCount = 0 /\ timers = 0
  PROVE  IInv'
<1>1. isInline' = isInline
  BY DEF isInline
<1>2. LayoutInv'
  BY <1>1 DEF IInv, LayoutInv, LayoutTypes, InlineStays, RestoresHidden, AnimationIsRunning
<1>3. HeldMeansShownOver' /\ NoPassthroughWhileHeld' /\ DestroyedIsHidden' /\ ShownWhileHeld'
  BY <1>1 DEF IInv, HeldMeansShownOver, NoPassthroughWhileHeld, DestroyedIsHidden, ShownWhileHeld
<1>4. HiddenWhenIdle'
  BY <1>1 DEF IInv, HiddenWhenIdle, DestroyedIsHidden
<1> QED  BY <1>2, <1>3, <1>4 DEF IInv

\* The invariant when a host RPC lays out its frame under nobody's panel.
LEMMA FrameKeeps ==
  ASSUME IInv, prepareForRpcAccess
  PROVE  IInv'
<1>1. ~destroyed /\ UNCHANGED <<presentationMode, destroyed, childDisplayId, hostDisplayActive,
                                toHost>>
  BY DEF prepareForRpcAccess, fixedVars
<1>2. viewport' \in Viewports /\ rpcAccessCount' \in Nat \ {0} /\ timers' \in Nat
  BY DEF IInv, LayoutInv, LayoutTypes, prepareForRpcAccess, fixedVars
<1>3. CASE UNCHANGED layoutVars
  <2>1. Held' = Held
    BY <1>1 DEF Held
  <2> QED  BY <1>1, <1>2, <1>3, <2>1, LayoutStays DEF layoutVars
<1>4. CASE ~UNCHANGED layoutVars
  <2>1. Show("passthrough", <<>>) /\ ~isInline /\ ~Held
    BY <1>1, <1>4 DEF prepareForRpcAccess, Held, IInv, NoPassthroughWhileHeld
  <2>2. LayoutInv' /\ isInline' = isInline
    BY <1>1, <1>2, <2>1, ShowLayout DEF IInv
  <2>3. ~Held'
    BY <1>1, <2>1 DEF Held
  <2> QED
    BY <1>1, <1>2, <2>2, <2>3 DEF IInv, HeldMeansShownOver, NoPassthroughWhileHeld,
       DestroyedIsHidden, ShownWhileHeld, HiddenWhenIdle
<1> QED  BY <1>3, <1>4

-----------------------------------------------------------------------------
(* The actions. *)

LEMMA PanelOf ==
  ASSUME NEW view \in Viewports
  PROVE  Panel(view) \in Panels /\ (isInline => Panel(view) = "inline")
  BY ViewsAssumption DEF Panel, Panels

LEMMA InitInv == Init => IInv
<1> SUFFICES ASSUME Init
             PROVE  IInv
  OBVIOUS
<1>1. LayoutInv
  <2>1. LayoutTypes
    BY EmptySeq DEF Init, LayoutTypes
  <2>2. InlineStays /\ RestoresHidden /\ AnimationIsRunning
    BY DEF Init, InlineStays, RestoresHidden, AnimationIsRunning, isInline
  <2> QED  BY <2>1, <2>2 DEF LayoutInv
<1>2. HeldMeansShownOver /\ NoPassthroughWhileHeld /\ DestroyedIsHidden /\ ShownWhileHeld
      /\ HiddenWhenIdle
  BY DEF Init, isInline, HeldMeansShownOver, NoPassthroughWhileHeld, DestroyedIsHidden,
     ShownWhileHeld, HiddenWhenIdle, Held, Panels
<1> QED  BY <1>1, <1>2 DEF IInv

LEMMA FinishedKeeps ==
  ASSUME IInv, AnimationFinished
  PROVE  IInv'
<1>1. UNCHANGED <<presentationMode, destroyed, childDisplayId, hostDisplayActive, viewport,
                  rpcAccessCount, timers, shownOver>> /\ ~destroyed /\ running # <<>>
  BY DEF AnimationFinished, fixedVars, holdVars
<1>2. ~isInline /\ isInline' = isInline /\ Held' = Held
  BY <1>1 DEF IInv, LayoutInv, InlineStays, isInline, Held
<1>3. layout' = "hidden" /\ originalLayout' = None
  BY <1>2 DEF AnimationFinished, hideLayoutSync, IInv, LayoutInv, RestoresHidden
<1>4. running' \in Seq(Keys \cup {None}) /\ ~hideAnimation' /\ hideAnimation' \in BOOLEAN
  BY <1>1, RunningFacts DEF AnimationFinished, IInv, LayoutInv, LayoutTypes
<1>5. LayoutInv'
  BY <1>1, <1>2, <1>3, <1>4
     DEF IInv, LayoutInv, LayoutTypes, InlineStays, RestoresHidden, AnimationIsRunning
<1>6. Held => shownOver
  BY <1>1 DEF IInv, HeldMeansShownOver
<1> QED
  BY <1>1, <1>2, <1>3, <1>5, <1>6 DEF IInv, HeldMeansShownOver, NoPassthroughWhileHeld,
     DestroyedIsHidden, ShownWhileHeld, HiddenWhenIdle

LEMMA ResizeKeeps ==
  ASSUME IInv, Resize
  PROVE  IInv'
<1>1. /\ UNCHANGED <<presentationMode, destroyed, childDisplayId, hostDisplayActive,
                     rpcAccessCount, timers, toHost>>
      /\ ~destroyed /\ viewport' \in Viewports
  BY DEF Resize, holdVars
<1>2. rpcAccessCount \in Nat /\ timers \in Nat /\ Held' = Held
  BY <1>1 DEF IInv, LayoutInv, LayoutTypes, Held
<1>3. CASE UNCHANGED layoutVars
  BY <1>1, <1>2, <1>3, LayoutStays DEF layoutVars
<1>4. CASE ~UNCHANGED layoutVars
  <2>1. Show(viewport', <<>>) /\ ~isInline /\ Held
    BY <1>4 DEF Resize
  <2>2. viewport' \in Panels
    BY <1>1, ViewsAssumption DEF Panels
  <2> QED  BY <1>1, <1>2, <2>1, <2>2, PanelKeeps
<1> QED  BY <1>3, <1>4

LEMMA HostShowKeeps ==
  ASSUME IInv, HostShow
  PROVE  IInv'
<1>1. /\ UNCHANGED <<presentationMode, destroyed>> /\ ~destroyed
      /\ viewport \in Viewports /\ viewport' \in Viewports
      /\ rpcAccessCount' \in Nat /\ timers' \in Nat /\ Held'
  BY DEF HostShow, fixedVars, IInv, LayoutInv, LayoutTypes, Held
<1> QED  BY <1>1, PanelOf, PanelKeeps DEF HostShow

LEMMA HostHideKeeps ==
  ASSUME IInv, HostHide
  PROVE  IInv'
<1>1. /\ UNCHANGED <<presentationMode, destroyed, childDisplayId, rpcAccessCount, timers, toHost>>
      /\ ~destroyed /\ ~isInline /\ ~hostDisplayActive' /\ viewport' \in Viewports
      /\ rpcAccessCount' \in Nat /\ timers' \in Nat
  BY DEF HostHide, fixedVars, IInv, LayoutInv, LayoutTypes
<1>2. CASE rpcAccessCount = 0 /\ childDisplayId = None
  BY <1>1, <1>2, HideKeeps DEF HostHide, Held
<1>3. CASE ~(rpcAccessCount = 0 /\ childDisplayId = None)
  <2>1. UNCHANGED layoutVars
    BY <1>3 DEF HostHide
  <2>2. Held' => Held
    BY <1>1 DEF Held
  <2>3. Held' \/ rpcAccessCount' # 0
    BY <1>1, <1>3 DEF Held
  <2> QED  BY <1>1, <2>1, <2>2, <2>3, LayoutStays DEF layoutVars
<1> QED  BY <1>2, <1>3

LEMMA CompleteKeeps ==
  ASSUME IInv, completeRpcAccess
  PROVE  IInv'
<1>1. /\ UNCHANGED <<presentationMode, viewport, destroyed, childDisplayId, hostDisplayActive,
                     toHost>>
      /\ UNCHANGED <<layout, originalLayout, running, hideAnimation, shownOver>>
  BY DEF completeRpcAccess, fixedVars, layoutVars
<1>2. /\ viewport' \in Viewports /\ rpcAccessCount' \in Nat /\ timers' \in Nat
      /\ rpcAccessCount' # 0 \/ timers' # 0
  BY <1>1 DEF completeRpcAccess, IInv, LayoutInv, LayoutTypes
<1>3. Held' = Held
  BY <1>1 DEF Held
<1> QED  BY <1>1, <1>2, <1>3, LayoutStays DEF IInv, DestroyedIsHidden

LEMMA RestoreKeeps ==
  ASSUME IInv, restoreOrHide
  PROVE  IInv'
<1>1. /\ UNCHANGED <<presentationMode, viewport, destroyed, childDisplayId, hostDisplayActive,
                     rpcAccessCount, toHost>>
  BY DEF restoreOrHide, fixedVars
<1>2. /\ viewport \in Viewports /\ viewport' \in Viewports /\ rpcAccessCount' \in Nat
      /\ timers' \in Nat
  BY <1>1 DEF restoreOrHide, IInv, LayoutInv, LayoutTypes
<1>3. Held' = Held
  BY <1>1 DEF Held
<1>4. CASE rpcAccessCount # 0 \/ destroyed
  <2>1. UNCHANGED <<layout, originalLayout, running, hideAnimation, shownOver>>
    BY <1>4 DEF restoreOrHide, layoutVars
  <2> QED  BY <1>1, <1>2, <1>3, <1>4, <2>1, LayoutStays DEF IInv, DestroyedIsHidden
<1>5. CASE rpcAccessCount = 0 /\ ~destroyed /\ (isInline \/ Held)
  <2>1. Show(Panel(viewport), <<>>)
    BY <1>5 DEF restoreOrHide
  <2> QED  BY <1>1, <1>2, <1>3, <1>5, <2>1, PanelOf, PanelKeeps
<1>6. CASE rpcAccessCount = 0 /\ ~destroyed /\ ~isInline /\ ~Held
  <2>1. hideLayoutAnimated(None)
    BY <1>6 DEF restoreOrHide
  <2> QED  BY <1>1, <1>2, <1>3, <1>6, <2>1, HideKeeps
<1> QED  BY <1>4, <1>5, <1>6

LEMMA DestroyKeeps ==
  ASSUME IInv, Destroy
  PROVE  IInv'
<1>1. isInline' = isInline
  BY DEF Destroy, isInline
<1>2. LayoutInv'
  <2>1. LayoutTypes'
    BY EmptySeq DEF Destroy, IInv, LayoutInv, LayoutTypes
  <2>2. InlineStays' /\ RestoresHidden' /\ AnimationIsRunning'
    BY <1>1 DEF Destroy, IInv, LayoutInv, InlineStays, RestoresHidden, AnimationIsRunning
  <2> QED  BY <2>1, <2>2 DEF LayoutInv
<1> QED
  BY <1>1, <1>2 DEF Destroy, IInv, HeldMeansShownOver, NoPassthroughWhileHeld,
     DestroyedIsHidden, ShownWhileHeld, HiddenWhenIdle

LEMMA RequestDisplayKeeps ==
  ASSUME IInv, NEW id \in Keys, handleRequestDisplay(id)
  PROVE  IInv'
<1>1. /\ UNCHANGED <<presentationMode, destroyed>> /\ ~destroyed
      /\ viewport \in Viewports /\ viewport' \in Viewports
      /\ rpcAccessCount' \in Nat /\ timers' \in Nat
  BY DEF handleRequestDisplay, Receives, fixedVars, IInv, LayoutInv, LayoutTypes,
     DestroyedIsHidden
<1>2. Held'
  BY NamesAssumption DEF handleRequestDisplay, Held, Keys
<1> QED  BY <1>1, <1>2, PanelOf, PanelKeeps DEF handleRequestDisplay

LEMMA ReleaseDisplayKeeps ==
  ASSUME IInv, NEW id \in Keys, handleReleaseDisplay(id)
  PROVE  IInv'
<1>1. /\ UNCHANGED <<presentationMode, destroyed, hostDisplayActive, rpcAccessCount, timers>>
      /\ ~destroyed /\ viewport' \in Viewports
      /\ rpcAccessCount' \in Nat /\ timers' \in Nat
  BY DEF handleReleaseDisplay, Receives, fixedVars, IInv, LayoutInv, LayoutTypes,
     DestroyedIsHidden
<1>2. CASE childDisplayId # id
  <2>1. UNCHANGED layoutVars /\ childDisplayId' = childDisplayId
    BY <1>2 DEF handleReleaseDisplay
  <2>2. Held' = Held
    BY <1>1, <2>1 DEF Held
  <2> QED  BY <1>1, <2>1, <2>2, LayoutStays DEF layoutVars
<1>3. CASE childDisplayId = id /\ isInline
  <2>1. Show("inline", <<>>)
    BY <1>3 DEF handleReleaseDisplay
  <2> QED  BY <1>1, <1>3, <2>1, PanelKeeps DEF Panels
<1>4. CASE childDisplayId = id /\ ~isInline /\ rpcAccessCount = 0 /\ ~hostDisplayActive
  <2>1. hideLayoutAnimated(None) /\ childDisplayId' = None
    BY <1>4 DEF handleReleaseDisplay
  <2> QED  BY <1>1, <1>4, <2>1, HideKeeps DEF Held
<1>5. CASE childDisplayId = id /\ ~isInline /\ (rpcAccessCount # 0 \/ hostDisplayActive)
  <2>1. UNCHANGED layoutVars /\ childDisplayId' = None
    BY <1>5 DEF handleReleaseDisplay
  <2>2. (Held' => Held) /\ (Held' \/ rpcAccessCount' # 0)
    BY <1>1, <1>5, <2>1 DEF Held
  <2> QED  BY <1>1, <2>1, <2>2, LayoutStays DEF layoutVars
<1> QED  BY <1>2, <1>3, <1>4, <1>5

LEMMA RequestHideKeeps ==
  ASSUME IInv, NEW id \in Keys, handleRequestHide(id)
  PROVE  IInv'
<1>1. /\ UNCHANGED <<presentationMode, destroyed, rpcAccessCount, timers>>
      /\ ~destroyed /\ viewport' \in Viewports
      /\ rpcAccessCount' \in Nat /\ timers' \in Nat
  BY DEF handleRequestHide, Receives, fixedVars, IInv, LayoutInv, LayoutTypes,
     DestroyedIsHidden
<1>2. CASE Superseded(id)
  <2>1. UNCHANGED <<childDisplayId, hostDisplayActive, layout, originalLayout, running,
                    hideAnimation, shownOver>>
    BY <1>2 DEF handleRequestHide
  <2>2. Held' = Held
    BY <2>1 DEF Held
  <2> QED  BY <1>1, <2>1, <2>2, LayoutStays
<1>3. CASE ~Superseded(id) /\ isInline
  <2>1. Show("inline", Ack(id))
    BY <1>3 DEF handleRequestHide
  <2> QED  BY <1>1, <1>3, <2>1, PanelKeeps DEF Panels
<1>4. CASE ~Superseded(id) /\ ~isInline
  <2>1. hideLayoutAnimated(id) /\ ~Held'
    BY <1>4 DEF handleRequestHide, Held
  <2> QED  BY <1>1, <1>4, <2>1, HideKeeps
<1> QED  BY <1>2, <1>3, <1>4

\* The Branding Layer only sends messages, and only while there is a frame.
LEMMA ChildKeeps ==
  ASSUME IInv, Child
  PROVE  IInv'
<1>1. UNCHANGED hostVars /\ (destroyed => toHost' = toHost)
  BY DEF Child, handleDisplayReady, handleHideReady, requestDisplay, DisplayTimeout,
     releaseSession, requestHide, HideTimeout, Room
<1> QED
  BY <1>1 DEF hostVars, IInv, LayoutInv, LayoutTypes, InlineStays, RestoresHidden,
     AnimationIsRunning, HeldMeansShownOver, NoPassthroughWhileHeld, DestroyedIsHidden,
     ShownWhileHeld, HiddenWhenIdle, Held, isInline

LEMMA StepInv == IInv /\ [Next]_vars => IInv'
<1> SUFFICES ASSUME IInv, [Next]_vars
             PROVE  IInv'
  OBVIOUS
<1>1. CASE UNCHANGED vars
  BY <1>1 DEF vars, hostVars, IInv, LayoutInv, LayoutTypes, InlineStays, RestoresHidden,
     AnimationIsRunning, HeldMeansShownOver, NoPassthroughWhileHeld, DestroyedIsHidden,
     ShownWhileHeld, HiddenWhenIdle, Held, isInline
<1>2. CASE Host
  BY <1>2, FinishedKeeps, ResizeKeeps, HostShowKeeps, HostHideKeeps, FrameKeeps, CompleteKeeps,
     RestoreKeeps, DestroyKeeps, RequestDisplayKeeps, ReleaseDisplayKeeps, RequestHideKeeps
     DEF Host
<1> QED  BY <1>1, <1>2, ChildKeeps DEF Next

-----------------------------------------------------------------------------
(* The display sessions, as long as callers release and do not hide. *)

\* The frame is there and no caller has hidden it.
Uses == ~destroyed /\ ~hideUsed

\* The messages and answers there are as long as nobody hides.
Requests == [kind : {"requestDisplay"}, id : Ids]
Releases == [kind : {"releaseDisplay"}, id : Ids]
Readies  == [kind : {"displayReady"}, id : Ids]

SessionTypes ==
  /\ toHost \in Seq(Requests \cup Releases)
  /\ toChild \in Seq(Readies)
  /\ running \in Seq({None})
  /\ childDisplayId \in Ids \cup {None}
  /\ activeSession \in Ids \cup {None}
  /\ nextDisplayId \in Nat
  /\ task \in [Tasks -> [state : {"idle", "waiting", "held"}, id : Ids \cup {None}]]

\* Every caller that waits does so for a request of its own.
Waits(t) == task[t].state = "waiting"
WaitersPend ==
  /\ \A t \in Tasks : Waits(t) => task[t].id \in pending
  /\ \A t, u \in Tasks : Waits(t) /\ Waits(u) /\ task[t].id = task[u].id => t = u
  /\ \A id \in pending : /\ id \in Ids /\ id < nextDisplayId
                         /\ \E t \in Tasks : Waits(t) /\ task[t].id = id

\* The depth counts the callers that hold the session.
Holders == {t \in Tasks : task[t].state = "held"}
HoldersCounted ==
  /\ IsFiniteSet(Holders)
  /\ displayDepth = Cardinality(Holders)
  /\ activeSession = None <=> Holders = {}

RequestOf(m) == m.kind = "requestDisplay"

\* Ids grow on their way through the queues: what the host has yet to be asked for
\* is newer than all it was asked for, and what it is to release is older than
\* all it has acknowledged since.
RequestsGrow ==
  /\ \A i, j \in 1..Len(toHost) :
       RequestOf(toHost[i]) /\ RequestOf(toHost[j]) /\ i < j => toHost[i].id < toHost[j].id
  /\ \A i \in 1..Len(toHost) :
       /\ toHost[i].id < nextDisplayId
       /\ RequestOf(toHost[i]) =>
            /\ childDisplayId # None => childDisplayId < toHost[i].id
            /\ \A j \in 1..Len(toHost) : ~RequestOf(toHost[j]) => toHost[j].id < toHost[i].id
AnswersGrow ==
  /\ \A i, j \in 1..Len(toChild) : i < j => toChild[i].id < toChild[j].id
  /\ \A i \in 1..Len(toChild) :
       /\ childDisplayId # None /\ toChild[i].id <= childDisplayId
       /\ activeSession # None => activeSession < toChild[i].id
       /\ \A j \in 1..Len(toHost) : ~RequestOf(toHost[j]) => toHost[j].id < toChild[i].id
SessionGrows ==
  /\ activeSession # None =>
       /\ childDisplayId # None /\ activeSession <= childDisplayId
       /\ \A j \in 1..Len(toHost) : ~RequestOf(toHost[j]) => toHost[j].id < activeSession
  /\ childDisplayId # None => childDisplayId < nextDisplayId

\* The host's session is one that is being answered, that is held, or that is
\* being released; without timeouts somebody waits for what is answered.
SessionIsSomebodys ==
  timedOut = {} =>
    /\ childDisplayId # None =>
         \/ activeSession = childDisplayId
         \/ \E i \in 1..Len(toChild) : toChild[i].id = childDisplayId
         \/ \E i \in 1..Len(toHost) : ~RequestOf(toHost[i]) /\ toHost[i].id = childDisplayId
    /\ \A i \in 1..Len(toChild) : toChild[i].id \in pending
    /\ \A i \in 1..Len(toHost) : RequestOf(toHost[i]) => toHost[i].id \in pending

SessionFacts ==
  /\ SessionTypes /\ WaitersPend /\ HoldersCounted
  /\ RequestsGrow /\ AnswersGrow /\ SessionGrows /\ SessionIsSomebodys

SessionInv == Uses => SessionFacts

-----------------------------------------------------------------------------
\* What the types say of the queues, element by element.
LEMMA QueueFacts ==
  ASSUME SessionTypes
  PROVE  /\ Len(toHost) \in Nat /\ Len(toChild) \in Nat
         /\ \A i \in 1..Len(toHost) :
              toHost[i].id \in Nat /\ toHost[i].kind \in {"requestDisplay", "releaseDisplay"}
         /\ \A i \in 1..Len(toChild) : toChild[i].id \in Nat /\ toChild[i].kind = "displayReady"
         /\ childDisplayId # None => childDisplayId \in Nat
         /\ activeSession # None => activeSession \in Nat
<1>1. \A i \in 1..Len(toHost) : toHost[i] \in Requests \cup Releases
  BY DEF SessionTypes
<1>2. \A i \in 1..Len(toChild) : toChild[i] \in Readies
  BY DEF SessionTypes
<1>3. Len(toHost) \in Nat /\ Len(toChild) \in Nat
  BY DEF SessionTypes
<1>4. /\ childDisplayId # None => childDisplayId \in Nat
      /\ activeSession # None => activeSession \in Nat
  BY IdsAssumption DEF SessionTypes
<1> QED  BY <1>1, <1>2, <1>3, <1>4, IdsAssumption DEF Requests, Releases, Readies

\* Reading a message moves the others up.
LEMMA HostReads ==
  ASSUME SessionTypes, NEW kind, NEW id, Receives(kind, id)
  PROVE  /\ toHost' \in Seq(Requests \cup Releases)
         /\ 1 \in 1..Len(toHost) /\ toHost[1].id = id /\ toHost[1].kind = kind
         /\ Len(toHost') = Len(toHost) - 1
         /\ \A i \in 1..Len(toHost') : i + 1 \in 1..Len(toHost) /\ toHost'[i] = toHost[i + 1]
         /\ \A i \in 1..Len(toHost) : i # 1 => i - 1 \in 1..Len(toHost') /\ toHost'[i - 1] = toHost[i]
<1>1. toHost \in Seq(Requests \cup Releases) /\ toHost # <<>> /\ toHost' = Tail(toHost)
      /\ Head(toHost) = Message(kind, id)
  BY DEF SessionTypes, Receives
<1>2. Len(toHost) \in Nat \ {0} /\ toHost[1] = Head(toHost)
  BY <1>1
<1>3. toHost' \in Seq(Requests \cup Releases) /\ Len(toHost') = Len(toHost) - 1
      /\ \A i \in 1..Len(toHost') : toHost'[i] = toHost[i + 1]
  BY <1>1
<1>4. toHost[1].id = id /\ toHost[1].kind = kind
  BY <1>1, <1>2 DEF Message
<1> QED  BY <1>2, <1>3, <1>4

\* Likewise when the Branding Layer reads an answer.
LEMMA ChildReads ==
  ASSUME SessionTypes, NEW kind, NEW id, Answered(kind, id)
  PROVE  /\ toChild' \in Seq(Readies)
         /\ 1 \in 1..Len(toChild) /\ toChild[1].id = id /\ toChild[1].kind = kind
         /\ Len(toChild') = Len(toChild) - 1
         /\ \A i \in 1..Len(toChild') : i + 1 \in 1..Len(toChild) /\ toChild'[i] = toChild[i + 1]
         /\ \A i \in 1..Len(toChild) : i # 1 => i - 1 \in 1..Len(toChild') /\ toChild'[i - 1] = toChild[i]
<1>1. toChild \in Seq(Readies) /\ toChild # <<>> /\ toChild' = Tail(toChild)
      /\ Head(toChild) = Message(kind, id)
  BY DEF SessionTypes, Answered
<1>2. Len(toChild) \in Nat \ {0} /\ toChild[1] = Head(toChild)
  BY <1>1
<1>3. toChild' \in Seq(Readies) /\ Len(toChild') = Len(toChild) - 1
      /\ \A i \in 1..Len(toChild') : toChild'[i] = toChild[i + 1]
  BY <1>1
<1>4. toChild[1].id = id /\ toChild[1].kind = kind
  BY <1>1, <1>2 DEF Message
<1> QED  BY <1>2, <1>3, <1>4

\* The last element's acknowledgement is none as long as nobody hides.
LEMMA NoAck ==
  ASSUME SessionTypes, running # <<>>
  PROVE  /\ Ack(running[Len(running)]) = <<>> /\ Ack(Head(running)) = <<>>
         /\ AllButLast(running) \in Seq({None}) /\ Tail(running) \in Seq({None})
         /\ Append(AllButLast(running), None) \in Seq({None})
<1>1. running \in Seq({None}) /\ Len(running) \in Nat \ {0}
  BY DEF SessionTypes
<1>2. running[Len(running)] = None /\ Head(running) = None
  BY <1>1
<1>3. AllButLast(running) \in Seq({None}) /\ Tail(running) \in Seq({None})
  BY <1>1, RunningFacts
<1> QED  BY <1>2, <1>3, AppendProperties DEF Ack

\* A show posts what it is to post and nothing else.
LEMMA ShowPosts ==
  ASSUME LayoutInv, SessionTypes, NEW to, NEW posts \in Seq(Readies), Show(to, posts)
  PROVE  toChild' = toChild \o posts /\ running' \in Seq({None})
<1>1. CASE hideAnimation
  <2>1. running # <<>>
    BY <1>1 DEF LayoutInv, AnimationIsRunning
  <2>2. /\ toChild' = toChild \o posts \o <<>>
        /\ running' \in Seq({None})
    BY <1>1, <2>1, NoAck DEF Show
  <2>3. toChild \o posts \in Seq(Readies)
    BY DEF SessionTypes
  <2>4. (toChild \o posts) \o <<>> = toChild \o posts
    BY <2>3, ConcatEmptySeq
  <2> QED  BY <2>2, <2>4
<1>2. CASE ~hideAnimation
  BY <1>2 DEF Show, SessionTypes
<1> QED  BY <1>1, <1>2 DEF LayoutInv, LayoutTypes

\* A show or a hide that answers nothing posts nothing.
LEMMA SilentShow ==
  ASSUME LayoutInv, SessionTypes, NEW to, Show(to, <<>>)
  PROVE  toChild' = toChild /\ running' \in Seq({None})
<1>1. <<>> \in Seq(Readies)
  BY EmptySeq
<1>2. toChild' = toChild \o <<>> /\ running' \in Seq({None})
  BY <1>1, ShowPosts
<1> QED  BY <1>2, ConcatEmptySeq DEF SessionTypes

\* A hide that nobody asked the host for acknowledges nothing.
LEMMA SilentHide ==
  ASSUME LayoutInv, SessionTypes, hideLayoutAnimated(None)
  PROVE  toChild' = toChild /\ running' \in Seq({None})
<1>1. toChild \o <<>> = toChild
  BY ConcatEmptySeq DEF SessionTypes
<1>2. CASE layout # "drawer"
  BY <1>1, <1>2 DEF hideLayoutAnimated, Ack, SessionTypes
<1>3. CASE layout = "drawer" /\ hideAnimation
  <2>1. running # <<>>
    BY <1>3 DEF LayoutInv, AnimationIsRunning
  <2> QED  BY <1>1, <1>3, <2>1, NoAck DEF hideLayoutAnimated
<1>4. CASE layout = "drawer" /\ ~hideAnimation
  <2>1. running' = Append(running, None) /\ toChild' = toChild
    BY <1>4 DEF hideLayoutAnimated
  <2>2. running \in Seq({None})
    BY DEF SessionTypes
  <2> QED  BY <2>1, <2>2, AppendProperties
<1> QED  BY <1>2, <1>3, <1>4 DEF LayoutInv, LayoutTypes

\* The application's and the RPC client's steps say nothing to the Branding Layer.
QuietMove == /\ UNCHANGED <<toHost, toChild, childDisplayId, childVars>>
             /\ running' \in Seq({None})

\* The application and the RPC client make only such steps.
LEMMA HostIsQuiet ==
  ASSUME IInv, SessionFacts, ~destroyed,
         \/ AnimationFinished \/ Resize \/ HostShow \/ HostHide \/ prepareForRpcAccess
         \/ completeRpcAccess \/ restoreOrHide
  PROVE  QuietMove
<1>1. LayoutInv /\ SessionTypes /\ running \in Seq({None})
  BY DEF IInv, SessionFacts, SessionTypes
<1>2. UNCHANGED <<toHost, childDisplayId, childVars>>
  BY DEF AnimationFinished, Resize, HostShow, HostHide, prepareForRpcAccess,
         completeRpcAccess, restoreOrHide, holdVars
<1>3. CASE AnimationFinished
  <2>1. running # <<>> /\ toChild' = toChild \o Ack(Head(running)) /\ running' = Tail(running)
    BY <1>3 DEF AnimationFinished
  <2>2. toChild \o <<>> = toChild
    BY <1>1, ConcatEmptySeq DEF SessionTypes
  <2> QED  BY <1>1, <1>2, <2>1, <2>2, NoAck DEF QuietMove
<1>4. ASSUME UNCHANGED layoutVars \/ (\E to : Show(to, <<>>)) \/ hideLayoutAnimated(None)
      PROVE  QuietMove
  <2>1. toChild' = toChild /\ running' \in Seq({None})
    BY <1>1, <1>4, SilentShow, SilentHide DEF layoutVars
  <2> QED  BY <1>2, <2>1 DEF QuietMove
<1>5. CASE ~AnimationFinished
  BY <1>4, <1>5 DEF Resize, HostShow, HostHide, prepareForRpcAccess, completeRpcAccess,
                    restoreOrHide
<1> QED  BY <1>3, <1>5

\* What says nothing to the Branding Layer leaves its sessions alone.
LEMMA QuietKeeps ==
  ASSUME SessionFacts, QuietMove
  PROVE  SessionFacts'
<1>1. UNCHANGED <<toHost, toChild, childDisplayId, task, pending, activeSession, displayDepth,
                  nextDisplayId, timedOut>> /\ running' \in Seq({None})
  BY DEF QuietMove, childVars
<1>2. SessionTypes' /\ HoldersCounted' /\ WaitersPend'
  BY <1>1 DEF SessionFacts, SessionTypes, HoldersCounted, Holders, WaitersPend, Waits
<1>3. RequestsGrow' /\ AnswersGrow' /\ SessionGrows' /\ SessionIsSomebodys'
  BY <1>1 DEF SessionFacts, RequestsGrow, AnswersGrow, SessionGrows, SessionIsSomebodys, RequestOf
<1> QED  BY <1>2, <1>3 DEF SessionFacts

-----------------------------------------------------------------------------
(* The host's handlers. *)

\* The host opens the session it is asked for, the newest, and acknowledges it.
LEMMA RequestDisplaySession ==
  ASSUME IInv, SessionFacts, NEW id \in Keys, handleRequestDisplay(id)
  PROVE  SessionFacts'
<1>0. SessionTypes /\ WaitersPend /\ HoldersCounted /\ RequestsGrow /\ AnswersGrow /\ SessionGrows
      /\ SessionIsSomebodys
  BY DEF SessionFacts
<1>1. /\ Receives("requestDisplay", id) /\ childDisplayId' = id
      /\ Show(Panel(viewport), <<Message("displayReady", id)>>)
      /\ UNCHANGED <<task, pending, activeSession, displayDepth, nextDisplayId, timedOut>>
  BY DEF handleRequestDisplay, childVars
<1>2. /\ toHost' \in Seq(Requests \cup Releases)
      /\ 1 \in 1..Len(toHost) /\ toHost[1].id = id /\ toHost[1].kind = "requestDisplay"
      /\ Len(toHost') = Len(toHost) - 1
      /\ \A i \in 1..Len(toHost') : i + 1 \in 1..Len(toHost) /\ toHost'[i] = toHost[i + 1]
      /\ \A i \in 1..Len(toHost) : i # 1 => i - 1 \in 1..Len(toHost') /\ toHost'[i - 1] = toHost[i]
  BY <1>0, <1>1, HostReads
<1>3. /\ Len(toHost) \in Nat /\ Len(toChild) \in Nat
      /\ \A i \in 1..Len(toHost) : toHost[i].id \in Nat
      /\ \A i \in 1..Len(toChild) : toChild[i].id \in Nat
      /\ childDisplayId # None => childDisplayId \in Nat
      /\ activeSession # None => activeSession \in Nat
  BY <1>0, QueueFacts
<1>4. id \in Ids /\ id \in Nat /\ id # None
  <2>1. toHost[1] \in Requests \cup Releases
    BY <1>0, <1>2 DEF SessionTypes
  <2> QED  BY <1>2, <2>1, IdsAssumption, NamesAssumption DEF Requests, Releases
<1> DEFINE m == Message("displayReady", id)
<1>5. m \in Readies /\ m.id = id /\ <<m>> \in Seq(Readies)
  BY <1>4 DEF Message, Readies
<1>6. toChild' = toChild \o <<m>> /\ running' \in Seq({None})
  BY <1>0, <1>1, <1>5, ShowPosts DEF IInv
<1> HIDE DEF m
<1>7. /\ toChild' \in Seq(Readies) /\ Len(toChild') = Len(toChild) + 1
      /\ \A i \in 1..Len(toChild) : toChild'[i] = toChild[i]
      /\ toChild'[Len(toChild) + 1] = m
  <2>1. toChild \in Seq(Readies)
    BY <1>0 DEF SessionTypes
  <2> QED  BY <1>5, <1>6, <2>1
<1>8. /\ \A i \in 1..Len(toHost) : RequestOf(toHost[i]) /\ i # 1 => id < toHost[i].id
      /\ \A i \in 1..Len(toHost) : ~RequestOf(toHost[i]) => toHost[i].id < id
      /\ childDisplayId # None => childDisplayId < id
      /\ id < nextDisplayId
    BY <1>0, <1>2 DEF RequestsGrow, RequestOf
<1>9. SessionTypes'
  BY <1>0, <1>1, <1>2, <1>4, <1>6, <1>7 DEF SessionTypes
<1>10. WaitersPend' /\ HoldersCounted'
  BY <1>0, <1>1 DEF WaitersPend, Waits, HoldersCounted, Holders
<1>11. RequestsGrow'
  <2>1. ASSUME NEW i \in 1..Len(toHost'), NEW j \in 1..Len(toHost'),
               RequestOf(toHost'[i]), RequestOf(toHost'[j]), i < j
        PROVE  toHost'[i].id < toHost'[j].id
    <3>1. i + 1 < j + 1
      BY <1>2, <2>1
    <3> QED  BY <1>0, <1>2, <2>1, <3>1 DEF RequestsGrow
  <2>2. ASSUME NEW i \in 1..Len(toHost')
        PROVE  /\ toHost'[i].id < nextDisplayId
               /\ RequestOf(toHost'[i]) =>
                    /\ id < toHost'[i].id
                    /\ \A j \in 1..Len(toHost') :
                         ~RequestOf(toHost'[j]) => toHost'[j].id < toHost'[i].id
    <3>1. i + 1 \in 1..Len(toHost) /\ toHost'[i] = toHost[i + 1] /\ i + 1 # 1
      BY <1>2, <1>3
    <3>2. RequestOf(toHost'[i]) => id < toHost'[i].id
      BY <1>8, <3>1
    <3> QED  BY <1>0, <1>2, <3>1, <3>2 DEF RequestsGrow
  <2> QED  BY <1>1, <2>1, <2>2 DEF RequestsGrow, RequestOf
<1>12. AnswersGrow'
  <2>1. \A i \in 1..Len(toChild) : toChild[i].id < id
    BY <1>0, <1>3, <1>4, <1>8 DEF AnswersGrow
  <2>2. activeSession # None => activeSession < id
    BY <1>0, <1>3, <1>4, <1>8 DEF SessionGrows
  <2>3. \A i \in 1..Len(toChild') : \/ i \in 1..Len(toChild) /\ toChild'[i] = toChild[i]
                                    \/ i = Len(toChild) + 1 /\ toChild'[i].id = id
    BY <1>3, <1>5, <1>7
  <2>4. ASSUME NEW i \in 1..Len(toChild'), NEW j \in 1..Len(toChild'), i < j
        PROVE  toChild'[i].id < toChild'[j].id
    BY <1>0, <1>3, <2>1, <2>3, <2>4 DEF AnswersGrow
  <2>5. ASSUME NEW i \in 1..Len(toChild')
        PROVE  /\ toChild'[i].id <= id
               /\ activeSession # None => activeSession < toChild'[i].id
               /\ \A j \in 1..Len(toHost') :
                    ~RequestOf(toHost'[j]) => toHost'[j].id < toChild'[i].id
    <3>1. CASE i \in 1..Len(toChild) /\ toChild'[i] = toChild[i]
      <4>1. toChild'[i].id <= id
        BY <1>3, <1>4, <2>1, <3>1
      <4>2. activeSession # None => activeSession < toChild'[i].id
        BY <1>0, <3>1 DEF AnswersGrow
      <4>3. \A j \in 1..Len(toHost) : ~RequestOf(toHost[j]) => toHost[j].id < toChild'[i].id
        BY <1>0, <3>1 DEF AnswersGrow
      <4> QED  BY <1>2, <4>1, <4>2, <4>3
    <3>2. CASE toChild'[i].id = id
      <4>1. \A j \in 1..Len(toHost') : ~RequestOf(toHost'[j]) => toHost'[j].id < id
        BY <1>2, <1>8
      <4> QED  BY <1>4, <2>2, <3>2, <4>1
    <3> QED  BY <2>3, <3>1, <3>2
  <2> QED  BY <1>1, <1>4, <2>4, <2>5 DEF AnswersGrow, RequestOf
<1>13. SessionGrows'
  <2>1. activeSession # None => activeSession <= id
    BY <1>0, <1>3, <1>4, <1>8 DEF SessionGrows
  <2>2. activeSession # None =>
          \A j \in 1..Len(toHost') : ~RequestOf(toHost'[j]) => toHost'[j].id < activeSession
    BY <1>0, <1>2 DEF SessionGrows
  <2> QED  BY <1>1, <1>4, <1>8, <2>1, <2>2 DEF SessionGrows, RequestOf
<1>14. SessionIsSomebodys'
  <2> SUFFICES ASSUME timedOut = {}
               PROVE  /\ \E i \in 1..Len(toChild') : toChild'[i].id = id
                      /\ \A i \in 1..Len(toChild') : toChild'[i].id \in pending
                      /\ \A i \in 1..Len(toHost') :
                           RequestOf(toHost'[i]) => toHost'[i].id \in pending
    BY <1>1 DEF SessionIsSomebodys, RequestOf
  <2>1. Len(toChild) + 1 \in 1..Len(toChild') /\ toChild'[Len(toChild) + 1].id = id
    BY <1>3, <1>5, <1>7
  <2>2. id \in pending
    BY <1>0, <1>2 DEF SessionIsSomebodys, RequestOf
  <2>3. \A i \in 1..Len(toHost') : RequestOf(toHost'[i]) => toHost'[i].id \in pending
    BY <1>0, <1>2 DEF SessionIsSomebodys
  <2>4. ASSUME NEW i \in 1..Len(toChild')
        PROVE  toChild'[i].id \in pending
    <3>1. \/ i \in 1..Len(toChild) /\ toChild'[i] = toChild[i]
          \/ toChild'[i].id = id
      BY <1>3, <1>5, <1>7
    <3> QED  BY <1>0, <2>2, <3>1 DEF SessionIsSomebodys
  <2> QED  BY <2>1, <2>3, <2>4
<1> QED  BY <1>9, <1>10, <1>11, <1>12, <1>13, <1>14 DEF SessionFacts

\* A release the host still acts on finds nobody who was answered after it.
LEMMA ReleaseDisplaySession ==
  ASSUME IInv, SessionFacts, NEW id \in Keys, handleReleaseDisplay(id)
  PROVE  SessionFacts'
<1>0. SessionTypes /\ WaitersPend /\ HoldersCounted /\ RequestsGrow /\ AnswersGrow /\ SessionGrows
      /\ SessionIsSomebodys
  BY DEF SessionFacts
<1>1. /\ Receives("releaseDisplay", id)
      /\ UNCHANGED <<task, pending, activeSession, displayDepth, nextDisplayId, timedOut>>
      /\ childDisplayId' = IF childDisplayId # id THEN childDisplayId ELSE None
  BY DEF handleReleaseDisplay, childVars
<1>2. /\ toHost' \in Seq(Requests \cup Releases)
      /\ 1 \in 1..Len(toHost) /\ toHost[1].id = id /\ toHost[1].kind = "releaseDisplay"
      /\ Len(toHost') = Len(toHost) - 1
      /\ \A i \in 1..Len(toHost') : i + 1 \in 1..Len(toHost) /\ toHost'[i] = toHost[i + 1]
      /\ \A i \in 1..Len(toHost) : i # 1 => i - 1 \in 1..Len(toHost') /\ toHost'[i - 1] = toHost[i]
  BY <1>0, <1>1, HostReads
<1>3. /\ Len(toHost) \in Nat /\ Len(toChild) \in Nat
      /\ \A i \in 1..Len(toHost) : toHost[i].id \in Nat
      /\ \A i \in 1..Len(toChild) : toChild[i].id \in Nat
      /\ childDisplayId # None => childDisplayId \in Nat
      /\ activeSession # None => activeSession \in Nat
  BY <1>0, QueueFacts
<1>4. toChild' = toChild /\ running' \in Seq({None})
  <2>1. LayoutInv
    BY DEF IInv
  <2>2. UNCHANGED layoutVars \/ Show("inline", <<>>) \/ hideLayoutAnimated(None)
    BY DEF handleReleaseDisplay
  <2> QED  BY <1>0, <2>1, <2>2, SilentShow, SilentHide DEF layoutVars, SessionTypes
<1>5. ~RequestOf(toHost[1])
  BY <1>2 DEF RequestOf
<1>6. childDisplayId' = None /\ childDisplayId # None => activeSession = None /\ toChild = <<>>
  <2> SUFFICES ASSUME childDisplayId' = None, childDisplayId # None
               PROVE  activeSession = None /\ toChild = <<>>
    OBVIOUS
  <2>1. childDisplayId = id
    BY <1>1
  <2>2. activeSession = None
    BY <1>0, <1>2, <1>3, <1>5, <2>1 DEF SessionGrows
  <2>3. \A i \in 1..Len(toChild) : FALSE
    BY <1>0, <1>2, <1>3, <1>5, <2>1 DEF AnswersGrow
  <2>4. Len(toChild) = 0
    BY <1>3, <2>3
  <2> QED  BY <1>0, <2>2, <2>4 DEF SessionTypes
<1>7. SessionTypes'
  BY <1>0, <1>1, <1>2, <1>4 DEF SessionTypes
<1>8. WaitersPend' /\ HoldersCounted'
  BY <1>0, <1>1 DEF WaitersPend, Waits, HoldersCounted, Holders
<1>9. RequestsGrow'
  <2>1. ASSUME NEW i \in 1..Len(toHost'), NEW j \in 1..Len(toHost'),
               RequestOf(toHost'[i]), RequestOf(toHost'[j]), i < j
        PROVE  toHost'[i].id < toHost'[j].id
    <3>1. i + 1 < j + 1
      BY <1>2, <2>1
    <3> QED  BY <1>0, <1>2, <2>1, <3>1 DEF RequestsGrow
  <2>2. ASSUME NEW i \in 1..Len(toHost')
        PROVE  /\ toHost'[i].id < nextDisplayId
               /\ RequestOf(toHost'[i]) =>
                    /\ childDisplayId' # None => childDisplayId' < toHost'[i].id
                    /\ \A j \in 1..Len(toHost') :
                         ~RequestOf(toHost'[j]) => toHost'[j].id < toHost'[i].id
    BY <1>0, <1>1, <1>2 DEF RequestsGrow
  <2> QED  BY <1>1, <2>1, <2>2 DEF RequestsGrow, RequestOf
<1>10. AnswersGrow'
  <2>1. CASE childDisplayId' = childDisplayId
    <3>1. ASSUME NEW i \in 1..Len(toChild)
          PROVE  \A j \in 1..Len(toHost') : ~RequestOf(toHost'[j]) => toHost'[j].id < toChild[i].id
      BY <1>0, <1>2 DEF AnswersGrow
    <3> QED  BY <1>0, <1>1, <1>4, <2>1, <3>1 DEF AnswersGrow, RequestOf
  <2>2. CASE childDisplayId' # childDisplayId
    <3>1. toChild' = <<>>
      BY <1>1, <1>4, <1>6, <2>2
    <3> QED  BY <3>1 DEF AnswersGrow
  <2> QED  BY <2>1, <2>2
<1>11. SessionGrows'
  <2>1. activeSession # None =>
          \A j \in 1..Len(toHost') : ~RequestOf(toHost'[j]) => toHost'[j].id < activeSession
    BY <1>0, <1>2 DEF SessionGrows
  <2> QED  BY <1>0, <1>1, <1>6, <2>1 DEF SessionGrows, RequestOf
<1>12. SessionIsSomebodys'
  <2> SUFFICES ASSUME timedOut = {}
               PROVE  /\ childDisplayId' # None =>
                           \/ activeSession = childDisplayId'
                           \/ \E i \in 1..Len(toChild) : toChild[i].id = childDisplayId'
                           \/ \E i \in 1..Len(toHost') :
                                ~RequestOf(toHost'[i]) /\ toHost'[i].id = childDisplayId'
                      /\ \A i \in 1..Len(toChild) : toChild[i].id \in pending
                      /\ \A i \in 1..Len(toHost') :
                           RequestOf(toHost'[i]) => toHost'[i].id \in pending
    BY <1>1, <1>4 DEF SessionIsSomebodys, RequestOf
  <2>1. ASSUME childDisplayId' # None,
               NEW i \in 1..Len(toHost), ~RequestOf(toHost[i]), toHost[i].id = childDisplayId'
        PROVE  \E j \in 1..Len(toHost') :
                 ~RequestOf(toHost'[j]) /\ toHost'[j].id = childDisplayId'
    <3>1. i # 1
      BY <1>1, <1>2, <2>1
    <3> QED  BY <1>2, <2>1, <3>1
  <2>2. childDisplayId' # None => childDisplayId' = childDisplayId
    BY <1>1
  <2> QED  BY <1>0, <1>2, <2>1, <2>2 DEF SessionIsSomebodys
<1> QED  BY <1>7, <1>8, <1>9, <1>10, <1>11, <1>12 DEF SessionFacts

-----------------------------------------------------------------------------
(* The callers. *)

\* A request is newer than everything under way, and so is nothing that follows it.
LEMMA EmitRequest ==
  ASSUME SessionFacts, nextDisplayId \in Ids, Emit("requestDisplay", nextDisplayId)
  PROVE  LET n == nextDisplayId
         IN /\ toHost' \in Seq(Requests \cup Releases) /\ Len(toHost') = Len(toHost) + 1
            /\ \A i \in 1..Len(toHost) : toHost'[i] = toHost[i]
            /\ toHost'[Len(toHost) + 1].id = n /\ RequestOf(toHost'[Len(toHost) + 1])
<1> DEFINE m == Message("requestDisplay", nextDisplayId)
<1>1. m \in Requests \cup Releases /\ m.id = nextDisplayId /\ m.kind = "requestDisplay"
  BY DEF Message, Requests
<1>2. toHost' = Append(toHost, m) /\ toHost \in Seq(Requests \cup Releases)
  BY DEF Emit, SessionFacts, SessionTypes
<1> HIDE DEF m
<1> QED  BY <1>1, <1>2 DEF RequestOf

\* A release goes behind everything that was sent before it.
LEMMA EmitRelease ==
  ASSUME SessionFacts, activeSession # None, Emit("releaseDisplay", activeSession)
  PROVE  LET n == activeSession
         IN /\ toHost' \in Seq(Requests \cup Releases) /\ Len(toHost') = Len(toHost) + 1
            /\ \A i \in 1..Len(toHost) : toHost'[i] = toHost[i]
            /\ toHost'[Len(toHost) + 1].id = n /\ ~RequestOf(toHost'[Len(toHost) + 1])
<1> DEFINE m == Message("releaseDisplay", activeSession)
<1>0. activeSession \in Ids
  BY DEF SessionFacts, SessionTypes
<1>1. m \in Requests \cup Releases /\ m.id = activeSession /\ m.kind = "releaseDisplay"
  BY <1>0 DEF Message, Releases
<1>2. toHost' = Append(toHost, m) /\ toHost \in Seq(Requests \cup Releases)
  BY DEF Emit, SessionFacts, SessionTypes
<1> HIDE DEF m
<1> QED  BY <1>1, <1>2 DEF RequestOf

\* One caller more, or one less, holds the session.
LEMMA HoldersMove ==
  ASSUME HoldersCounted, NEW t \in Tasks,
         \A u \in Tasks \ {t} : task'[u].state = "held" <=> task[u].state = "held"
  PROVE  /\ task[t].state # "held" /\ task'[t].state = "held" =>
              IsFiniteSet(Holders') /\ Cardinality(Holders') = Cardinality(Holders) + 1
                /\ Holders' # {}
         /\ task[t].state = "held" /\ task'[t].state # "held" =>
              IsFiniteSet(Holders') /\ Cardinality(Holders') = Cardinality(Holders) - 1
         /\ (task[t].state = "held" <=> task'[t].state = "held") => Holders' = Holders
         /\ Cardinality(Holders) \in Nat
         /\ Holders' # {} /\ IsFiniteSet(Holders') => Cardinality(Holders') \in Nat \ {0}
         /\ Holders # {} => Cardinality(Holders) \in Nat \ {0}
<1>1. IsFiniteSet(Holders)
  BY DEF HoldersCounted
<1>2. CASE task[t].state # "held" /\ task'[t].state = "held"
  <2>1. Holders' = Holders \cup {t} /\ t \notin Holders
    BY <1>2 DEF Holders
  <2> QED  BY <1>1, <1>2, <2>1, FS_AddElement, FS_CardinalityType, FS_EmptySet
<1>3. CASE task[t].state = "held" /\ task'[t].state # "held"
  <2>1. Holders' = Holders \ {t} /\ t \in Holders
    BY <1>3 DEF Holders
  <2> QED  BY <1>1, <1>3, <2>1, FS_RemoveElement, FS_CardinalityType, FS_EmptySet
<1>4. CASE task[t].state = "held" <=> task'[t].state = "held"
  <2>1. Holders' = Holders
    BY <1>4 DEF Holders
  <2> QED  BY <1>1, <1>4, <2>1, FS_CardinalityType, FS_EmptySet
<1> QED  BY <1>2, <1>3, <1>4

\* A caller joins the session there is, or asks for a new one.
LEMMA RequestSession ==
  ASSUME IInv, SessionFacts, NEW t \in Tasks, requestDisplay(t)
  PROVE  SessionFacts'
<1>0. SessionTypes /\ WaitersPend /\ HoldersCounted /\ RequestsGrow /\ AnswersGrow /\ SessionGrows
      /\ SessionIsSomebodys
  BY DEF SessionFacts
<1>1. /\ task[t].state = "idle"
      /\ UNCHANGED <<activeSession, timedOut, toChild, childDisplayId, running>>
  BY DEF requestDisplay, hostVars
<1>2. CASE activeSession # None
  <2>1. /\ displayDepth' = displayDepth + 1 /\ UNCHANGED <<pending, nextDisplayId, toHost>>
        /\ task' = [task EXCEPT ![t] = [state |-> "held", id |-> activeSession]]
    BY <1>2 DEF requestDisplay, Set
  <2>2. /\ \A u \in Tasks \ {t} : task'[u] = task[u]
        /\ task'[t].state = "held" /\ task'[t].id = activeSession
        /\ task' \in [Tasks -> [state : {"idle", "waiting", "held"}, id : Ids \cup {None}]]
    BY <1>0, <2>1 DEF SessionTypes
  <2>3. SessionTypes'
    BY <1>0, <1>1, <2>1, <2>2 DEF SessionTypes
  <2>4. HoldersCounted'
    <3>1. /\ IsFiniteSet(Holders') /\ Cardinality(Holders') = Cardinality(Holders) + 1
          /\ Holders' # {}
      BY <1>0, <1>1, <2>2, HoldersMove
    <3> QED  BY <1>0, <1>1, <1>2, <2>1, <3>1 DEF HoldersCounted
  <2>5. WaitersPend'
    <3>1. \A u \in Tasks : Waits(u)' <=> Waits(u)
      BY <1>1, <2>2 DEF Waits
    <3>2. \A u \in Tasks : Waits(u) => task'[u] = task[u]
      BY <1>1, <2>2 DEF Waits
    <3> QED  BY <1>0, <2>1, <3>1, <3>2 DEF WaitersPend
  <2>6. RequestsGrow' /\ AnswersGrow' /\ SessionGrows' /\ SessionIsSomebodys'
    BY <1>0, <1>1, <2>1
       DEF RequestsGrow, AnswersGrow, SessionGrows, SessionIsSomebodys, RequestOf
  <2> QED  BY <2>3, <2>4, <2>5, <2>6 DEF SessionFacts
<1>3. CASE activeSession = None
  <2> DEFINE n == nextDisplayId
  <2>1. /\ n \in Ids /\ nextDisplayId' = n + 1 /\ pending' = pending \cup {n}
        /\ task' = [task EXCEPT ![t] = [state |-> "waiting", id |-> n]]
        /\ displayDepth' = displayDepth /\ Emit("requestDisplay", n)
    BY <1>3 DEF requestDisplay, Set
  <2>2. /\ \A u \in Tasks \ {t} : task'[u] = task[u]
        /\ task'[t].state = "waiting" /\ task'[t].id = n
        /\ task' \in [Tasks -> [state : {"idle", "waiting", "held"}, id : Ids \cup {None}]]
    BY <1>0, <2>1 DEF SessionTypes
  <2>3. /\ toHost' \in Seq(Requests \cup Releases) /\ Len(toHost') = Len(toHost) + 1
        /\ \A i \in 1..Len(toHost) : toHost'[i] = toHost[i]
        /\ toHost'[Len(toHost) + 1].id = n /\ RequestOf(toHost'[Len(toHost) + 1])
    BY <2>1, EmitRequest
  <2>4. /\ Len(toHost) \in Nat /\ Len(toChild) \in Nat /\ n \in Nat
        /\ \A i \in 1..Len(toHost) : toHost[i].id \in Nat
        /\ childDisplayId # None => childDisplayId \in Nat
        /\ \A i \in 1..Len(toHost') : \/ i \in 1..Len(toHost) /\ toHost'[i] = toHost[i]
                                      \/ i = Len(toHost) + 1
    BY <1>0, <2>1, <2>3, QueueFacts, IdsAssumption
  <2>5. n \notin pending
    BY <1>0, <2>4 DEF WaitersPend
  <2> HIDE DEF n
  <2>6. SessionTypes'
    BY <1>0, <1>1, <2>1, <2>2, <2>3, <2>4 DEF SessionTypes
  <2>7. HoldersCounted'
    <3>1. Holders' = Holders
      BY <1>0, <1>1, <2>2, HoldersMove
    <3> QED  BY <1>0, <1>1, <2>1, <3>1 DEF HoldersCounted
  <2>8. WaitersPend'
    <3>1. \A u \in Tasks : Waits(u)' <=> Waits(u) \/ u = t
      BY <1>1, <2>2 DEF Waits
    <3>2. \A u \in Tasks : Waits(u) => u # t
      BY <1>1 DEF Waits
    <3>3. \A u \in Tasks : Waits(u)' => task'[u].id \in pending'
      BY <1>0, <2>1, <2>2, <3>1, <3>2 DEF WaitersPend
    <3>4. ASSUME NEW u \in Tasks, NEW v \in Tasks, Waits(u)', Waits(v)', task'[u].id = task'[v].id
          PROVE  u = v
      BY <1>0, <2>2, <2>5, <3>1, <3>2, <3>4 DEF WaitersPend
    <3>5. ASSUME NEW id \in pending'
          PROVE  /\ id \in Ids /\ id < nextDisplayId'
                 /\ \E u \in Tasks : Waits(u)' /\ task'[u].id = id
      <4>1. CASE id \in pending
        <5>1. id \in Ids /\ id < n /\ \E u \in Tasks : Waits(u) /\ task[u].id = id
          BY <1>0, <4>1 DEF WaitersPend, n
        <5>2. id < n + 1
          BY <2>4, <5>1, IdsAssumption
        <5>3. \A u \in Tasks : Waits(u) => task'[u] = task[u]
          BY <2>2, <3>2
        <5> QED  BY <2>1, <3>1, <5>1, <5>2, <5>3
      <4>2. CASE id = n
        BY <2>1, <2>2, <2>4, <3>1, <4>2
      <4> QED  BY <2>1, <3>5, <4>1, <4>2
    <3> QED  BY <3>3, <3>4, <3>5 DEF WaitersPend
  <2>9. /\ \A i \in 1..Len(toHost) : toHost[i].id < n
        /\ childDisplayId # None => childDisplayId < n
    BY <1>0 DEF RequestsGrow, SessionGrows, n
  <2>10. RequestsGrow'
    <3>1. ASSUME NEW i \in 1..Len(toHost'), NEW j \in 1..Len(toHost'),
                 RequestOf(toHost'[i]), RequestOf(toHost'[j]), i < j
          PROVE  toHost'[i].id < toHost'[j].id
      <4>1. i \in 1..Len(toHost) /\ toHost'[i] = toHost[i]
        BY <2>3, <2>4, <3>1
      <4>2. CASE j \in 1..Len(toHost) /\ toHost'[j] = toHost[j]
        BY <1>0, <3>1, <4>1, <4>2 DEF RequestsGrow
      <4>3. CASE j = Len(toHost) + 1
        BY <2>3, <2>9, <4>1, <4>3
      <4> QED  BY <2>4, <4>2, <4>3
    <3>2. ASSUME NEW i \in 1..Len(toHost')
          PROVE  /\ toHost'[i].id < n + 1
                 /\ RequestOf(toHost'[i]) =>
                      /\ childDisplayId # None => childDisplayId < toHost'[i].id
                      /\ \A j \in 1..Len(toHost') :
                           ~RequestOf(toHost'[j]) => toHost'[j].id < toHost'[i].id
      <4>0. \A j \in 1..Len(toHost') : ~RequestOf(toHost'[j]) =>
              j \in 1..Len(toHost) /\ toHost'[j] = toHost[j]
        BY <2>3, <2>4
      <4>1. CASE i \in 1..Len(toHost) /\ toHost'[i] = toHost[i]
        <5>1. toHost'[i].id < n + 1
          BY <2>4, <2>9, <4>1
        <5> QED  BY <1>0, <4>0, <4>1, <5>1 DEF RequestsGrow
      <4>2. CASE i = Len(toHost) + 1
        BY <2>3, <2>4, <2>9, <4>0, <4>2
      <4> QED  BY <2>4, <4>1, <4>2
    <3> QED  BY <1>1, <2>1, <3>1, <3>2 DEF RequestsGrow, RequestOf
  <2>11. AnswersGrow'
    <3>1. \A i \in 1..Len(toChild) : \A j \in 1..Len(toHost') :
            ~RequestOf(toHost'[j]) => toHost'[j].id < toChild[i].id
      BY <1>0, <2>3, <2>4 DEF AnswersGrow
    <3> QED  BY <1>0, <1>1, <3>1 DEF AnswersGrow, RequestOf
  <2>12. SessionGrows'
    BY <1>0, <1>1, <1>3, <2>1, <2>4, <2>9 DEF SessionGrows
  <2>13. SessionIsSomebodys'
    <3> SUFFICES ASSUME timedOut = {}
                 PROVE  /\ childDisplayId # None =>
                             \/ activeSession = childDisplayId
                             \/ \E i \in 1..Len(toChild) : toChild[i].id = childDisplayId
                             \/ \E i \in 1..Len(toHost') :
                                  ~RequestOf(toHost'[i]) /\ toHost'[i].id = childDisplayId
                        /\ \A i \in 1..Len(toChild) : toChild[i].id \in pending'
                        /\ \A i \in 1..Len(toHost') :
                             RequestOf(toHost'[i]) => toHost'[i].id \in pending'
      BY <1>1 DEF SessionIsSomebodys, RequestOf
    <3>1. \A i \in 1..Len(toHost) : i \in 1..Len(toHost') /\ toHost'[i] = toHost[i]
      BY <2>3, <2>4
    <3>2. \A i \in 1..Len(toHost') : RequestOf(toHost'[i]) => toHost'[i].id \in pending'
      BY <1>0, <2>1, <2>3, <2>4 DEF SessionIsSomebodys
    <3> QED  BY <1>0, <2>1, <3>1, <3>2 DEF SessionIsSomebodys
  <2> QED  BY <2>6, <2>7, <2>8, <2>10, <2>11, <2>12, <2>13 DEF SessionFacts
<1> QED  BY <1>2, <1>3

\* The caller that waits for the answer to id holds the session from here on.
LEMMA ReadySession ==
  ASSUME SessionFacts, NEW id \in Keys, handleDisplayReady(id)
  PROVE  SessionFacts'
<1>0. SessionTypes /\ WaitersPend /\ HoldersCounted /\ RequestsGrow /\ AnswersGrow /\ SessionGrows
      /\ SessionIsSomebodys
  BY DEF SessionFacts
<1>1. /\ Answered("displayReady", id)
      /\ UNCHANGED <<toHost, childDisplayId, running, nextDisplayId, timedOut>>
  BY DEF handleDisplayReady, hostVars
<1>2. /\ toChild' \in Seq(Readies)
      /\ 1 \in 1..Len(toChild) /\ toChild[1].id = id
      /\ Len(toChild') = Len(toChild) - 1
      /\ \A i \in 1..Len(toChild') : i + 1 \in 1..Len(toChild) /\ toChild'[i] = toChild[i + 1]
      /\ \A i \in 1..Len(toChild) : i # 1 => i - 1 \in 1..Len(toChild') /\ toChild'[i - 1] = toChild[i]
  BY <1>0, <1>1, ChildReads
<1>3. /\ Len(toHost) \in Nat /\ Len(toChild) \in Nat
      /\ \A i \in 1..Len(toHost) : toHost[i].id \in Nat
      /\ \A i \in 1..Len(toChild) : toChild[i].id \in Nat
      /\ childDisplayId # None => childDisplayId \in Nat
      /\ activeSession # None => activeSession \in Nat
  BY <1>0, QueueFacts
<1>4. id \in Nat /\ id \in Ids /\ id # None
  <2>1. toChild[1] \in Readies
    BY <1>0, <1>2 DEF SessionTypes
  <2> QED  BY <1>2, <2>1, IdsAssumption, NamesAssumption DEF Readies
\* What is answered next is newer, and so is what the host has yet to be asked for.
<1>5. /\ childDisplayId # None /\ id <= childDisplayId
      /\ activeSession # None => activeSession < id
      /\ \A j \in 1..Len(toHost) : ~RequestOf(toHost[j]) => toHost[j].id < id
  BY <1>0, <1>2 DEF AnswersGrow
<1>6. \A i \in 1..Len(toChild) : i # 1 => id < toChild[i].id
  BY <1>0, <1>2, <1>3 DEF AnswersGrow
<1>7. \A i \in 1..Len(toHost) : RequestOf(toHost[i]) => id < toHost[i].id
  <2>1. \A i \in 1..Len(toHost) : RequestOf(toHost[i]) => childDisplayId < toHost[i].id
    BY <1>0, <1>5 DEF RequestsGrow
  <2> QED  BY <1>3, <1>4, <1>5, <2>1
<1>8. /\ \A i \in 1..Len(toChild') : id < toChild'[i].id /\ toChild'[i].id <= childDisplayId
      /\ \A i \in 1..Len(toChild') : activeSession # None => activeSession < toChild'[i].id
      /\ \A i \in 1..Len(toChild'), j \in 1..Len(toHost) :
           ~RequestOf(toHost[j]) => toHost[j].id < toChild'[i].id
  <2>1. \A i \in 1..Len(toChild') : i + 1 \in 1..Len(toChild) /\ i + 1 # 1
                                      /\ toChild'[i] = toChild[i + 1]
    BY <1>2, <1>3
  <2> QED  BY <1>0, <1>6, <2>1 DEF AnswersGrow
<1>9. \A i, j \in 1..Len(toChild') : i < j => toChild'[i].id < toChild'[j].id
  <2>1. ASSUME NEW i \in 1..Len(toChild'), NEW j \in 1..Len(toChild'), i < j
        PROVE  toChild'[i].id < toChild'[j].id
    <3>1. i + 1 < j + 1 /\ i + 1 \in 1..Len(toChild) /\ j + 1 \in 1..Len(toChild)
      BY <1>2, <2>1
    <3> QED  BY <1>0, <1>2, <3>1 DEF AnswersGrow
  <2> QED  BY <2>1
<1>10. CASE id \notin pending
  <2>1. UNCHANGED <<pending, task, activeSession, displayDepth>>
    BY <1>10 DEF handleDisplayReady
  <2>2. SessionTypes' /\ HoldersCounted'
    BY <1>0, <1>1, <1>2, <2>1 DEF SessionTypes, HoldersCounted, Holders
  <2>3. WaitersPend'
    BY <1>0, <1>1, <2>1 DEF WaitersPend, Waits
  <2>4. RequestsGrow' /\ SessionGrows'
    BY <1>0, <1>1, <2>1 DEF RequestsGrow, RequestOf, SessionGrows
  <2>5. AnswersGrow'
    BY <1>1, <1>5, <1>8, <1>9, <2>1 DEF AnswersGrow, RequestOf
  <2>6. timedOut # {}
    BY <1>0, <1>2, <1>10 DEF SessionIsSomebodys
  <2> QED  BY <1>1, <2>2, <2>3, <2>4, <2>5, <2>6 DEF SessionFacts, SessionIsSomebodys
<1>11. CASE id \in pending
  <2>1. PICK t \in Tasks : Waits(t) /\ task[t].id = id
    BY <1>0, <1>11 DEF WaitersPend
  <2>2. \A u \in Tasks \ {t} : ~(Waits(u) /\ task[u].id = id)
    BY <1>0, <2>1 DEF WaitersPend
  <2>3. /\ pending' = pending \ {id} /\ activeSession' = id
        /\ task' = [u \in Tasks |-> IF u \in WaiterOf(id, "waiting")
                                    THEN [state |-> "held", id |-> id] ELSE task[u]]
        /\ displayDepth' = IF activeSession # None THEN displayDepth + 1 ELSE 1
    BY <1>11 DEF handleDisplayReady
  <2>4. /\ task[t].state = "waiting" /\ task'[t].state = "held" /\ task'[t].id = id
        /\ \A u \in Tasks \ {t} : task'[u] = task[u]
    <3>1. task[t] \in [state : {"idle", "waiting", "held"}, id : Ids \cup {None}]
      BY <1>0 DEF SessionTypes
    <3>2. task[t] = [state |-> "waiting", id |-> id]
      <4>1. PICK s, k : task[t] = [state |-> s, id |-> k]
        BY <3>1
      <4>2. s = "waiting" /\ k = id
        BY <2>1, <4>1 DEF Waits
      <4> QED  BY <4>1, <4>2
    <3>3. \A u \in Tasks \ {t} : u \notin WaiterOf(id, "waiting")
      <4>1. ASSUME NEW u \in Tasks, u \in WaiterOf(id, "waiting")
            PROVE  task[u].state = "waiting" /\ task[u].id = id
        <5>1. task[u] = [state |-> "waiting", id |-> id]
          BY <4>1 DEF WaiterOf
        <5> QED  BY <5>1
      <4> QED  BY <2>2, <4>1 DEF Waits
    <3>4. t \in WaiterOf(id, "waiting")
      BY <3>2 DEF WaiterOf
    <3> QED  BY <2>1, <2>3, <3>3, <3>4 DEF Waits
  <2>5. task' \in [Tasks -> [state : {"idle", "waiting", "held"}, id : Ids \cup {None}]]
    <3>1. task \in [Tasks -> [state : {"idle", "waiting", "held"}, id : Ids \cup {None}]]
      BY <1>0 DEF SessionTypes
    <3> QED  BY <1>4, <2>3, <3>1
  <2>6. SessionTypes'
    BY <1>0, <1>1, <1>2, <1>4, <2>3, <2>5 DEF SessionTypes
  <2>7. HoldersCounted'
    <3>1. /\ IsFiniteSet(Holders') /\ Cardinality(Holders') = Cardinality(Holders) + 1
          /\ Holders' # {}
      BY <1>0, <2>4, HoldersMove
    <3>2. displayDepth' = Cardinality(Holders) + 1
      <4>1. CASE activeSession # None
        BY <1>0, <2>3, <4>1 DEF HoldersCounted
      <4>2. CASE activeSession = None
        <5>1. Cardinality(Holders) = 0
          BY <1>0, <4>2, FS_EmptySet DEF HoldersCounted
        <5> QED  BY <2>3, <4>2, <5>1
      <4> QED  BY <4>1, <4>2
    <3> QED  BY <1>4, <2>3, <3>1, <3>2 DEF HoldersCounted
  <2>8. WaitersPend'
    <3>1. \A u \in Tasks : Waits(u)' <=> Waits(u) /\ u # t
      BY <2>4 DEF Waits
    <3>2. \A u \in Tasks : Waits(u) /\ u # t => task[u].id \in pending /\ task[u].id # id
      BY <1>0, <2>2 DEF WaitersPend
    <3>3. \A u \in Tasks : Waits(u)' => task'[u].id \in pending'
      BY <2>3, <2>4, <3>1, <3>2
    <3>4. ASSUME NEW u \in Tasks, NEW v \in Tasks, Waits(u)', Waits(v)', task'[u].id = task'[v].id
          PROVE  u = v
      BY <1>0, <2>4, <3>1, <3>4 DEF WaitersPend
    <3>5. ASSUME NEW k \in pending'
          PROVE  /\ k \in Ids /\ k < nextDisplayId'
                 /\ \E u \in Tasks : Waits(u)' /\ task'[u].id = k
      <4>1. k \in pending /\ k # id
        BY <2>3
      <4>2. k \in Ids /\ k < nextDisplayId /\ \E u \in Tasks : Waits(u) /\ task[u].id = k
        BY <1>0, <4>1 DEF WaitersPend
      <4> QED  BY <1>1, <2>1, <2>4, <3>1, <4>1, <4>2
    <3> QED  BY <3>3, <3>4, <3>5 DEF WaitersPend
  <2>9. RequestsGrow'
    BY <1>0, <1>1 DEF RequestsGrow, RequestOf
  <2>10. AnswersGrow'
    BY <1>1, <1>5, <1>8, <1>9, <2>3 DEF AnswersGrow, RequestOf
  <2>11. SessionGrows'
    BY <1>0, <1>1, <1>5, <2>3 DEF SessionGrows, RequestOf
  <2>12. SessionIsSomebodys'
    <3> SUFFICES ASSUME timedOut = {}
                 PROVE  /\ childDisplayId # None =>
                             \/ id = childDisplayId
                             \/ \E i \in 1..Len(toChild') : toChild'[i].id = childDisplayId
                             \/ \E i \in 1..Len(toHost) :
                                  ~RequestOf(toHost[i]) /\ toHost[i].id = childDisplayId
                        /\ \A i \in 1..Len(toChild') : toChild'[i].id \in pending'
                        /\ \A i \in 1..Len(toHost) :
                             RequestOf(toHost[i]) => toHost[i].id \in pending'
      BY <1>1, <2>3 DEF SessionIsSomebodys, RequestOf
    <3>1. /\ \/ activeSession = childDisplayId
             \/ \E i \in 1..Len(toChild) : toChild[i].id = childDisplayId
             \/ \E i \in 1..Len(toHost) : ~RequestOf(toHost[i]) /\ toHost[i].id = childDisplayId
          /\ \A i \in 1..Len(toChild) : toChild[i].id \in pending
          /\ \A i \in 1..Len(toHost) : RequestOf(toHost[i]) => toHost[i].id \in pending
      BY <1>0, <1>5 DEF SessionIsSomebodys
    <3>2. activeSession # childDisplayId
      BY <1>3, <1>4, <1>5
    <3>3. ASSUME NEW i \in 1..Len(toChild), toChild[i].id = childDisplayId, id # childDisplayId
          PROVE  \E j \in 1..Len(toChild') : toChild'[j].id = childDisplayId
      <4>1. i # 1
        BY <1>2, <3>3
      <4> QED  BY <1>2, <3>3, <4>1
    <3>4. \A i \in 1..Len(toChild') : toChild'[i].id \in pending'
      BY <1>2, <1>4, <1>8, <2>3, <3>1
    <3>5. \A i \in 1..Len(toHost) : RequestOf(toHost[i]) => toHost[i].id \in pending'
      BY <1>4, <1>7, <2>3, <3>1
    <3> QED  BY <3>1, <3>2, <3>3, <3>4, <3>5
  <2> QED  BY <2>6, <2>7, <2>8, <2>9, <2>10, <2>11, <2>12 DEF SessionFacts
<1> QED  BY <1>10, <1>11

\* A caller that gives up is no longer pending; nothing else is said of it.
LEMMA TimeoutSession ==
  ASSUME SessionFacts, NEW t \in Tasks, DisplayTimeout(t)
  PROVE  SessionFacts'
<1>0. SessionTypes /\ WaitersPend /\ HoldersCounted /\ RequestsGrow /\ AnswersGrow /\ SessionGrows
  BY DEF SessionFacts
<1> DEFINE id == task[t].id
<1>1. /\ task[t].state = "waiting" /\ pending' = pending \ {id} /\ timedOut' # {}
      /\ task' = [task EXCEPT ![t] = [state |-> "idle", id |-> None]]
      /\ UNCHANGED <<activeSession, displayDepth, nextDisplayId, toHost, toChild,
                     childDisplayId, running>>
  BY DEF DisplayTimeout, Free, hostVars
<1>2. /\ task'[t].state = "idle" /\ \A u \in Tasks \ {t} : task'[u] = task[u]
      /\ task' \in [Tasks -> [state : {"idle", "waiting", "held"}, id : Ids \cup {None}]]
  BY <1>0, <1>1 DEF SessionTypes
<1> HIDE DEF id
<1>3. SessionTypes'
  BY <1>0, <1>1, <1>2 DEF SessionTypes
<1>4. HoldersCounted'
  <2>1. Holders' = Holders
    BY <1>0, <1>1, <1>2, HoldersMove
  <2> QED  BY <1>0, <1>1, <2>1 DEF HoldersCounted
<1>5. WaitersPend'
  <2>1. \A u \in Tasks : Waits(u)' <=> Waits(u) /\ u # t
    BY <1>1, <1>2 DEF Waits
  <2>2. \A u \in Tasks : Waits(u) /\ u # t => task[u].id \in pending /\ task[u].id # id
    BY <1>0, <1>1 DEF WaitersPend, Waits, id
  <2>3. \A u \in Tasks : Waits(u)' => task'[u].id \in pending'
    BY <1>1, <1>2, <2>1, <2>2
  <2>4. ASSUME NEW u \in Tasks, NEW v \in Tasks, Waits(u)', Waits(v)', task'[u].id = task'[v].id
        PROVE  u = v
    BY <1>0, <1>2, <2>1, <2>4 DEF WaitersPend
  <2>5. ASSUME NEW k \in pending'
        PROVE  /\ k \in Ids /\ k < nextDisplayId'
               /\ \E u \in Tasks : Waits(u)' /\ task'[u].id = k
    <3>1. k \in pending /\ k # id
      BY <1>1
    <3>2. k \in Ids /\ k < nextDisplayId
      BY <1>0, <3>1 DEF WaitersPend
    <3>3. PICK u \in Tasks : Waits(u) /\ task[u].id = k
      BY <1>0, <3>1 DEF WaitersPend
    <3>4. u # t
      BY <3>1, <3>3 DEF id
    <3> QED  BY <1>1, <1>2, <2>1, <3>2, <3>3, <3>4
  <2> QED  BY <2>3, <2>4, <2>5 DEF WaitersPend
<1>6. RequestsGrow' /\ AnswersGrow' /\ SessionGrows'
  BY <1>0, <1>1 DEF RequestsGrow, AnswersGrow, SessionGrows, RequestOf
<1> QED  BY <1>1, <1>3, <1>4, <1>5, <1>6 DEF SessionFacts, SessionIsSomebodys

\* A caller lets go: one holder less, or the last one and the session is released.
LEMMA ReleaseSession ==
  ASSUME SessionFacts, NEW t \in Tasks, releaseSession(t)
  PROVE  SessionFacts'
<1>0. SessionTypes /\ WaitersPend /\ HoldersCounted /\ RequestsGrow /\ AnswersGrow /\ SessionGrows
      /\ SessionIsSomebodys
  BY DEF SessionFacts
<1>1. /\ task[t].state = "held" /\ task' = [task EXCEPT ![t] = [state |-> "idle", id |-> None]]
      /\ UNCHANGED <<pending, nextDisplayId, timedOut, toChild, childDisplayId, running>>
  BY DEF releaseSession, Free, hostVars
<1>2. /\ task'[t].state = "idle" /\ \A u \in Tasks \ {t} : task'[u] = task[u]
      /\ task' \in [Tasks -> [state : {"idle", "waiting", "held"}, id : Ids \cup {None}]]
  BY <1>0, <1>1 DEF SessionTypes
<1>3. /\ IsFiniteSet(Holders') /\ Cardinality(Holders') = Cardinality(Holders) - 1
      /\ Holders # {} /\ Cardinality(Holders) \in Nat \ {0}
      /\ Holders' # {} => Cardinality(Holders') \in Nat \ {0}
  <2>1. Holders # {}
    BY <1>1 DEF Holders
  <2> QED  BY <1>0, <1>1, <1>2, <2>1, HoldersMove
<1>4. activeSession # None /\ displayDepth = Cardinality(Holders)
  BY <1>0, <1>3 DEF HoldersCounted
<1>5. WaitersPend'
  <2>1. \A u \in Tasks : Waits(u)' <=> Waits(u)
    BY <1>1, <1>2 DEF Waits
  <2>2. \A u \in Tasks : Waits(u) => task'[u] = task[u]
    BY <1>1, <1>2 DEF Waits
  <2> QED  BY <1>0, <1>1, <2>1, <2>2 DEF WaitersPend
<1>6. CASE displayDepth > 1
  <2>1. displayDepth' = displayDepth - 1 /\ UNCHANGED <<activeSession, toHost>>
    BY <1>3, <1>4, <1>6 DEF releaseSession
  <2>2. Holders' # {}
    <3>1. Cardinality(Holders') # 0
      BY <1>3, <1>4, <1>6
    <3> QED  BY <3>1, FS_EmptySet
  <2>3. HoldersCounted'
    BY <1>3, <1>4, <2>1, <2>2 DEF HoldersCounted
  <2>4. SessionTypes'
    BY <1>0, <1>1, <1>2, <2>1 DEF SessionTypes
  <2>5. RequestsGrow' /\ AnswersGrow' /\ SessionGrows' /\ SessionIsSomebodys'
    BY <1>0, <1>1, <2>1
       DEF RequestsGrow, AnswersGrow, SessionGrows, SessionIsSomebodys, RequestOf
  <2> QED  BY <1>5, <2>3, <2>4, <2>5 DEF SessionFacts
<1>7. CASE displayDepth <= 1
  <2> DEFINE a == activeSession
  <2>1. /\ displayDepth' = 0 /\ activeSession' = None /\ Emit("releaseDisplay", a)
    BY <1>3, <1>4, <1>7 DEF releaseSession
  <2>2. Holders' = {} /\ Cardinality(Holders') = 0
    <3>1. Cardinality(Holders') = 0
      BY <1>3, <1>4, <1>7
    <3> QED  BY <1>3, <3>1
  <2>3. HoldersCounted'
    BY <1>3, <2>1, <2>2 DEF HoldersCounted
  <2>4. /\ toHost' \in Seq(Requests \cup Releases) /\ Len(toHost') = Len(toHost) + 1
        /\ \A i \in 1..Len(toHost) : toHost'[i] = toHost[i]
        /\ toHost'[Len(toHost) + 1].id = a /\ ~RequestOf(toHost'[Len(toHost) + 1])
    BY <1>4, <2>1, EmitRelease
  <2>5. /\ Len(toHost) \in Nat /\ Len(toChild) \in Nat /\ a \in Nat /\ nextDisplayId \in Nat
        /\ \A i \in 1..Len(toHost) : toHost[i].id \in Nat
        /\ \A i \in 1..Len(toChild) : toChild[i].id \in Nat
        /\ childDisplayId \in Nat /\ childDisplayId # None
    BY <1>0, <1>4, QueueFacts DEF SessionTypes, SessionGrows
  <2>6. \A i \in 1..Len(toHost') : \/ i \in 1..Len(toHost) /\ toHost'[i] = toHost[i]
                                   \/ i = Len(toHost) + 1
    BY <2>4, <2>5
  <2>7. /\ a <= childDisplayId /\ a < nextDisplayId
        /\ \A i \in 1..Len(toChild) : a < toChild[i].id
    BY <1>0, <1>4, <2>5 DEF SessionGrows, AnswersGrow
  <2>8. \A i \in 1..Len(toHost) : RequestOf(toHost[i]) => a < toHost[i].id
    <3>1. \A i \in 1..Len(toHost) : RequestOf(toHost[i]) => childDisplayId < toHost[i].id
      BY <1>0, <2>5 DEF RequestsGrow
    <3> QED  BY <2>5, <2>7, <3>1
  <2> HIDE DEF a
  <2>9. SessionTypes'
    BY <1>0, <1>1, <1>2, <2>1, <2>4 DEF SessionTypes
  <2>10. RequestsGrow'
    <3>0. \A i \in 1..Len(toHost') : RequestOf(toHost'[i]) =>
            i \in 1..Len(toHost) /\ toHost'[i] = toHost[i]
      BY <2>4, <2>6
    <3>1. ASSUME NEW i \in 1..Len(toHost'), NEW j \in 1..Len(toHost'),
                 RequestOf(toHost'[i]), RequestOf(toHost'[j]), i < j
          PROVE  toHost'[i].id < toHost'[j].id
      BY <1>0, <3>0, <3>1 DEF RequestsGrow
    <3>2. \A i \in 1..Len(toHost') : toHost'[i].id < nextDisplayId
      BY <1>0, <2>4, <2>6, <2>7 DEF RequestsGrow
    <3>3. ASSUME NEW i \in 1..Len(toHost'), RequestOf(toHost'[i])
          PROVE  /\ childDisplayId < toHost'[i].id
                 /\ \A j \in 1..Len(toHost') :
                      ~RequestOf(toHost'[j]) => toHost'[j].id < toHost'[i].id
      <4>1. i \in 1..Len(toHost) /\ toHost'[i] = toHost[i] /\ RequestOf(toHost[i])
        BY <3>0, <3>3
      <4>2. childDisplayId < toHost[i].id
        BY <1>0, <2>5, <4>1 DEF RequestsGrow
      <4>3. a < toHost[i].id
        BY <2>8, <4>1
      <4>4. \A j \in 1..Len(toHost) : ~RequestOf(toHost[j]) => toHost[j].id < toHost[i].id
        BY <1>0, <4>1 DEF RequestsGrow
      <4> QED  BY <2>4, <2>6, <4>1, <4>2, <4>3, <4>4
    <3> QED  BY <1>1, <3>1, <3>2, <3>3 DEF RequestsGrow, RequestOf
  <2>11. AnswersGrow'
    <3>1. ASSUME NEW i \in 1..Len(toChild), NEW j \in 1..Len(toHost'), ~RequestOf(toHost'[j])
          PROVE  toHost'[j].id < toChild[i].id
      BY <1>0, <2>4, <2>6, <2>7, <3>1 DEF AnswersGrow
    <3> QED  BY <1>0, <1>1, <2>1, <3>1 DEF AnswersGrow, RequestOf
  <2>12. SessionGrows'
    BY <1>0, <1>1, <2>1 DEF SessionGrows
  <2>13. SessionIsSomebodys'
    <3> SUFFICES ASSUME timedOut = {}
                 PROVE  /\ \/ \E i \in 1..Len(toChild) : toChild[i].id = childDisplayId
                           \/ \E i \in 1..Len(toHost') :
                                ~RequestOf(toHost'[i]) /\ toHost'[i].id = childDisplayId
                        /\ \A i \in 1..Len(toChild) : toChild[i].id \in pending
                        /\ \A i \in 1..Len(toHost') :
                             RequestOf(toHost'[i]) => toHost'[i].id \in pending
      BY <1>1, <2>1 DEF SessionIsSomebodys, RequestOf
    <3>1. Len(toHost) + 1 \in 1..Len(toHost')
          /\ \A i \in 1..Len(toHost) : i \in 1..Len(toHost') /\ toHost'[i] = toHost[i]
      BY <2>4, <2>5
    <3>2. \/ a = childDisplayId
          \/ \E i \in 1..Len(toChild) : toChild[i].id = childDisplayId
          \/ \E i \in 1..Len(toHost) : ~RequestOf(toHost[i]) /\ toHost[i].id = childDisplayId
      BY <1>0, <2>5 DEF SessionIsSomebodys, a
    <3>3. \/ \E i \in 1..Len(toChild) : toChild[i].id = childDisplayId
          \/ \E i \in 1..Len(toHost') :
               ~RequestOf(toHost'[i]) /\ toHost'[i].id = childDisplayId
      BY <2>4, <3>1, <3>2
    <3>4. \A i \in 1..Len(toHost') : RequestOf(toHost'[i]) => toHost'[i].id \in pending
      BY <1>0, <2>4, <2>6 DEF SessionIsSomebodys
    <3> QED  BY <1>0, <3>3, <3>4 DEF SessionIsSomebodys
  <2> QED  BY <1>5, <2>3, <2>9, <2>10, <2>11, <2>12, <2>13 DEF SessionFacts
<1> QED  BY <1>3, <1>4, <1>6, <1>7

-----------------------------------------------------------------------------
\* At the start nothing is asked for and nobody holds anything.
LEMMA SessionInit == Init => SessionInv
<1> SUFFICES ASSUME Init
             PROVE  SessionFacts
  BY DEF SessionInv
<1>1. /\ toHost = <<>> /\ toChild = <<>> /\ running = <<>> /\ childDisplayId = None
      /\ activeSession = None /\ displayDepth = 0 /\ nextDisplayId = 1 /\ pending = {}
      /\ task = [t \in Tasks |-> [state |-> "idle", id |-> None]]
  BY DEF Init, Free
<1>2. Len(toHost) = 0 /\ Len(toChild) = 0
  BY <1>1
<1>3. SessionTypes
  BY <1>1, EmptySeq DEF SessionTypes
<1>4. WaitersPend
  BY <1>1 DEF WaitersPend, Waits
<1>5. HoldersCounted
  <2>1. Holders = {}
    BY <1>1 DEF Holders
  <2> QED  BY <1>1, <2>1, FS_EmptySet DEF HoldersCounted
<1>6. RequestsGrow /\ AnswersGrow /\ SessionGrows /\ SessionIsSomebodys
  BY <1>1, <1>2 DEF RequestsGrow, AnswersGrow, SessionGrows, SessionIsSomebodys
<1> QED  BY <1>3, <1>4, <1>5, <1>6 DEF SessionFacts


\* Every step keeps the sessions in order, as long as nobody hides.
LEMMA SessionStep == IInv /\ SessionInv /\ [Next]_vars => SessionInv'
<1> SUFFICES ASSUME IInv, SessionInv, [Next]_vars, Uses'
             PROVE  SessionFacts'
  BY DEF SessionInv
<1>1. CASE UNCHANGED vars
  <2>1. SessionFacts /\ QuietMove
    BY <1>1 DEF vars, hostVars, SessionInv, Uses, QuietMove, SessionFacts, SessionTypes, childVars
  <2> QED  BY <2>1, QuietKeeps
<1>2. Next => SessionFacts
  <2>1. Next => Destroy \/ destroyed' = destroyed
    <3>1. Child => destroyed' = destroyed
      BY DEF Child, handleDisplayReady, handleHideReady, requestDisplay, DisplayTimeout,
             releaseSession, requestHide, HideTimeout, hostVars
    <3>2. Host => Destroy \/ destroyed' = destroyed
      BY DEF Host, AnimationFinished, Resize, HostShow, HostHide, prepareForRpcAccess,
             completeRpcAccess, restoreOrHide, handleRequestDisplay, handleReleaseDisplay,
             handleRequestHide, fixedVars
    <3> QED  BY <3>1, <3>2 DEF Next
  <2>2. Next => (\E t \in Tasks : requestHide(t)) \/ hideUsed' = hideUsed
    <3>1. Host => hideUsed' = hideUsed
      BY DEF Host, AnimationFinished, Resize, HostShow, HostHide, prepareForRpcAccess,
             completeRpcAccess, restoreOrHide, Destroy, handleRequestDisplay,
             handleReleaseDisplay, handleRequestHide, childVars
    <3>2. Child => (\E t \in Tasks : requestHide(t)) \/ hideUsed' = hideUsed
      BY DEF Child, handleDisplayReady, handleHideReady, requestDisplay, DisplayTimeout,
             releaseSession, HideTimeout
    <3> QED  BY <3>1, <3>2 DEF Next
  <2> QED  BY <2>1, <2>2 DEF SessionInv, Uses, Destroy, requestHide
<1>3. CASE Host
  <2>1. SessionFacts /\ SessionTypes /\ ~Destroy
    BY <1>2, <1>3 DEF Next, Destroy, Uses, SessionFacts
  <2>2. ASSUME \/ AnimationFinished \/ Resize \/ HostShow \/ HostHide \/ prepareForRpcAccess
               \/ completeRpcAccess \/ restoreOrHide
        PROVE  SessionFacts'
    <3>1. ~destroyed
      BY <2>2 DEF Uses, AnimationFinished, Resize, HostShow, HostHide, prepareForRpcAccess,
                  completeRpcAccess, restoreOrHide, fixedVars
    <3> QED  BY <2>1, <2>2, <3>1, HostIsQuiet, QuietKeeps
  <2>3. ASSUME NEW id \in Keys, handleRequestDisplay(id) \/ handleReleaseDisplay(id)
        PROVE  SessionFacts'
    BY <2>1, <2>3, RequestDisplaySession, ReleaseDisplaySession
  <2>4. ASSUME NEW id \in Keys, handleRequestHide(id)
        PROVE  FALSE
    <3>1. Receives("requestHide", id)
      BY <2>4 DEF handleRequestHide
    <3>2. 1 \in 1..Len(toHost) /\ toHost[1].kind = "requestHide"
      BY <2>1, <3>1, HostReads
    <3> QED  BY <2>1, <3>2, QueueFacts
  <2> QED  BY <1>3, <2>1, <2>2, <2>3, <2>4 DEF Host
<1>4. CASE Child
  <2>1. SessionFacts /\ SessionTypes
    BY <1>2, <1>4 DEF Next, SessionFacts
  <2>2. ASSUME NEW id \in Keys, handleDisplayReady(id)
        PROVE  SessionFacts'
    BY <2>1, <2>2, ReadySession
  <2>3. ASSUME NEW id \in Keys, handleHideReady(id)
        PROVE  FALSE
    <3>1. Answered("hideReady", id)
      BY <2>3 DEF handleHideReady
    <3>2. 1 \in 1..Len(toChild) /\ toChild[1].kind = "hideReady"
      BY <2>1, <3>1, ChildReads
    <3> QED  BY <2>1, <3>2, QueueFacts
  <2>4. ASSUME NEW t \in Tasks, requestDisplay(t) \/ DisplayTimeout(t) \/ releaseSession(t)
        PROVE  SessionFacts'
    BY <2>1, <2>4, RequestSession, TimeoutSession, ReleaseSession
  <2>5. ASSUME NEW t \in Tasks, requestHide(t) \/ HideTimeout(t)
        PROVE  FALSE
    <3>1. ~requestHide(t)
      BY DEF requestHide, Uses
    <3>2. ~HideTimeout(t)
      BY <2>1 DEF HideTimeout, SessionTypes
    <3> QED  BY <2>5, <3>1, <3>2
  <2> QED  BY <1>4, <2>2, <2>3, <2>4, <2>5 DEF Child
<1> QED  BY <1>1, <1>3, <1>4 DEF Next

-----------------------------------------------------------------------------
(* The type of the whole: what LayoutTypes leaves open. *)

PanelTyped == /\ layout \in Layouts /\ originalLayout \in Layouts \cup {None}
              /\ toChild \in Seq(ToChild)

HostTyped ==
  /\ presentationMode \in Modes
  /\ childDisplayId \in Keys \cup {None}
  /\ hostDisplayActive \in BOOLEAN /\ destroyed \in BOOLEAN
  /\ toHost \in Seq(ToHost)

\* A caller that waits, holds or hides does so under an id.
ChildTyped ==
  /\ task \in [Tasks -> [state : {"idle", "waiting", "held", "hiding"}, id : Keys \cup {None}]]
  /\ \A t \in Tasks : task[t].state # "idle" => task[t].id \in Keys
  /\ pending \in SUBSET Keys
  /\ pendingHide \in [Keys -> Tasks \cup {None}]
  /\ activeSession \in Keys \cup {None}
  /\ displayDepth \in Nat /\ nextDisplayId \in Nat
  /\ timedOut \in SUBSET Keys
  /\ hideUsed \in BOOLEAN

Typed == PanelTyped /\ HostTyped /\ ChildTyped

LEMMA TypedInit == Init => Typed
<1> SUFFICES ASSUME Init
             PROVE  Typed
  OBVIOUS
<1>1. PanelTyped
  BY EmptySeq DEF Init, PanelTyped, Layouts, Panels
<1>2. HostTyped
  BY EmptySeq DEF Init, HostTyped
<1>3. ChildTyped
  BY DEF Init, ChildTyped, Free
<1> QED  BY <1>1, <1>2, <1>3 DEF Typed

\* An acknowledgement is a message of the host.
LEMMA AckTypes ==
  ASSUME NEW id \in Keys \cup {None}
  PROVE  Ack(id) \in Seq(ToChild)
<1>1. CASE id = None
  BY <1>1, EmptySeq DEF Ack
<1>2. CASE id # None
  <2>1. Message("hideReady", id) \in ToChild
    BY <1>2 DEF Message, ToChild
  <2> QED  BY <1>2, <2>1 DEF Ack
<1> QED  BY <1>1, <1>2

\* What an animation acknowledges that is cancelled or finished.
LEMMA RunningAcks ==
  ASSUME LayoutInv, running # <<>>
  PROVE  Ack(running[Len(running)]) \in Seq(ToChild) /\ Ack(Head(running)) \in Seq(ToChild)
<1>1. running \in Seq(Keys \cup {None}) /\ Len(running) \in Nat \ {0}
  BY EmptySeq DEF LayoutInv, LayoutTypes
<1>2. running[Len(running)] \in Keys \cup {None} /\ Head(running) \in Keys \cup {None}
  BY <1>1
<1> QED  BY <1>2, AckTypes

LEMMA ShowTypes ==
  ASSUME LayoutInv, PanelTyped, NEW to \in Panels \cup {"passthrough"},
         NEW posts \in Seq(ToChild), Show(to, posts)
  PROVE  PanelTyped'
<1>1. toChild \o posts \in Seq(ToChild)
  BY ConcatProperties DEF PanelTyped
<1>2. CASE hideAnimation
  <2>1. running # <<>>
    BY <1>2 DEF LayoutInv, AnimationIsRunning
  <2>2. toChild' = (toChild \o posts) \o Ack(running[Len(running)])
    BY <1>2 DEF Show
  <2>3. toChild' \in Seq(ToChild)
    BY <1>1, <2>1, <2>2, RunningAcks, ConcatProperties
  <2> QED  BY <1>2, <2>3 DEF Show, PanelTyped
<1>3. CASE ~hideAnimation
  BY <1>1, <1>3 DEF Show, PanelTyped, Layouts
<1> QED  BY <1>2, <1>3 DEF LayoutInv, LayoutTypes

LEMMA HideTypes ==
  ASSUME LayoutInv, PanelTyped, NEW ack \in Keys \cup {None}, hideLayoutAnimated(ack)
  PROVE  PanelTyped'
<1>1. hideLayoutSync => layout' \in Layouts /\ originalLayout' \in Layouts \cup {None}
  BY DEF hideLayoutSync, PanelTyped, Layouts
<1>2. CASE layout # "drawer"
  BY <1>1, <1>2, AckTypes, ConcatProperties DEF hideLayoutAnimated, PanelTyped
<1>3. CASE layout = "drawer" /\ hideAnimation
  <2>1. running # <<>>
    BY <1>3 DEF LayoutInv, AnimationIsRunning
  <2>2. toChild' = toChild \o Ack(running[Len(running)]) /\ hideLayoutSync
    BY <1>3 DEF hideLayoutAnimated
  <2> QED  BY <1>1, <2>1, <2>2, RunningAcks, ConcatProperties DEF PanelTyped
<1>4. CASE layout = "drawer" /\ ~hideAnimation
  BY <1>4 DEF hideLayoutAnimated, PanelTyped
<1> QED  BY <1>2, <1>3, <1>4 DEF LayoutInv, LayoutTypes

\* A step of the host that shows, hides or leaves the panel.
LEMMA PanelMoves ==
  ASSUME LayoutInv, PanelTyped,
         \/ UNCHANGED layoutVars
         \/ \E to \in Panels \cup {"passthrough"}, posts \in Seq(ToChild) : Show(to, posts)
         \/ \E ack \in Keys \cup {None} : hideLayoutAnimated(ack)
  PROVE  PanelTyped'
  BY ShowTypes, HideTypes DEF layoutVars, PanelTyped

\* The queue after its head was taken.
LEMMA TakenTypes ==
  ASSUME NEW S, NEW q \in Seq(S), q # <<>>
  PROVE  Tail(q) \in Seq(S)
  BY HeadTailProperties

\* A step of the host: it leaves the Branding Layer's state alone.
LEMMA HostTypes ==
  ASSUME IInv, Typed, Host
  PROVE  Typed'
<1>1. LayoutInv /\ PanelTyped /\ HostTyped /\ ChildTyped
  BY DEF IInv, Typed
<1>2. UNCHANGED childVars
  BY DEF Host, AnimationFinished, Resize, HostShow, HostHide, prepareForRpcAccess,
         completeRpcAccess, restoreOrHide, Destroy, handleRequestDisplay,
         handleReleaseDisplay, handleRequestHide
<1>3. ChildTyped'
  BY <1>1, <1>2 DEF ChildTyped, childVars
<1>4. viewport \in Panels /\ Panel(viewport) \in Panels /\ <<>> \in Seq(ToChild)
  BY <1>1, ViewsAssumption, EmptySeq DEF LayoutInv, LayoutTypes, Panel, Panels
<1>5. CASE AnimationFinished
  <2>1. /\ running # <<>> /\ hideLayoutSync /\ toChild' = toChild \o Ack(Head(running))
        /\ UNCHANGED <<holdVars, fixedVars, toHost>>
    BY <1>5 DEF AnimationFinished
  <2>2. PanelTyped'
    BY <1>1, <2>1, RunningAcks, ConcatProperties DEF hideLayoutSync, PanelTyped, Layouts
  <2> QED  BY <1>1, <1>3, <2>1, <2>2 DEF Typed, HostTyped, holdVars, fixedVars
<1>6. CASE Resize
  <2>1. PanelTyped'
    <3>1. viewport' \in Panels
      BY <1>6, ViewsAssumption DEF Resize, Panels
    <3> QED  BY <1>1, <1>4, <1>6, <3>1, PanelMoves DEF Resize
  <2> QED  BY <1>1, <1>3, <1>6, <2>1 DEF Resize, Typed, HostTyped, holdVars
<1>7. CASE HostShow
  <2>1. PanelTyped'
    BY <1>1, <1>4, <1>7, PanelMoves DEF HostShow
  <2> QED  BY <1>1, <1>3, <1>7, <2>1 DEF HostShow, Typed, HostTyped, fixedVars
<1>8. CASE HostHide
  <2>1. PanelTyped'
    BY <1>1, <1>8, PanelMoves DEF HostHide
  <2> QED  BY <1>1, <1>3, <1>8, <2>1 DEF HostHide, Typed, HostTyped, fixedVars
<1>9. CASE prepareForRpcAccess
  <2>1. PanelTyped'
    BY <1>1, <1>4, <1>9, PanelMoves DEF prepareForRpcAccess
  <2> QED  BY <1>1, <1>3, <1>9, <2>1 DEF prepareForRpcAccess, Typed, HostTyped, fixedVars
<1>10. CASE completeRpcAccess
  BY <1>1, <1>3, <1>10 DEF completeRpcAccess, Typed, PanelTyped, HostTyped, fixedVars, layoutVars
<1>11. CASE restoreOrHide
  <2>1. PanelTyped'
    BY <1>1, <1>4, <1>11, PanelMoves DEF restoreOrHide
  <2> QED  BY <1>1, <1>3, <1>11, <2>1 DEF restoreOrHide, Typed, HostTyped, fixedVars
<1>12. CASE Destroy
  <2>1. PanelTyped'
    BY <1>1, <1>12, EmptySeq DEF Destroy, PanelTyped, Layouts
  <2> QED  BY <1>1, <1>3, <1>12, <2>1, EmptySeq DEF Destroy, Typed, HostTyped
<1>13. ASSUME NEW id \in Keys, handleRequestDisplay(id)
       PROVE  Typed'
  <2>1. Message("displayReady", id) \in ToChild
    BY DEF Message, ToChild
  <2>2. <<Message("displayReady", id)>> \in Seq(ToChild)
    BY <2>1
  <2>3. PanelTyped'
    BY <1>1, <1>4, <1>13, <2>2, PanelMoves DEF handleRequestDisplay
  <2>4. toHost' \in Seq(ToHost)
    BY <1>1, <1>13, TakenTypes DEF handleRequestDisplay, Receives, HostTyped
  <2> QED  BY <1>1, <1>3, <1>13, <2>3, <2>4 DEF handleRequestDisplay, Typed, HostTyped, fixedVars
<1>14. ASSUME NEW id \in Keys, handleReleaseDisplay(id)
       PROVE  Typed'
  <2>1. PanelTyped'
    <3>1. isInline => "inline" \in Panels
      BY DEF Panels
    <3> QED  BY <1>1, <1>4, <1>14, <3>1, PanelMoves DEF handleReleaseDisplay
  <2>2. toHost' \in Seq(ToHost)
    BY <1>1, <1>14, TakenTypes DEF handleReleaseDisplay, Receives, HostTyped
  <2> QED  BY <1>1, <1>3, <1>14, <2>1, <2>2 DEF handleReleaseDisplay, Typed, HostTyped, fixedVars
<1>15. ASSUME NEW id \in Keys, handleRequestHide(id)
       PROVE  Typed'
  <2>1. Ack(id) \in Seq(ToChild) /\ "inline" \in Panels
    BY AckTypes DEF Panels
  <2>2. PanelTyped'
    <3>1. CASE Superseded(id)
      BY <1>1, <1>15, <2>1, <3>1, ConcatProperties DEF handleRequestHide, PanelTyped
    <3>2. CASE ~Superseded(id)
      BY <1>1, <1>15, <2>1, <3>2, PanelMoves DEF handleRequestHide
    <3> QED  BY <3>1, <3>2
  <2>3. toHost' \in Seq(ToHost)
    BY <1>1, <1>15, TakenTypes DEF handleRequestHide, Receives, HostTyped
  <2> QED  BY <1>1, <1>3, <1>15, <2>2, <2>3 DEF handleRequestHide, Typed, HostTyped, fixedVars
<1> QED  BY <1>5, <1>6, <1>7, <1>8, <1>9, <1>10, <1>11, <1>12, <1>13, <1>14, <1>15 DEF Host

\* A step of the Branding Layer: it leaves the host's state alone.
LEMMA ChildTypes ==
  ASSUME IInv, Typed, Child
  PROVE  Typed'
<1>1. PanelTyped /\ HostTyped /\ ChildTyped
  BY DEF Typed
<1>2. UNCHANGED hostVars
  BY DEF Child, handleDisplayReady, handleHideReady, requestDisplay, DisplayTimeout,
         releaseSession, requestHide, HideTimeout
<1>3. ASSUME toHost' \in Seq(ToHost), toChild' \in Seq(ToChild), ChildTyped'
      PROVE  Typed'
  BY <1>1, <1>2, <1>3 DEF Typed, PanelTyped, HostTyped, hostVars
<1>4. toHost \in Seq(ToHost) /\ toChild \in Seq(ToChild)
  BY <1>1 DEF PanelTyped, HostTyped
<1>5. ASSUME NEW kind \in {"requestDisplay", "releaseDisplay", "requestHide"}, NEW id \in Keys,
             Emit(kind, id)
      PROVE  toHost' \in Seq(ToHost)
  <2>1. Message(kind, id) \in ToHost
    BY DEF Message, ToHost
  <2> QED  BY <1>4, <1>5, <2>1, AppendProperties DEF Emit
<1>6. ASSUME NEW id \in Keys, handleDisplayReady(id)
      PROVE  Typed'
  <2>1. toChild' \in Seq(ToChild) /\ toHost' = toHost
    BY <1>4, <1>6, TakenTypes DEF handleDisplayReady, Answered
  <2>2. ChildTyped'
    BY <1>1, <1>6 DEF handleDisplayReady, ChildTyped
  <2> QED  BY <1>3, <1>4, <2>1, <2>2
<1>7. ASSUME NEW id \in Keys, handleHideReady(id)
      PROVE  Typed'
  <2>1. toChild' \in Seq(ToChild) /\ toHost' = toHost
    BY <1>4, <1>7, TakenTypes DEF handleHideReady, Answered
  <2>2. ChildTyped'
    BY <1>1, <1>7 DEF handleHideReady, ClearActiveSession, ChildTyped, Free
  <2> QED  BY <1>3, <1>4, <2>1, <2>2
<1>8. ASSUME NEW t \in Tasks, requestDisplay(t)
      PROVE  Typed'
  <2>1. CASE activeSession # None
    <3>1. ChildTyped'
      BY <1>1, <1>8, <2>1 DEF requestDisplay, Set, ChildTyped
    <3> QED  BY <1>3, <1>4, <1>8, <2>1, <3>1 DEF requestDisplay
  <2>2. CASE activeSession = None
    <3>1. nextDisplayId \in Keys
      BY <1>8, <2>2 DEF requestDisplay, Keys
    <3>2. ChildTyped'
      <4>1. /\ nextDisplayId' = nextDisplayId + 1 /\ pending' = pending \cup {nextDisplayId}
            /\ task' = [task EXCEPT ![t] = [state |-> "waiting", id |-> nextDisplayId]]
            /\ UNCHANGED <<displayDepth, pendingHide, activeSession, timedOut, hideUsed>>
        BY <1>8, <2>2 DEF requestDisplay, Set
      <4>2. pending' \in SUBSET Keys /\ nextDisplayId' \in Nat
        BY <1>1, <3>1, <4>1 DEF ChildTyped
      <4> QED  BY <1>1, <3>1, <4>1, <4>2 DEF ChildTyped
    <3>3. Emit("requestDisplay", nextDisplayId) /\ toChild' = toChild
      BY <1>8, <2>2 DEF requestDisplay
    <3>4. toHost' \in Seq(ToHost)
      BY <1>5, <3>1, <3>3
    <3> QED  BY <1>3, <1>4, <3>2, <3>3, <3>4
  <2> QED  BY <2>1, <2>2
<1>9. ASSUME NEW t \in Tasks, DisplayTimeout(t)
      PROVE  Typed'
  <2>1. ChildTyped'
    BY <1>1, <1>9 DEF DisplayTimeout, ChildTyped, Free
  <2> QED  BY <1>3, <1>4, <1>9, <2>1 DEF DisplayTimeout
<1>10. ASSUME NEW t \in Tasks, releaseSession(t)
       PROVE  Typed'
  <2>1. ChildTyped'
    BY <1>1, <1>10 DEF releaseSession, ChildTyped, Free
  <2>2. activeSession # None => activeSession \in Keys
    BY <1>1 DEF ChildTyped
  <2>3. toChild' = toChild /\ toHost' \in Seq(ToHost)
    BY <1>4, <1>5, <1>10, <2>2 DEF releaseSession
  <2> QED  BY <1>3, <1>4, <2>1, <2>3
<1>11. ASSUME NEW t \in Tasks, requestHide(t)
       PROVE  Typed'
  <2> DEFINE id == IF task[t].state = "held" THEN task[t].id ELSE Anonymous
  <2>1. id \in Keys
    BY <1>1 DEF ChildTyped, Keys
  <2>2. /\ pendingHide' = [pendingHide EXCEPT ![id] = t] /\ task' = Set(t, "hiding", id)
        /\ Emit("requestHide", id) /\ hideUsed' = TRUE /\ toChild' = toChild
        /\ UNCHANGED <<pending, activeSession, displayDepth, nextDisplayId, timedOut>>
    BY <1>11 DEF requestHide
  <2> HIDE DEF id
  <2>3. ChildTyped'
    BY <1>1, <2>1, <2>2 DEF Set, ChildTyped
  <2> QED  BY <1>3, <1>4, <1>5, <2>1, <2>2, <2>3
<1>12. ASSUME NEW t \in Tasks, HideTimeout(t)
       PROVE  Typed'
  <2>1. ChildTyped'
    BY <1>1, <1>12 DEF HideTimeout, ClearActiveSession, ChildTyped, Free
  <2> QED  BY <1>3, <1>4, <1>12, <2>1 DEF HideTimeout
<1> QED  BY <1>6, <1>7, <1>8, <1>9, <1>10, <1>11, <1>12 DEF Child

LEMMA TypedStep == IInv /\ Typed /\ [Next]_vars => Typed'
<1>1. Typed /\ UNCHANGED vars => Typed'
  BY DEF vars, hostVars, childVars, Typed, PanelTyped, HostTyped, ChildTyped
<1> QED  BY <1>1, HostTypes, ChildTypes DEF Next

-----------------------------------------------------------------------------
(* Theorems. *)

\* While somebody holds the panel it is on the screen, unless the last show met a
\* drawer that was sliding out.
THEOREM ShownCorrect == Spec => []ShownWhileHeld
<1>1. IInv => ShownWhileHeld
  BY DEF IInv
<1> QED  BY <1>1, InitInv, StepInv, PTL DEF Spec

\* Once nobody holds it and nothing is left to hide it, it is hidden.
THEOREM HiddenCorrect == Spec => []HiddenWhenIdle
<1>1. IInv => HiddenWhenIdle
  BY DEF IInv
<1> QED  BY <1>1, InitInv, StepInv, PTL DEF Spec

\* As long as nobody hides, a session that a caller still holds stays open at the
\* host, whoever else releases.
THEOREM HolderCorrect == Spec => []HolderKeepsDisplay
<1>1. SessionInv => HolderKeepsDisplay
  <2> SUFFICES ASSUME SessionFacts, NEW t \in Tasks, task[t].state = "held"
               PROVE  childDisplayId # None
    BY DEF SessionInv, Uses, HolderKeepsDisplay
  <2>1. activeSession # None
    BY DEF SessionFacts, HoldersCounted, Holders
  <2> QED  BY <2>1 DEF SessionFacts, SessionGrows
<1> QED  BY <1>1, InitInv, StepInv, SessionInit, SessionStep, PTL DEF Spec

\* Callers that release what they asked for leave the host without a session, if
\* no request timed out.
THEOREM ReleaseCorrect == Spec => []NoneLeakedByRelease
<1>1. SessionInv => NoneLeakedByRelease
  <2> SUFFICES ASSUME SessionFacts, Settled, timedOut = {}
               PROVE  childDisplayId = None
    BY DEF SessionInv, Uses, NoneLeakedByRelease, Settled
  <2>1. Len(toHost) = 0 /\ Len(toChild) = 0
    BY DEF Settled
  <2>2. Holders = {}
    BY DEF Settled, Holders
  <2>3. activeSession = None
    BY <2>2 DEF SessionFacts, HoldersCounted
  <2> QED  BY <2>1, <2>3 DEF SessionFacts, SessionIsSomebodys
<1> QED  BY <1>1, InitInv, StepInv, SessionInit, SessionStep, PTL DEF Spec

\* A caller that waits, holds or hides does so under an id.
CallersHaveIds == \A t \in Tasks : task[t].state # "idle" => task[t].id \in Keys

\* Every variable of the host's panel, the client and the two channels keeps its
\* type; a caller that waits, holds or hides does so under an id
\* (DisplayChildClient, child-client.ts).
THEOREM TypeCorrect == Spec => [](TypeOK /\ CallersHaveIds)
<1>1. IInv /\ Typed => TypeOK /\ CallersHaveIds
  BY DEF IInv, LayoutInv, LayoutTypes, Typed, PanelTyped, HostTyped, ChildTyped, TypeOK,
         CallersHaveIds
<1> QED  BY <1>1, InitInv, StepInv, TypedInit, TypedStep, PTL DEF Spec
=============================================================================
