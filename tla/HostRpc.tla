------------------------------- MODULE HostRpc -------------------------------
(***************************************************************************)
(* OWSProxy and its RpcHostClient (packages/ows-provider) in the host page *)
(* and OWSWallet with handleRpcModelCall (packages/ows-wallet-utils) in    *)
(* the Branding iframe: the Postmate handshake, the model that the wallet  *)
(* exposes, the calls under way in either direction, and teardown.         *)
(*                                                                         *)
(* A message carries its call id and what it is about; params and results  *)
(* are abstracted to whether the handler accepts, and succeeds.            *)
(***************************************************************************)
EXTENDS Naturals, Sequences, FiniteSets

CONSTANTS Calls,        \* RPCCallIds in the order nextCallId gives them
          Methods,      \* wire methods the host page uses
          Standard,     \* those of EIP1193_METHODS, always on the model
          None,
          NativePulses, \* handshakes Postmate sends by itself
          ExtraPulses   \* handshakes withExtendedPostmateHandshake adds

ASSUME CallsAssumption   == Calls \subseteq Nat /\ IsFiniteSet(Calls)
ASSUME MethodsAssumption == Standard \subseteq Methods /\ None \notin Methods
ASSUME PulsesAssumption  == NativePulses \in Nat /\ ExtraPulses \in Nat

VARIABLES
  proxy,          \* OWSProxy.create is awaited, returned, or destroy ran
  pulses,         \* handshakes that are still to be sent
  child,          \* the Branding page
  handlers,       \* wire methods with a registered handler
  promise,        \* the promise of each call
  wanted,         \* the method of each call
  pending,        \* keys of RpcHostClient.pending
  rpcAccessCount, \* beforeRequest minus afterRequest
  toChild, toHost,
  running,        \* calls whose handler is running
  ran,            \* history: calls whose handler was started
  late            \* history: calls made after destroy

rpcVars == <<proxy, pulses, child, handlers, promise, wanted, pending, rpcAccessCount,
             toChild, toHost, running, ran, late>>

Request(id, m)   == [kind |-> "call", id |-> id, method |-> m]
Response(id, ok) == [kind |-> "callback", id |-> id, ok |-> ok]
Reply            == [kind |-> "handshake-reply"]

TypeOK ==
  /\ proxy \in {"creating", "open", "destroyed"}
  /\ pulses \in Nat
  /\ child \in {"loading", "listening", "connected"}
  /\ handlers \in SUBSET Methods
  /\ promise \in [Calls -> {"unused", "pending", "resolved", "rejected"}]
  /\ wanted \in [Calls -> Methods \cup {None}]
  /\ pending \in SUBSET Calls
  /\ rpcAccessCount \in Nat
  /\ toChild \in Seq([kind : {"call"}, id : Calls, method : Methods])
  /\ toHost \in Seq([kind : {"callback"}, id : Calls, ok : BOOLEAN] \cup {Reply})
  /\ running \in SUBSET Calls
  /\ ran \in SUBSET Calls
  /\ late \in SUBSET Calls

RpcInit ==
  /\ proxy = "creating"
  /\ pulses = NativePulses + ExtraPulses
  /\ child = "loading"
  /\ handlers = {}
  /\ promise = [id \in Calls |-> "unused"]
  /\ wanted = [id \in Calls |-> None]
  /\ pending = {}
  /\ rpcAccessCount = 0
  /\ toChild = <<>>
  /\ toHost = <<>>
  /\ running = {}
  /\ ran = {}
  /\ late = {}

-----------------------------------------------------------------------------
(* Start-up. *)

callVars == <<promise, wanted, pending, rpcAccessCount, late>>

\* register* before start; afterwards assertNotConnected throws.
Register(m) ==
  /\ child = "loading"
  /\ handlers' = handlers \cup {m}
  /\ UNCHANGED <<proxy, pulses, child, callVars, toChild, toHost, running, ran>>

\* OWSWallet.start: the Postmate model listens for a handshake.
Start ==
  /\ child = "loading"
  /\ child' = "listening"
  /\ UNCHANGED <<proxy, pulses, handlers, callVars, toChild, toHost, running, ran>>

\* What buildPostmateModel puts on the model; Postmate ignores a call of
\* anything else.
Model == Standard \cup handlers

\* Fault: nobody sends handshakes after Postmate has given up.
NativePulseOnly ==
  /\ proxy = "creating"
  /\ pulses > ExtraPulses
  /\ pulses' = pulses - 1
  /\ IF child = "listening"
     THEN child' = "connected" /\ toHost' = Append(toHost, Reply)
     ELSE UNCHANGED <<child, toHost>>
  /\ UNCHANGED <<proxy, handlers, callVars, toChild, running, ran>>

\* A handshake arrives; the first one a started page hears is answered.
Pulse ==
  /\ proxy = "creating"
  /\ pulses > 0
  /\ pulses' = pulses - 1
  /\ IF child = "listening"
     THEN child' = "connected" /\ toHost' = Append(toHost, Reply)
     ELSE UNCHANGED <<child, toHost>>
  /\ UNCHANGED <<proxy, handlers, callVars, toChild, running, ran>>

\* Postmate's promise resolves, and with it OWSProxy.create.
HandshakeReply ==
  /\ toHost # <<>>
  /\ Head(toHost) = Reply
  /\ toHost' = Tail(toHost)
  /\ proxy' = "open"
  /\ UNCHANGED <<pulses, child, handlers, callVars, toChild, running, ran>>

-----------------------------------------------------------------------------
(* RpcHostClient. *)

NextCall(id) == /\ promise[id] = "unused"
                /\ \A q \in Calls : q < id => promise[q] # "unused"

\* After destroy the message goes to a frame that is gone.
request(id, m) ==
  /\ proxy # "creating"
  /\ NextCall(id)
  /\ promise' = [promise EXCEPT ![id] = "pending"]
  /\ wanted' = [wanted EXCEPT ![id] = m]
  /\ pending' = pending \cup {id}
  /\ rpcAccessCount' = rpcAccessCount + 1
  /\ IF proxy = "open"
     THEN toChild' = Append(toChild, Request(id, m)) /\ UNCHANGED late
     ELSE late' = late \cup {id} /\ UNCHANGED toChild
  /\ UNCHANGED <<proxy, pulses, child, handlers, toHost, running, ran>>

\* Fault: a callback settles the oldest pending call, whatever its id.
CallbackOfOldest ==
  /\ toHost # <<>>
  /\ Head(toHost).kind = "callback"
  /\ toHost' = Tail(toHost)
  /\ LET id == CHOOSE p \in pending : \A q \in pending : p <= q
     IN /\ pending' = pending \ {id}
        /\ rpcAccessCount' = rpcAccessCount - 1
        /\ promise' = [promise EXCEPT ![id] = IF Head(toHost).ok THEN "resolved" ELSE "rejected"]
  /\ UNCHANGED <<proxy, pulses, child, handlers, wanted, late, toChild, running, ran>>

\* Fault: only a call that succeeds ends its access to the display.
CallbackKeepingAccess ==
  /\ toHost # <<>>
  /\ Head(toHost).kind = "callback"
  /\ toHost' = Tail(toHost)
  /\ LET m == Head(toHost)
     IN IF m.id \notin pending THEN UNCHANGED <<pending, rpcAccessCount, promise>>
        ELSE /\ pending' = pending \ {m.id}
             /\ rpcAccessCount' = IF m.ok THEN rpcAccessCount - 1 ELSE rpcAccessCount
             /\ promise' = [promise EXCEPT ![m.id] = IF m.ok THEN "resolved" ELSE "rejected"]
  /\ UNCHANGED <<proxy, pulses, child, handlers, wanted, late, toChild, running, ran>>

handleCallback ==
  /\ toHost # <<>>
  /\ Head(toHost).kind = "callback"
  /\ toHost' = Tail(toHost)
  /\ LET m == Head(toHost)
     IN IF m.id \notin pending THEN UNCHANGED <<pending, rpcAccessCount, promise>>
        ELSE /\ pending' = pending \ {m.id}
             /\ rpcAccessCount' = rpcAccessCount - 1
             /\ promise' = [promise EXCEPT ![m.id] = IF m.ok THEN "resolved" ELSE "rejected"]
  /\ UNCHANGED <<proxy, pulses, child, handlers, wanted, late, toChild, running, ran>>

\* Fault: destroy forgets the pending entries without rejecting them.
DestroySilently ==
  /\ proxy = "open"
  /\ proxy' = "destroyed"
  /\ pending' = {}
  /\ rpcAccessCount' = 0
  /\ toChild' = <<>>
  /\ toHost' = <<>>
  /\ running' = {}
  /\ UNCHANGED <<pulses, child, handlers, promise, wanted, late, ran>>

\* OWSProxy.destroy: every entry is rejected, each ending its access, and the
\* iframe is removed with all that ran in it.
destroy ==
  /\ proxy = "open"
  /\ proxy' = "destroyed"
  /\ promise' = [id \in Calls |-> IF id \in pending THEN "rejected" ELSE promise[id]]
  /\ pending' = {}
  /\ rpcAccessCount' = rpcAccessCount - Cardinality(pending)
  /\ toChild' = <<>>
  /\ toHost' = <<>>
  /\ running' = {}
  /\ UNCHANGED <<pulses, child, handlers, wanted, late, ran>>

-----------------------------------------------------------------------------
(* OWSWallet. *)

Answer(id, ok) == toHost' = Append(toHost, Response(id, ok))

\* Fault: params that do not fit the schema are dropped with a log line.
DispatchDroppingInvalid ==
  /\ toChild # <<>>
  /\ toChild' = Tail(toChild)
  /\ LET m == Head(toChild)
     IN \/ /\ m.method \notin handlers
           /\ UNCHANGED <<toHost, running, ran>>
        \/ /\ m.method \in handlers
           /\ running' = running \cup {m.id}
           /\ ran' = ran \cup {m.id}
           /\ UNCHANGED toHost
  /\ UNCHANGED <<proxy, pulses, child, handlers, callVars>>

\* dispatch, resolveRegistration and runHandler up to the handler's first await.
\* A method without a handler and params that do not fit its schema are
\* answered with an error.
dispatch ==
  /\ toChild # <<>>
  /\ toChild' = Tail(toChild)
  /\ LET m == Head(toChild)
     IN \/ /\ m.method \notin Model
           /\ UNCHANGED <<toHost, running, ran>>
        \/ /\ m.method \in Model
           /\ Answer(m.id, FALSE)
           /\ UNCHANGED <<running, ran>>
        \/ /\ m.method \in handlers
           /\ running' = running \cup {m.id}
           /\ ran' = ran \cup {m.id}
           /\ UNCHANGED toHost
  /\ UNCHANGED <<proxy, pulses, child, handlers, callVars>>

\* handleRpcModelCall: a result, an OwsRpcError, or any other exception.
Finish(id) ==
  /\ id \in running
  /\ running' = running \ {id}
  /\ \E ok \in BOOLEAN : Answer(id, ok)
  /\ UNCHANGED <<proxy, pulses, child, handlers, callVars, toChild, ran>>

-----------------------------------------------------------------------------
RpcSteps == \/ Start \/ Pulse \/ HandshakeReply \/ handleCallback \/ destroy \/ dispatch
            \/ \E id \in Calls : Finish(id)
            \/ \E m \in Methods : Register(m)

RpcNext == RpcSteps \/ \E id \in Calls, m \in Methods : request(id, m)

RpcSpec == RpcInit /\ [][RpcNext]_rpcVars

-----------------------------------------------------------------------------
(* Properties. *)

\* The iframe is kept laid out for exactly the calls that are pending: no path
\* out of a call forgets afterRequest or runs it twice (RpcHostClient.request).
AccessIsPending ==
  /\ rpcAccessCount = Cardinality(pending)
  /\ pending = {id \in Calls : promise[id] = "pending"}

Queued(q, P(_)) == \E i \in DOMAIN q : P(q[i])

OnItsWay(id) ==
  \/ Queued(toChild, LAMBDA m : m.id = id)
  \/ id \in running
  \/ Queued(toHost, LAMBDA m : m.kind = "callback" /\ m.id = id)

\* While the proxy is open, a pending call of a method on the model is on its
\* way: no message that settles it is lost (child-wrapper.ts, ows-wallet.ts).
ModelCallOnItsWay ==
  proxy = "open" => \A id \in pending : wanted[id] \in Model => OnItsWay(id)

\* Not so in the code: the same of every method, an unimplemented one being
\* answered with an error (ows-wallet.ts:411-426, README.md:124 of ows-provider).
\* A call of a method outside the model is dropped and pends until destroy.
EveryCallOnItsWay == proxy = "open" => \A id \in pending : OnItsWay(id)

\* destroy leaves no call of its time unsettled (RpcHostClient.destroy).
DestroySettles ==
  proxy = "destroyed" => \A id \in Calls : promise[id] = "pending" => id \in late

\* A page that starts while handshakes are still sent is connected.
ConnectsInTime == (child = "listening" /\ pulses > 0) ~> proxy # "creating"

\* Calls run at most once and are resolved by their own handler only.
Contract == INSTANCE RpcContract WITH
  called   <- {id \in Calls : promise[id] # "unused"},
  resolved <- {id \in Calls : promise[id] = "resolved"},
  rejected <- {id \in Calls : promise[id] = "rejected"}

ImplementsContract == Contract!ContractSpec
=============================================================================
