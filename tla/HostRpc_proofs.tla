---------------------------- MODULE HostRpc_proofs ----------------------------
(***************************************************************************)
(* The calls of the host page, with the Solana adapter among their callers:*)
(* for every number of calls, methods, applications and handshakes, the    *)
(* access counting is exact, destroy settles what was pending, no call of  *)
(* the model is lost, the wallet is listed exactly while it is registered, *)
(* and the RPC implements RpcContract.                                     *)
(*                                                                         *)
(* IInv is the invariant of the bookkeeping.  WayInv, on top of it,        *)
(* follows a call through the two queues: a message asks for the method    *)
(* its call was made for, and handlers are registered before the first     *)
(* call.                                                                   *)
(***************************************************************************)
EXTENDS SolanaWallet, SequenceTheorems, FiniteSetTheorems, TLAPS

\* The iframe is gone with everything that was under way.
GoneIsQuiet ==
  proxy = "destroyed" => toChild = <<>> /\ toHost = <<>> /\ running = {}

\* A call that has not reached the wallet is there once and has not run.
NotYetRun ==
  /\ \A i \in DOMAIN toChild : promise[toChild[i].id] # "unused" /\ toChild[i].id \notin ran
  /\ \A i, j \in DOMAIN toChild : toChild[i].id = toChild[j].id => i = j

\* Only handlers that were started answer with a success.
AnswersHaveRun ==
  /\ \A id \in ran : promise[id] # "unused"
  /\ running \subseteq ran
  /\ \A i \in DOMAIN toHost :
       toHost[i].kind = "callback" /\ toHost[i].ok => toHost[i].id \in ran

IInv == TypeOK /\ AccessIsPending /\ DestroySettles /\ GoneIsQuiet /\ NotYetRun /\ AnswersHaveRun

\* A step of the transport, or a call of a method of the page.
Step == RpcNext \/ UNCHANGED rpcVars

Called == [kind : {"call"}, id : Calls, method : Methods]
Told   == [kind : {"callback"}, id : Calls, ok : BOOLEAN] \cup {Reply}

-----------------------------------------------------------------------------
(* Queues. *)

LEMMA Appended ==
  ASSUME NEW S, NEW q \in Seq(S), NEW e \in S
  PROVE  /\ Append(q, e) \in Seq(S)
         /\ DOMAIN q = 1..Len(q) /\ DOMAIN Append(q, e) = 1..(Len(q) + 1)
         /\ \A i \in DOMAIN q : Append(q, e)[i] = q[i] /\ i # Len(q) + 1
         /\ Append(q, e)[Len(q) + 1] = e
         /\ \A i \in DOMAIN Append(q, e) : i \in DOMAIN q \/ i = Len(q) + 1
  OBVIOUS

LEMMA Delivered ==
  ASSUME NEW S, NEW q \in Seq(S), q # <<>>
  PROVE  /\ Tail(q) \in Seq(S) /\ Head(q) \in S
         /\ 1 \in DOMAIN q /\ q[1] = Head(q)
         /\ \A i \in DOMAIN Tail(q) : Tail(q)[i] = q[i + 1] /\ i + 1 \in DOMAIN q /\ i + 1 # 1
<1>1. /\ Tail(q) \in Seq(S) /\ Head(q) \in S
      /\ Len(Tail(q)) = Len(q) - 1
      /\ \A i \in 1..Len(Tail(q)) : Tail(q)[i] = q[i + 1]
  BY HeadTailProperties
<1>2. Len(q) \in Nat \ {0} /\ DOMAIN q = 1..Len(q) /\ DOMAIN Tail(q) = 1..Len(Tail(q))
  BY <1>1, EmptySeq
<1>3. q[1] = Head(q)
  BY <1>2, SubSeqFull, HeadTailOfSubSeq
<1> QED  BY <1>1, <1>2, <1>3

\* The calls that are not settled, after one call or many changed.
LEMMA PendingFinite ==
  ASSUME TypeOK
  PROVE  IsFiniteSet(pending) /\ Cardinality(pending) \in Nat
  BY CallsAssumption, FS_Subset, FS_CardinalityType DEF TypeOK

-----------------------------------------------------------------------------
(* The actions keep the invariant. *)

LEMMA InitInv == RpcInit => IInv
<1> SUFFICES ASSUME RpcInit
             PROVE  IInv
  OBVIOUS
<1>1. TypeOK
  BY PulsesAssumption DEF RpcInit, TypeOK
<1>2. AccessIsPending
  BY FS_EmptySet DEF RpcInit, AccessIsPending
<1>3. DestroySettles /\ GoneIsQuiet /\ NotYetRun /\ AnswersHaveRun
  BY DEF RpcInit, DestroySettles, GoneIsQuiet, NotYetRun, AnswersHaveRun
<1> QED  BY <1>1, <1>2, <1>3 DEF IInv

\* Start-up does not touch calls.
LEMMA StartUpKeeps ==
  ASSUME IInv, Start \/ \E m \in Methods : Register(m)
  PROVE  IInv'
  BY DEF IInv, Start, Register, TypeOK, AccessIsPending, DestroySettles, GoneIsQuiet,
         NotYetRun, AnswersHaveRun, callVars

LEMMA PulseKeeps ==
  ASSUME IInv, Pulse
  PROVE  IInv'
<1> USE DEF IInv
<1>1. toHost \in Seq(Told) /\ Reply \in Told
  BY DEF TypeOK, Told
<1>2. toHost' \in Seq(Told) /\ \A i \in DOMAIN toHost' :
        toHost'[i] = Reply \/ (i \in DOMAIN toHost /\ toHost'[i] = toHost[i])
  BY <1>1, Appended DEF Pulse
<1>3. TypeOK'
  BY <1>2 DEF Pulse, TypeOK, Told, callVars
<1>4. AnswersHaveRun'
  BY <1>2 DEF Pulse, AnswersHaveRun, Reply, callVars
<1>5. AccessIsPending' /\ DestroySettles' /\ GoneIsQuiet' /\ NotYetRun'
  BY DEF Pulse, AccessIsPending, DestroySettles, GoneIsQuiet, NotYetRun, callVars
<1> QED  BY <1>3, <1>4, <1>5

LEMMA HandshakeReplyKeeps ==
  ASSUME IInv, HandshakeReply
  PROVE  IInv'
<1> USE DEF IInv
<1>1. toHost \in Seq(Told) /\ toHost # <<>> /\ toHost' = Tail(toHost)
  BY DEF TypeOK, Told, HandshakeReply
<1>2. toHost' \in Seq(Told) /\ \A i \in DOMAIN toHost' :
        i + 1 \in DOMAIN toHost /\ toHost'[i] = toHost[i + 1]
  BY <1>1, Delivered
<1>3. TypeOK'
  BY <1>2 DEF HandshakeReply, TypeOK, Told, callVars
<1>4. AnswersHaveRun'
  BY <1>2 DEF HandshakeReply, AnswersHaveRun, callVars
<1>5. AccessIsPending' /\ DestroySettles' /\ GoneIsQuiet' /\ NotYetRun'
  BY DEF HandshakeReply, AccessIsPending, DestroySettles, GoneIsQuiet, NotYetRun, callVars
<1> QED  BY <1>3, <1>4, <1>5

\* A new call is pending, and not yet run.
LEMMA RequestKeeps ==
  ASSUME IInv, NEW id \in Calls, NEW m \in Methods, request(id, m)
  PROVE  IInv'
<1> USE DEF IInv
<1>1. promise[id] = "unused" /\ promise' = [promise EXCEPT ![id] = "pending"]
      /\ pending' = pending \cup {id} /\ rpcAccessCount' = rpcAccessCount + 1
      /\ ran' = ran /\ running' = running /\ toHost' = toHost /\ proxy' = proxy
  BY DEF request, NextCall
<1>2. id \notin pending /\ id \notin ran
  BY <1>1 DEF AccessIsPending, AnswersHaveRun
<1>3. AccessIsPending'
  <2>1. Cardinality(pending') = Cardinality(pending) + 1
    BY <1>1, <1>2, PendingFinite, FS_AddElement
  <2>2. pending' = {q \in Calls : promise'[q] = "pending"}
    BY <1>1 DEF AccessIsPending, TypeOK
  <2> QED  BY <1>1, <2>1, <2>2 DEF AccessIsPending
<1> DEFINE e == Request(id, m)
<1>4. toChild \in Seq(Called) /\ e \in Called /\ e.id = id
  BY DEF TypeOK, Called, Request
<1> HIDE DEF e
<1>5. toChild' = toChild \/ toChild' = Append(toChild, e)
  BY DEF request, e
<1>6. \A i \in DOMAIN toChild : toChild[i] \in Called
  BY <1>4
<1>7. \A i \in DOMAIN toChild : toChild[i].id # id
  BY <1>1 DEF NotYetRun
<1>8. NotYetRun' /\ toChild' \in Seq(Called)
  <2>1. \A i \in DOMAIN toChild : promise'[toChild[i].id] # "unused"
    BY <1>1, <1>6, <1>7 DEF NotYetRun, TypeOK, Called
  <2>2. promise'[id] # "unused"
    BY <1>1 DEF TypeOK
  <2>3. CASE toChild' = toChild
    BY <1>1, <1>4, <2>1, <2>3 DEF NotYetRun
  <2>4. CASE toChild' = Append(toChild, e)
    <3>1. /\ toChild' \in Seq(Called)
          /\ \A i \in DOMAIN toChild : toChild'[i] = toChild[i]
          /\ toChild'[Len(toChild) + 1] = e
          /\ \A i \in DOMAIN toChild' : i \in DOMAIN toChild \/ i = Len(toChild) + 1
      BY <1>4, <2>4, Appended
    <3>2. ASSUME NEW i \in DOMAIN toChild'
          PROVE  promise'[toChild'[i].id] # "unused" /\ toChild'[i].id \notin ran'
      BY <1>1, <1>2, <1>4, <2>1, <2>2, <3>1 DEF NotYetRun
    <3>3. ASSUME NEW i \in DOMAIN toChild', NEW j \in DOMAIN toChild',
                 toChild'[i].id = toChild'[j].id
          PROVE  i = j
      BY <1>4, <1>7, <3>1, <3>3 DEF NotYetRun
    <3> QED  BY <3>1, <3>2, <3>3 DEF NotYetRun
  <2> QED  BY <1>5, <2>3, <2>4
<1>9. TypeOK'
  <2>1. wanted' \in [Calls -> Methods \cup {None}] /\ late' \in SUBSET Calls
    BY DEF request, TypeOK
  <2> QED  BY <1>1, <1>8, <2>1 DEF request, TypeOK, Called
<1>10. DestroySettles'
  BY <1>1 DEF request, DestroySettles, TypeOK
<1>11. GoneIsQuiet' /\ AnswersHaveRun'
  BY <1>1, <1>2 DEF request, GoneIsQuiet, AnswersHaveRun, TypeOK
<1> QED  BY <1>3, <1>8, <1>9, <1>10, <1>11

\* An answer settles the call it names, if that is still pending.
LEMMA CallbackKeeps ==
  ASSUME IInv, handleCallback
  PROVE  IInv'
<1> USE DEF IInv
<1> DEFINE m == Head(toHost)
<1>1. toHost \in Seq(Told) /\ toHost # <<>> /\ toHost' = Tail(toHost)
  BY DEF TypeOK, Told, handleCallback
<1>2. toHost' \in Seq(Told) /\ \A i \in DOMAIN toHost' :
        i + 1 \in DOMAIN toHost /\ toHost'[i] = toHost[i + 1]
  BY <1>1, Delivered
<1>3. UNCHANGED <<proxy, pulses, child, handlers, wanted, late, toChild, running, ran>>
  BY DEF handleCallback
<1>4. CASE m.id \notin pending
  <2>1. UNCHANGED <<pending, rpcAccessCount, promise>>
    BY <1>4 DEF handleCallback
  <2>2. TypeOK'
    BY <1>2, <1>3, <2>1 DEF TypeOK, Told
  <2>3. AnswersHaveRun'
    BY <1>2, <1>3, <2>1 DEF AnswersHaveRun
  <2>4. AccessIsPending' /\ DestroySettles' /\ NotYetRun'
    BY <1>3, <2>1 DEF AccessIsPending, DestroySettles, NotYetRun
  <2>5. GoneIsQuiet'
    BY <1>1, <1>3 DEF GoneIsQuiet
  <2> QED  BY <2>2, <2>3, <2>4, <2>5
<1>5. CASE m.id \in pending
  <2>1. PICK v \in {"resolved", "rejected"} : promise' = [promise EXCEPT ![m.id] = v]
    BY <1>5 DEF handleCallback
  <2>2. pending' = pending \ {m.id} /\ rpcAccessCount' = rpcAccessCount - 1
    BY <1>5 DEF handleCallback
  <2>3. m.id \in Calls /\ promise[m.id] = "pending"
    BY <1>5 DEF AccessIsPending
  <2> HIDE DEF m
  <2>4. AccessIsPending'
    <3>1. pending' = {q \in Calls : promise'[q] = "pending"}
      BY <2>1, <2>2, <2>3 DEF AccessIsPending, TypeOK
    <3>2. Cardinality(pending') = Cardinality(pending) - 1
      BY <1>5, <2>2, PendingFinite, FS_RemoveElement
    <3> QED  BY <2>2, <3>1, <3>2 DEF AccessIsPending
  <2>5. rpcAccessCount' \in Nat
    <3>1. IsFiniteSet(pending')
      BY <2>2, PendingFinite, FS_RemoveElement
    <3> QED  BY <2>4, <3>1, FS_CardinalityType DEF AccessIsPending
  <2>6. TypeOK'
    BY <1>2, <1>3, <2>1, <2>2, <2>5 DEF TypeOK, Told
  <2>7. \A q \in Calls : promise'[q] = "unused" <=> promise[q] = "unused"
    BY <2>1, <2>3 DEF TypeOK
  <2>8. AnswersHaveRun'
    <3>1. ran \subseteq Calls
      BY DEF TypeOK
    <3> QED  BY <1>2, <1>3, <2>7, <3>1 DEF AnswersHaveRun
  <2>9. NotYetRun'
    <3>1. toChild \in Seq(Called)
      BY DEF TypeOK, Called
    <3>2. \A i \in DOMAIN toChild : toChild[i].id \in Calls
      <4>1. \A i \in DOMAIN toChild : toChild[i] \in Called
        BY <3>1
      <4> QED  BY <4>1 DEF Called
    <3>3. toChild' = toChild /\ ran' = ran
      BY <1>3
    <3> HIDE DEF IInv
    <3> QED  BY <2>7, <3>2, <3>3, IInv DEF IInv, NotYetRun
  <2>10. DestroySettles' /\ GoneIsQuiet'
    BY <1>1, <1>3, <2>1, <2>3 DEF DestroySettles, GoneIsQuiet, TypeOK
  <2> QED  BY <2>4, <2>6, <2>8, <2>9, <2>10
<1> QED  BY <1>4, <1>5

\* destroy rejects what is pending, and only that.
LEMMA DestroyKeeps ==
  ASSUME IInv, destroy
  PROVE  IInv'
<1> USE DEF IInv
<1>1. pending' = {} /\ rpcAccessCount' = 0
  <2>1. Cardinality(pending) \in Nat /\ rpcAccessCount = Cardinality(pending)
    BY PendingFinite DEF AccessIsPending
  <2> QED  BY <2>1 DEF destroy
<1>2. \A q \in Calls : promise'[q] # "pending"
  BY DEF destroy, AccessIsPending
<1>3. TypeOK'
  BY <1>1 DEF destroy, TypeOK
<1>4. AccessIsPending'
  <2>1. {q \in Calls : promise'[q] = "pending"} = {}
    BY <1>2
  <2> QED  BY <1>1, <2>1, FS_EmptySet DEF AccessIsPending
<1>5. DestroySettles' /\ GoneIsQuiet' /\ NotYetRun'
  BY <1>2 DEF destroy, DestroySettles, GoneIsQuiet, NotYetRun
<1>6. AnswersHaveRun'
  BY DEF destroy, AnswersHaveRun, AccessIsPending, TypeOK
<1> QED  BY <1>3, <1>4, <1>5, <1>6

\* A message that reaches the wallet leaves the others where they were.
LEMMA DispatchKeeps ==
  ASSUME IInv, dispatch
  PROVE  IInv'
<1> USE DEF IInv
<1> DEFINE m == Head(toChild)
<1>1. toChild \in Seq(Called) /\ toChild # <<>> /\ toChild' = Tail(toChild)
  BY DEF TypeOK, Called, dispatch
<1>2. /\ toChild' \in Seq(Called) /\ m \in Called /\ 1 \in DOMAIN toChild /\ toChild[1] = m
      /\ \A i \in DOMAIN toChild' :
           toChild'[i] = toChild[i + 1] /\ i + 1 \in DOMAIN toChild /\ i + 1 # 1
  BY <1>1, Delivered
<1>3. UNCHANGED <<proxy, pulses, child, handlers, callVars>>
  BY DEF dispatch
<1>4. m.id \in Calls /\ promise[m.id] # "unused" /\ m.id \notin ran
  BY <1>2 DEF NotYetRun, Called
<1>5. proxy # "destroyed"
  BY <1>1 DEF GoneIsQuiet
<1>6. /\ ran' \in {ran, ran \cup {m.id}} /\ running' \in {running, running \cup {m.id}}
      /\ running' # running => ran' = ran \cup {m.id}
      /\ toHost' \in {toHost, Append(toHost, Response(m.id, FALSE))}
  BY DEF dispatch, Answer
<1> HIDE DEF m
<1>7. AccessIsPending' /\ DestroySettles' /\ GoneIsQuiet'
  BY <1>3, <1>5 DEF AccessIsPending, DestroySettles, GoneIsQuiet, callVars
<1>8. NotYetRun'
  <2>1. ASSUME NEW i \in DOMAIN toChild'
        PROVE  promise'[toChild'[i].id] # "unused" /\ toChild'[i].id \notin ran'
    <3>1. toChild[i + 1].id # m.id
      BY <1>2 DEF NotYetRun
    <3> QED  BY <1>2, <1>3, <1>6, <3>1 DEF NotYetRun, callVars
  <2>2. ASSUME NEW i \in DOMAIN toChild', NEW j \in DOMAIN toChild',
               toChild'[i].id = toChild'[j].id
        PROVE  i = j
    <3>1. i + 1 = j + 1
      BY <1>2, <2>2 DEF NotYetRun
    <3>2. i \in Nat /\ j \in Nat
      BY <1>2
    <3> QED  BY <3>1, <3>2
  <2> QED  BY <2>1, <2>2 DEF NotYetRun
<1>9. toHost' \in Seq(Told) /\ AnswersHaveRun'
  <2>1. toHost \in Seq(Told) /\ Response(m.id, FALSE) \in Told
    BY <1>4 DEF TypeOK, Told, Response
  <2>2. toHost' \in Seq(Told) /\ \A i \in DOMAIN toHost' :
          \/ i \in DOMAIN toHost /\ toHost'[i] = toHost[i]
          \/ toHost'[i] = Response(m.id, FALSE)
    <3>1. CASE toHost' = toHost
      BY <2>1, <3>1
    <3>2. CASE toHost' = Append(toHost, Response(m.id, FALSE))
      <4>1. PICK e \in Told : e = Response(m.id, FALSE)
        BY <2>1
      <4>2. /\ Append(toHost, e) \in Seq(Told)
            /\ \A i \in DOMAIN toHost : Append(toHost, e)[i] = toHost[i]
            /\ Append(toHost, e)[Len(toHost) + 1] = e
            /\ \A i \in DOMAIN Append(toHost, e) : i \in DOMAIN toHost \/ i = Len(toHost) + 1
        BY <2>1, Appended
      <4> QED  BY <3>2, <4>1, <4>2
    <3> QED  BY <1>6, <3>1, <3>2
  <2>3. \A i \in DOMAIN toHost' :
          toHost'[i].kind = "callback" /\ toHost'[i].ok => toHost'[i].id \in ran'
    BY <1>6, <2>2 DEF AnswersHaveRun, Response
  <2>4. running' \subseteq ran' /\ \A q \in ran' : promise'[q] # "unused"
    BY <1>3, <1>4, <1>6 DEF AnswersHaveRun, callVars
  <2> QED  BY <2>2, <2>3, <2>4 DEF AnswersHaveRun
<1>10. TypeOK'
  BY <1>2, <1>3, <1>4, <1>6, <1>9 DEF TypeOK, Called, Told, callVars
<1> QED  BY <1>7, <1>8, <1>9, <1>10

LEMMA FinishKeeps ==
  ASSUME IInv, NEW id \in Calls, Finish(id)
  PROVE  IInv'
<1> USE DEF IInv
<1>1. PICK ok \in BOOLEAN : toHost' = Append(toHost, Response(id, ok))
  BY DEF Finish, Answer
<1>2. toHost \in Seq(Told) /\ Response(id, ok) \in Told
  BY DEF TypeOK, Told, Response
<1>3. toHost' \in Seq(Told) /\ \A i \in DOMAIN toHost' :
        \/ i \in DOMAIN toHost /\ toHost'[i] = toHost[i]
        \/ toHost'[i] = Response(id, ok)
  BY <1>1, <1>2, Appended
<1>4. TypeOK'
  BY <1>3 DEF Finish, TypeOK, Told, callVars
<1>5. id \in ran
  BY DEF Finish, AnswersHaveRun
<1>6. AnswersHaveRun'
  BY <1>3, <1>5 DEF Finish, AnswersHaveRun, Response, callVars
<1>7. AccessIsPending' /\ DestroySettles' /\ GoneIsQuiet' /\ NotYetRun'
  BY DEF Finish, AccessIsPending, DestroySettles, GoneIsQuiet, NotYetRun, callVars
<1> QED  BY <1>4, <1>6, <1>7

LEMMA StepInv == IInv /\ Step => IInv'
<1> SUFFICES ASSUME IInv, Step
             PROVE  IInv'
  OBVIOUS
<1>1. CASE UNCHANGED rpcVars
  BY <1>1 DEF rpcVars, IInv, TypeOK, AccessIsPending, DestroySettles, GoneIsQuiet, NotYetRun,
     AnswersHaveRun
<1> QED
  BY <1>1, StartUpKeeps, PulseKeeps, HandshakeReplyKeeps, RequestKeeps, CallbackKeeps,
     DestroyKeeps, DispatchKeeps, FinishKeeps DEF Step, RpcNext, RpcSteps

-----------------------------------------------------------------------------
(* Where a pending call is. *)

\* Before the handshake there are no calls and no messages.
NotYetConnected ==
  child # "connected" =>
    proxy = "creating" /\ pending = {} /\ toChild = <<>> /\ toHost = <<>> /\ running = {}

\* The message of a call asks for the method the call was made for.
AsksForWanted == \A i \in DOMAIN toChild : toChild[i].method = wanted[toChild[i].id]

\* ModelCallOnItsWay, from the first handshake on.
CallsOnTheirWay ==
  proxy # "destroyed" => \A id \in pending : wanted[id] \in Model => OnItsWay(id)

WayInv == NotYetConnected /\ AsksForWanted /\ CallsOnTheirWay

\* The three places a call may be in.
InChild(id) == \E i \in DOMAIN toChild : toChild[i].id = id
InHost(id)  == \E i \in DOMAIN toHost : toHost[i].kind = "callback" /\ toHost[i].id = id

LEMMA Places == \A id : OnItsWay(id) <=> InChild(id) \/ id \in running \/ InHost(id)
  BY DEF OnItsWay, Queued, InChild, InHost

\* An append loses nothing, and finds what it adds.
LEMMA AppendedCalls ==
  ASSUME IInv, NEW id
  PROVE  /\ \A m \in Called : toChild' = Append(toChild, m) =>
              InChild(id)' = (InChild(id) \/ m.id = id)
         /\ \A m \in Told : toHost' = Append(toHost, m) =>
              InHost(id)' = (InHost(id) \/ (m.kind = "callback" /\ m.id = id))
<1>0. toChild \in Seq(Called) /\ toHost \in Seq(Told)
  BY DEF IInv, TypeOK, Called, Told
<1>1. ASSUME NEW m \in Called, toChild' = Append(toChild, m)
      PROVE  InChild(id)' = (InChild(id) \/ m.id = id)
  <2>1. /\ Len(toChild) + 1 \in DOMAIN toChild'
        /\ \A i \in DOMAIN toChild : i \in DOMAIN toChild' /\ toChild'[i] = toChild[i]
        /\ toChild'[Len(toChild) + 1] = m
        /\ \A i \in DOMAIN toChild' : i \in DOMAIN toChild \/ i = Len(toChild) + 1
    BY <1>0, <1>1, Appended
  <2> QED  BY <2>1 DEF InChild
<1>2. ASSUME NEW m \in Told, toHost' = Append(toHost, m)
      PROVE  InHost(id)' = (InHost(id) \/ (m.kind = "callback" /\ m.id = id))
  <2>1. /\ Len(toHost) + 1 \in DOMAIN toHost'
        /\ \A i \in DOMAIN toHost : i \in DOMAIN toHost' /\ toHost'[i] = toHost[i]
        /\ toHost'[Len(toHost) + 1] = m
        /\ \A i \in DOMAIN toHost' : i \in DOMAIN toHost \/ i = Len(toHost) + 1
    BY <1>0, <1>2, Appended
  <2> QED  BY <2>1 DEF InHost
<1> QED  BY <1>1, <1>2

\* Delivery loses no message but the first.
LEMMA DeliveredCalls ==
  ASSUME IInv, NEW id
  PROVE  /\ toChild # <<>> /\ toChild' = Tail(toChild) /\ InChild(id) =>
              InChild(id)' \/ Head(toChild).id = id
         /\ toHost # <<>> /\ toHost' = Tail(toHost) /\ InHost(id) =>
              InHost(id)' \/ (Head(toHost).kind = "callback" /\ Head(toHost).id = id)
<1>0. toChild \in Seq(Called) /\ toHost \in Seq(Told)
  BY DEF IInv, TypeOK, Called, Told
<1>1. ASSUME toChild # <<>>, toChild' = Tail(toChild), InChild(id)
      PROVE  InChild(id)' \/ Head(toChild).id = id
  <2>1. PICK i \in DOMAIN toChild : toChild[i].id = id
    BY <1>1 DEF InChild
  <2>2. i = 1 => toChild[i] = Head(toChild)
    BY <1>0, <1>1, Delivered
  <2>3. i # 1 => i - 1 \in DOMAIN toChild' /\ toChild'[i - 1] = toChild[i]
    BY <1>0, <1>1
  <2> QED  BY <2>1, <2>2, <2>3 DEF InChild
<1>2. ASSUME toHost # <<>>, toHost' = Tail(toHost), InHost(id)
      PROVE  InHost(id)' \/ (Head(toHost).kind = "callback" /\ Head(toHost).id = id)
  <2>1. PICK i \in DOMAIN toHost : toHost[i].kind = "callback" /\ toHost[i].id = id
    BY <1>2 DEF InHost
  <2>2. i = 1 => toHost[i] = Head(toHost)
    BY <1>0, <1>2, Delivered
  <2>3. i # 1 => i - 1 \in DOMAIN toHost' /\ toHost'[i - 1] = toHost[i]
    BY <1>0, <1>2
  <2> QED  BY <2>1, <2>2, <2>3 DEF InHost
<1> QED  BY <1>1, <1>2

\* Before the handshake there is no call.
LEMMA WayInit == RpcInit => WayInv
  BY DEF RpcInit, WayInv, NotYetConnected, AsksForWanted, CallsOnTheirWay

\* Handlers are registered before there is a call they could answer.
LEMMA StartUpWay ==
  ASSUME IInv, WayInv, Start \/ \E m \in Methods : Register(m)
  PROVE  WayInv'
<1>1. child # "connected" /\ UNCHANGED <<proxy, callVars, toChild, toHost, running, ran>>
  BY DEF Start, Register
<1>2. pending = {} /\ UNCHANGED <<proxy, pending, wanted, toChild, toHost, running>>
  BY <1>1 DEF WayInv, NotYetConnected, callVars
<1> QED  BY <1>1, <1>2 DEF WayInv, NotYetConnected, AsksForWanted, CallsOnTheirWay

\* The handshake moves no call.
LEMMA HandshakeWay ==
  ASSUME IInv, WayInv, Pulse \/ HandshakeReply
  PROVE  WayInv'
<1>1. UNCHANGED <<pending, wanted, handlers, toChild, running>>
  BY DEF Pulse, HandshakeReply, callVars
<1>2. ASSUME NEW id, InHost(id)
      PROVE  InHost(id)'
  <2>1. CASE Pulse
    <3>1. toHost' = toHost \/ toHost' = Append(toHost, Reply)
      BY <2>1 DEF Pulse
    <3>2. Reply \in Told
      BY DEF Told
    <3>3. CASE toHost' = toHost
      BY <1>2, <3>3 DEF InHost
    <3> QED  BY <1>2, <3>1, <3>2, <3>3, AppendedCalls
  <2>2. CASE HandshakeReply
    <3>1. toHost # <<>> /\ toHost' = Tail(toHost) /\ Head(toHost).kind # "callback"
      BY <2>2 DEF HandshakeReply, Reply
    <3> QED  BY <1>2, <3>1, DeliveredCalls
  <2> QED  BY <2>1, <2>2
<1>3. AsksForWanted'
  BY <1>1 DEF WayInv, AsksForWanted
<1>4. NotYetConnected'
  <2>1. child' = child \/ child' = "connected"
    BY DEF Pulse, HandshakeReply
  <2>2. CASE child # "connected"
    <3>1. Pulse /\ (child' = "connected" \/ toHost' = toHost) /\ proxy' = proxy
      BY <2>2 DEF Pulse, HandshakeReply, WayInv, NotYetConnected
    <3> QED  BY <1>1, <3>1 DEF WayInv, NotYetConnected, Pulse
  <2> QED  BY <2>1, <2>2 DEF NotYetConnected
<1>5. proxy # "destroyed"
  BY DEF Pulse, HandshakeReply, IInv, GoneIsQuiet
<1>6. CallsOnTheirWay'
  <2> SUFFICES ASSUME NEW id \in pending, wanted[id] \in Model
               PROVE  OnItsWay(id)'
    BY <1>1 DEF CallsOnTheirWay, Model
  <2>1. InChild(id) \/ id \in running \/ InHost(id)
    BY <1>5, Places DEF WayInv, CallsOnTheirWay
  <2>2. (InChild(id) \/ id \in running \/ InHost(id))'
    BY <1>1, <1>2, <2>1 DEF InChild
  <2> QED  BY <2>2 DEF OnItsWay, Queued, InChild, InHost
<1> QED  BY <1>3, <1>4, <1>6 DEF WayInv

\* A call is made with its message.
LEMMA RequestWay ==
  ASSUME IInv, WayInv, NEW id \in Calls, NEW m \in Methods, request(id, m)
  PROVE  WayInv'
<1> DEFINE e == Request(id, m)
<1>1. /\ promise[id] = "unused" /\ pending' = pending \cup {id} /\ proxy # "creating"
      /\ wanted' = [wanted EXCEPT ![id] = m]
      /\ UNCHANGED <<proxy, child, handlers, toHost, running>>
  BY DEF request, NextCall
<1>2. e \in Called /\ e.id = id /\ e.method = m
  BY DEF Request, Called
<1>3. IF proxy = "open" THEN toChild' = Append(toChild, e) ELSE toChild' = toChild
  BY DEF request
<1> HIDE DEF e
<1>4. toChild \in Seq(Called) /\ wanted \in [Calls -> Methods \cup {None}]
  BY DEF IInv, TypeOK, Called
<1>5. child = "connected"
  BY <1>1 DEF WayInv, NotYetConnected
<1>6. \A i \in DOMAIN toChild : toChild[i].id # id
  BY <1>1 DEF IInv, NotYetRun
<1>7. \A q \in Calls : wanted'[q] = IF q = id THEN m ELSE wanted[q]
  BY <1>1, <1>4
<1>8. \A i \in DOMAIN toChild : toChild[i].id \in Calls
  <2>1. \A i \in DOMAIN toChild : toChild[i] \in Called
    BY <1>4
  <2> QED  BY <2>1 DEF Called
<1>9. AsksForWanted'
  <2>1. \A i \in DOMAIN toChild : toChild[i].method = wanted'[toChild[i].id]
    BY <1>6, <1>7, <1>8 DEF WayInv, AsksForWanted
  <2>2. CASE toChild' = toChild
    BY <2>1, <2>2 DEF AsksForWanted
  <2>3. CASE toChild' = Append(toChild, e)
    <3>1. /\ \A i \in DOMAIN toChild : toChild'[i] = toChild[i]
          /\ toChild'[Len(toChild) + 1] = e
          /\ \A i \in DOMAIN toChild' : i \in DOMAIN toChild \/ i = Len(toChild) + 1
      BY <1>2, <1>4, <2>3, Appended
    <3> QED  BY <1>2, <1>7, <2>1, <3>1 DEF AsksForWanted
  <2> QED  BY <1>3, <2>2, <2>3
<1>10. CallsOnTheirWay'
  <2> SUFFICES ASSUME proxy # "destroyed", NEW q \in pending', wanted'[q] \in Model
               PROVE  OnItsWay(q)'
    BY <1>1 DEF CallsOnTheirWay, Model
  <2>1. toChild' = Append(toChild, e)
    BY <1>1, <1>3 DEF IInv, TypeOK
  <2>2. CASE q = id
    <3>1. InChild(q)'
      BY <1>2, <2>1, <2>2, AppendedCalls
    <3> QED  BY <3>1 DEF OnItsWay, Queued, InChild, InHost
  <2>3. CASE q # id
    <3>1. q \in pending /\ q \in Calls
      BY <1>1, <2>3 DEF IInv, AccessIsPending
    <3>2. InChild(q) \/ q \in running \/ InHost(q)
      BY <1>7, <2>3, <3>1, Places DEF WayInv, CallsOnTheirWay
    <3>3. InChild(q)' \/ q \in running' \/ InHost(q)'
      BY <1>1, <1>2, <2>1, <3>2, AppendedCalls DEF InHost
    <3> QED  BY <3>3 DEF OnItsWay, Queued, InChild, InHost
  <2> QED  BY <2>2, <2>3
<1> QED  BY <1>1, <1>5, <1>9, <1>10 DEF WayInv, NotYetConnected

\* The answer that is taken off the queue settles the call it is of.
LEMMA CallbackWay ==
  ASSUME IInv, WayInv, handleCallback
  PROVE  WayInv'
<1> DEFINE m == Head(toHost)
<1>1. /\ toHost # <<>> /\ toHost' = Tail(toHost) /\ m.id \notin pending' /\ pending' \subseteq pending
      /\ UNCHANGED <<proxy, child, handlers, wanted, toChild, running>>
  BY DEF handleCallback
<1>2. child = "connected" /\ proxy # "destroyed"
  BY <1>1 DEF WayInv, NotYetConnected, IInv, GoneIsQuiet
<1>3. AsksForWanted' /\ NotYetConnected'
  BY <1>1, <1>2 DEF WayInv, AsksForWanted, NotYetConnected
<1>4. CallsOnTheirWay'
  <2> SUFFICES ASSUME NEW q \in pending', wanted[q] \in Model
               PROVE  OnItsWay(q)'
    BY <1>1 DEF CallsOnTheirWay, Model
  <2>1. InChild(q) \/ q \in running \/ InHost(q)
    BY <1>1, <1>2, Places DEF WayInv, CallsOnTheirWay
  <2>2. InHost(q) => InHost(q)'
    BY <1>1, DeliveredCalls
  <2>3. InChild(q)' \/ q \in running' \/ InHost(q)'
    BY <1>1, <2>1, <2>2 DEF InChild
  <2> QED  BY <2>3 DEF OnItsWay, Queued, InChild, InHost
<1> QED  BY <1>3, <1>4 DEF WayInv

\* destroy leaves nothing that could be on its way.
LEMMA DestroyWay ==
  ASSUME IInv, WayInv, destroy
  PROVE  WayInv'
  BY DEF destroy, WayInv, NotYetConnected, AsksForWanted, CallsOnTheirWay

\* A call that reaches the wallet is answered, or runs its handler, unless no
\* method of the model is what it wants.
LEMMA DispatchWay ==
  ASSUME IInv, WayInv, dispatch
  PROVE  WayInv'
<1> DEFINE m == Head(toChild)
<1>1. /\ toChild # <<>> /\ toChild' = Tail(toChild)
      /\ UNCHANGED <<proxy, child, handlers, pending, wanted>>
      /\ \/ m.method \notin Model /\ UNCHANGED <<toHost, running>>
         \/ toHost' = Append(toHost, Response(m.id, FALSE)) /\ running' = running
         \/ running' = running \cup {m.id} /\ toHost' = toHost
  BY DEF dispatch, callVars, Answer
<1>2. /\ m \in Called /\ 1 \in DOMAIN toChild /\ toChild[1] = m
      /\ \A i \in DOMAIN toChild' : toChild'[i] = toChild[i + 1] /\ i + 1 \in DOMAIN toChild
  <2>1. toChild \in Seq(Called)
    BY DEF IInv, TypeOK, Called
  <2> QED  BY <1>1, <2>1, Delivered
<1>3. child = "connected" /\ proxy # "destroyed"
  BY <1>1 DEF WayInv, NotYetConnected, IInv, GoneIsQuiet
<1>4. m.method = wanted[m.id] /\ m.id \in Calls
  BY <1>2 DEF WayInv, AsksForWanted, Called
<1> HIDE DEF m
<1>5. AsksForWanted' /\ NotYetConnected'
  BY <1>1, <1>2, <1>3 DEF WayInv, AsksForWanted, NotYetConnected
<1> DEFINE a == Response(m.id, FALSE)
<1>6. a \in Told /\ a.kind = "callback" /\ a.id = m.id
  BY <1>4 DEF Response, Told
<1>7. \/ m.method \notin Model /\ UNCHANGED <<toHost, running>>
      \/ toHost' = Append(toHost, a) /\ running' = running
      \/ running' = running \cup {m.id} /\ toHost' = toHost
  BY <1>1
<1> HIDE DEF a
<1>8. CallsOnTheirWay'
  <2> SUFFICES ASSUME NEW q \in pending, wanted[q] \in Model
               PROVE  OnItsWay(q)'
    BY <1>1 DEF CallsOnTheirWay, Model
  <2>1. InChild(q) \/ q \in running \/ InHost(q)
    BY <1>3, Places DEF WayInv, CallsOnTheirWay
  <2>2. InHost(q) => InHost(q)'
    <3>1. CASE toHost' = toHost
      BY <3>1 DEF InHost
    <3> QED  BY <1>6, <1>7, <3>1, AppendedCalls
  <2>3. q = m.id => InHost(q)' \/ q \in running'
    BY <1>4, <1>6, <1>7, AppendedCalls
  <2>4. InChild(q) => InChild(q)' \/ q = m.id
    BY <1>1, DeliveredCalls DEF m
  <2>5. InChild(q)' \/ q \in running' \/ InHost(q)'
    BY <1>7, <2>1, <2>2, <2>3, <2>4
  <2> QED  BY <2>5 DEF OnItsWay, Queued, InChild, InHost
<1> QED  BY <1>5, <1>8 DEF WayInv

\* A handler that ends is answered for.
LEMMA FinishWay ==
  ASSUME IInv, WayInv, NEW id \in Calls, Finish(id)
  PROVE  WayInv'
<1>1. PICK ok \in BOOLEAN : toHost' = Append(toHost, Response(id, ok))
  BY DEF Finish, Answer
<1>2. /\ id \in running /\ running' = running \ {id}
      /\ UNCHANGED <<proxy, child, handlers, pending, wanted, toChild>>
  BY DEF Finish, callVars
<1> DEFINE a == Response(id, ok)
<1>3. a \in Told /\ a.kind = "callback" /\ a.id = id /\ toHost' = Append(toHost, a)
  BY <1>1 DEF Response, Told
<1> HIDE DEF a
<1>4. child = "connected" /\ proxy # "destroyed"
  BY <1>2 DEF WayInv, NotYetConnected, IInv, GoneIsQuiet
<1>5. CallsOnTheirWay'
  <2> SUFFICES ASSUME NEW q \in pending, wanted[q] \in Model
               PROVE  OnItsWay(q)'
    BY <1>2 DEF CallsOnTheirWay, Model
  <2>1. InChild(q) \/ q \in running \/ InHost(q)
    BY <1>4, Places DEF WayInv, CallsOnTheirWay
  <2>2. InChild(q)' \/ q \in running' \/ InHost(q)'
    BY <1>2, <1>3, <2>1, AppendedCalls DEF InChild
  <2> QED  BY <2>2 DEF OnItsWay, Queued, InChild, InHost
<1> QED  BY <1>2, <1>4, <1>5 DEF WayInv, AsksForWanted, NotYetConnected

\* Every step of the RPC keeps the second invariant.
LEMMA WayStep == IInv /\ WayInv /\ Step => WayInv'
<1> SUFFICES ASSUME IInv, WayInv, Step
             PROVE  WayInv'
  OBVIOUS
<1>1. CASE UNCHANGED rpcVars
  BY <1>1 DEF rpcVars, WayInv, NotYetConnected, AsksForWanted, CallsOnTheirWay, OnItsWay,
     Queued, Model
<1> QED
  BY <1>1, StartUpWay, HandshakeWay, RequestWay, CallbackWay, DestroyWay, DispatchWay,
     FinishWay DEF Step, RpcNext, RpcSteps

-----------------------------------------------------------------------------
(* The contract. *)

LEMMA InitContract == RpcInit => Contract!ContractInit
  BY DEF RpcInit, Contract!ContractInit

\* Each step is a step of the contract, or none: a call, the start of a handler,
\* an answer, or the end of all that is open.
LEMMA StepContract ==
  IInv /\ Step =>
    [Contract!ContractNext]_<<{id \in Calls : promise[id] # "unused"}, ran,
                              {id \in Calls : promise[id] = "resolved"},
                              {id \in Calls : promise[id] = "rejected"}>>
<1> DEFINE called   == {id \in Calls : promise[id] # "unused"}
           resolved == {id \in Calls : promise[id] = "resolved"}
           rejected == {id \in Calls : promise[id] = "rejected"}
<1> SUFFICES ASSUME IInv, Step
             PROVE  Contract!ContractNext \/ UNCHANGED <<called, ran, resolved, rejected>>
  OBVIOUS
<1> USE DEF IInv
<1>1. CASE UNCHANGED <<promise, ran>>
  BY <1>1
<1>2. ASSUME NEW id \in Calls, NEW m \in Methods, request(id, m)
      PROVE  Contract!ContractNext
  <2>1. promise[id] = "unused" /\ promise' = [promise EXCEPT ![id] = "pending"] /\ ran' = ran
    BY <1>2 DEF request, NextCall
  <2>2. Contract!Call(id)
    BY <2>1 DEF Contract!Call, TypeOK
  <2> QED  BY <2>2 DEF Contract!ContractNext
<1>3. ASSUME handleCallback
      PROVE  Contract!ContractNext \/ UNCHANGED <<promise, ran>>
  <2> DEFINE m == Head(toHost)
  <2>1. CASE m.id \notin pending
    BY <1>3, <2>1 DEF handleCallback
  <2>2. CASE m.id \in pending
    <3>1. m.id \in Calls /\ promise[m.id] = "pending"
      BY <2>2 DEF AccessIsPending
    <3>2. toHost \in Seq(Told) /\ toHost # <<>> /\ m.kind = "callback" /\ ran' = ran
      BY <1>3 DEF handleCallback, TypeOK, Told
    <3>3. m.ok => m.id \in ran
      <4>1. 1 \in DOMAIN toHost /\ toHost[1] = m
        BY <3>2, Delivered
      <4> QED  BY <3>2, <4>1 DEF AnswersHaveRun
    <3>4. promise' = [promise EXCEPT ![m.id] = IF m.ok THEN "resolved" ELSE "rejected"]
      BY <1>3, <2>2 DEF handleCallback
    <3> HIDE DEF m
    <3>5. CASE m.ok
      <4>1. PICK id \in Calls : id = m.id
        BY <3>1
      <4>2. Contract!Resolve(id)
        BY <3>1, <3>2, <3>3, <3>4, <3>5, <4>1 DEF Contract!Resolve, TypeOK
      <4> QED  BY <4>2 DEF Contract!ContractNext
    <3>6. CASE ~ m.ok
      <4>1. PICK S \in SUBSET Calls : S = {m.id}
        BY <3>1
      <4>2. Contract!Reject(S)
        BY <3>1, <3>2, <3>4, <3>6, <4>1 DEF Contract!Reject, TypeOK
      <4> QED  BY <4>2 DEF Contract!ContractNext
    <3> QED  BY <3>5, <3>6
  <2> QED  BY <2>1, <2>2
<1>4. ASSUME destroy
      PROVE  Contract!ContractNext
  <2>1. PICK S \in SUBSET Calls : S = pending
    BY DEF TypeOK
  <2>2. Contract!Reject(S)
    BY <1>4, <2>1 DEF Contract!Reject, destroy, AccessIsPending, TypeOK
  <2> QED  BY <2>2 DEF Contract!ContractNext
<1>5. ASSUME dispatch
      PROVE  Contract!ContractNext \/ UNCHANGED <<promise, ran>>
  <2> DEFINE m == Head(toChild)
  <2>1. toChild \in Seq(Called) /\ toChild # <<>>
    BY <1>5 DEF TypeOK, Called, dispatch
  <2>2. m \in Called /\ 1 \in DOMAIN toChild /\ toChild[1] = m
    BY <2>1, Delivered
  <2>3. m.id \in Calls /\ promise[m.id] # "unused" /\ m.id \notin ran
    BY <2>2 DEF NotYetRun, Called
  <2>4. promise' = promise /\ (ran' = ran \/ ran' = ran \cup {m.id})
    BY <1>5 DEF dispatch, callVars
  <2> HIDE DEF m
  <2>5. CASE ran' = ran \cup {m.id}
    <3>1. Contract!Run(m.id)
      BY <2>3, <2>4, <2>5 DEF Contract!Run
    <3> QED  BY <2>3, <3>1 DEF Contract!ContractNext
  <2> QED  BY <2>4, <2>5
<1>6. \/ UNCHANGED rpcVars \/ Start \/ Pulse \/ HandshakeReply
      \/ (\E id \in Calls : Finish(id)) \/ (\E m \in Methods : Register(m))
      => UNCHANGED <<promise, ran>>
  BY DEF rpcVars, Start, Pulse, HandshakeReply, Finish, Register, callVars
<1> QED  BY <1>1, <1>2, <1>3, <1>4, <1>5, <1>6 DEF Step, RpcNext, RpcSteps

-----------------------------------------------------------------------------
(* The adapter only makes steps of the RPC. *)

\* A feature call that waits is of a feature, so that its next call is of a method.
OpInv == op \in [Ops -> [feature : Features \cup {None}, inputs : 0..MaxInputs, done : Nat,
                         call : Calls \cup {None},
                         state : {"unused", "waiting", "resolved", "rejected"}]]
         /\ \A o \in Ops : Waits(o) => op[o].feature \in Features /\ op[o].call \in Calls

LEMMA OpInit == SolanaInit => OpInv
  BY InputsAssumption DEF SolanaInit, OpInv, Unused, Waits

LEMMA OpStep == OpInv /\ [SolanaNext]_solanaVars => OpInv'
<1> SUFFICES ASSUME OpInv, [SolanaNext]_solanaVars
             PROVE  OpInv'
  OBVIOUS
<1>1. CASE UNCHANGED op
  BY <1>1 DEF OpInv, Waits
<1>2. ASSUME NEW o \in Ops,
             Fail(o) \/ Refuse(o) \/ Complete(o) \/ NextInput(o) \/ NextMalformed(o)
      PROVE  OpInv'
  <2>1. op[o].state = "waiting" /\ op[o].feature \in Features
    BY <1>2 DEF Fail, Refuse, Complete, NextInput, NextMalformed, OpInv, Waits
  <2>2. \/ op' = [op EXCEPT ![o].state = "rejected", ![o].call = None]
        \/ op' = [op EXCEPT ![o].state = "resolved", ![o].call = None, ![o].done = @ + 1]
        \/ op' = [op EXCEPT ![o].state = "rejected", ![o].call = None, ![o].done = @ + 1]
        \/ \E id \in Calls : op' = [op EXCEPT ![o].call = id, ![o].done = @ + 1]
    BY <1>2 DEF Fail, Refuse, Complete, NextInput, NextMalformed, Close
  <2>3. CASE op' = [op EXCEPT ![o].state = "rejected", ![o].call = None]
    BY <2>1, <2>3 DEF OpInv, Waits
  <2>4. CASE op' = [op EXCEPT ![o].state = "resolved", ![o].call = None, ![o].done = @ + 1]
    BY <2>1, <2>4 DEF OpInv, Waits
  <2>5. ASSUME NEW id \in Calls, op' = [op EXCEPT ![o].call = id, ![o].done = @ + 1]
        PROVE  OpInv'
    BY <2>1, <2>5 DEF OpInv, Waits
  <2>6. CASE op' = [op EXCEPT ![o].state = "rejected", ![o].call = None, ![o].done = @ + 1]
    BY <2>1, <2>6 DEF OpInv, Waits
  <2> QED  BY <2>2, <2>3, <2>4, <2>5, <2>6
<1>3. ASSUME NEW o \in Ops, NEW f \in Features, NEW n \in 0..MaxInputs,
             StartFeature(o, f, n) \/ Malformed(o, f, n)
      PROVE  OpInv'
  BY <1>3 DEF StartFeature, Malformed, OpInv, Waits
<1>4. Transport \/ OtherCall \/ Handlers => UNCHANGED op
  BY DEF Transport, OtherCall, Handlers, HandlerEnds, Broadcast, walletVars
<1>5. \/ Disconnect \/ registerSolanaWallet \/ unregisterSolanaWallet \/ Destroy
      \/ \E a \in Apps : AppReady(a)
      => UNCHANGED op
  BY DEF Disconnect, registerSolanaWallet, unregisterSolanaWallet, Destroy, AppReady, walletVars
<1>6. UNCHANGED solanaVars => UNCHANGED op
  BY DEF solanaVars, walletVars
<1> QED  BY <1>1, <1>2, <1>3, <1>4, <1>5, <1>6 DEF SolanaNext, Wallet

LEMMA SolanaStep == OpInv /\ [SolanaNext]_solanaVars => Step
<1> SUFFICES ASSUME OpInv, [SolanaNext]_solanaVars
             PROVE  Step
  OBVIOUS
<1>1. CASE Transport
  BY <1>1 DEF Transport, Step, RpcNext, RpcSteps
<1>2. CASE OtherCall
  BY <1>2 DEF OtherCall, Step, RpcNext
<1>3. ASSUME NEW o \in Ops, NextInput(o)
      PROVE  Step
  <2>1. Wire(op[o].feature) \in Methods
    BY <1>3, WiresAssumption DEF NextInput, OpInv
  <2> QED  BY <1>3, <2>1 DEF NextInput, Step, RpcNext
<1>4. ASSUME NEW o \in Ops, NEW f \in Features, NEW n \in 0..MaxInputs,
             StartFeature(o, f, n) \/ Malformed(o, f, n)
      PROVE  Step
  BY <1>4, WiresAssumption DEF StartFeature, Malformed, Step, RpcNext
<1>5. CASE Destroy
  BY <1>5 DEF Destroy, Step, RpcNext, RpcSteps
<1>6. CASE UNCHANGED rpcVars
  BY <1>6 DEF Step
<1>7. /\ \/ Disconnect \/ registerSolanaWallet \/ unregisterSolanaWallet
         \/ \E a \in Apps : AppReady(a)
         => UNCHANGED rpcVars
      /\ \A o \in Ops : Fail(o) \/ Refuse(o) \/ Complete(o) \/ NextMalformed(o) \/ Broadcast(o)
         => UNCHANGED rpcVars
      /\ UNCHANGED solanaVars => UNCHANGED rpcVars
  BY DEF Disconnect, registerSolanaWallet, unregisterSolanaWallet, AppReady, Fail, Refuse,
         Complete, NextMalformed, Broadcast, solanaVars
<1>8. ASSUME NEW id \in Calls, HandlerEnds(id)
      PROVE  Step
  BY <1>8 DEF HandlerEnds, Step, RpcNext, RpcSteps
<1> QED  BY <1>1, <1>2, <1>3, <1>4, <1>5, <1>6, <1>7, <1>8 DEF SolanaNext, Wallet, Handlers

-----------------------------------------------------------------------------
(* The inputs of signAndSendTransaction. *)

\* A success of the call is on its way, or has settled it.
SuccessInHost(id) == \E i \in DOMAIN toHost :
                       toHost[i].kind = "callback" /\ toHost[i].id = id /\ toHost[i].ok
Succeeded(id) == promise[id] = "resolved" \/ SuccessInHost(id)

\* Only a handler that ends makes a call succeed, and a new call has not.
LEMMA SuccessStep ==
  ASSUME IInv, Step, NEW id \in Calls, Succeeded(id)'
  PROVE  /\ Succeeded(id) \/ (Finish(id) /\ toHost' = Append(toHost, Response(id, TRUE)))
         /\ promise[id] # "unused"
<1> USE DEF Succeeded
<1>1. toHost \in Seq(Told) /\ promise \in [Calls -> {"unused", "pending", "resolved", "rejected"}]
  BY DEF IInv, TypeOK, Told
<1>2. ASSUME NEW m, toHost' = Append(toHost, m), m \in Told, SuccessInHost(id)'
      PROVE  SuccessInHost(id) \/ (m.kind = "callback" /\ m.id = id /\ m.ok)
  <2>1. PICK i \in DOMAIN toHost' :
          toHost'[i].kind = "callback" /\ toHost'[i].id = id /\ toHost'[i].ok
    BY <1>2 DEF SuccessInHost
  <2>2. toHost'[i] = m \/ (i \in DOMAIN toHost /\ toHost'[i] = toHost[i])
    BY <1>1, <1>2, Appended
  <2> QED  BY <2>1, <2>2 DEF SuccessInHost
<1>3. ASSUME toHost # <<>>, toHost' = Tail(toHost), SuccessInHost(id)'
      PROVE  SuccessInHost(id)
  <2>1. PICK i \in DOMAIN toHost' :
          toHost'[i].kind = "callback" /\ toHost'[i].id = id /\ toHost'[i].ok
    BY <1>3 DEF SuccessInHost
  <2>2. i + 1 \in DOMAIN toHost /\ toHost'[i] = toHost[i + 1]
    BY <1>1, <1>3, Delivered
  <2> QED  BY <2>1, <2>2 DEF SuccessInHost
<1>4. toHost' = toHost => (SuccessInHost(id)' => SuccessInHost(id))
  BY DEF SuccessInHost
<1>5. Succeeded(id) => promise[id] # "unused"
  BY DEF SuccessInHost, IInv, AnswersHaveRun
<1>6. CASE Pulse
  <2>1. promise' = promise /\ (toHost' = toHost \/ toHost' = Append(toHost, Reply))
    BY <1>6 DEF Pulse, callVars
  <2>2. Reply \in Told /\ Reply.kind # "callback"
    BY DEF Told, Reply
  <2> QED  BY <1>2, <1>4, <1>5, <2>1, <2>2
<1>7. CASE HandshakeReply
  BY <1>3, <1>5, <1>7 DEF HandshakeReply, callVars
<1>8. CASE handleCallback
  <2> DEFINE m == Head(toHost)
  <2>1. toHost # <<>> /\ toHost' = Tail(toHost) /\ m.kind = "callback"
        /\ 1 \in DOMAIN toHost /\ toHost[1] = m
    BY <1>1, <1>8, Delivered DEF handleCallback
  <2>2. \/ promise' = promise
        \/ promise' = [promise EXCEPT ![m.id] = IF m.ok THEN "resolved" ELSE "rejected"]
    BY <1>8 DEF handleCallback
  <2> HIDE DEF m
  <2>3. promise'[id] = "resolved" => promise[id] = "resolved" \/ (m.id = id /\ m.ok)
    BY <1>1, <2>2
  <2>4. m.id = id /\ m.ok => SuccessInHost(id)
    BY <2>1 DEF SuccessInHost
  <2> QED  BY <1>3, <1>5, <2>1, <2>3, <2>4
<1>9. CASE destroy
  <2>1. toHost' = <<>> /\ (promise'[id] = "resolved" => promise[id] = "resolved")
    BY <1>1, <1>9 DEF destroy
  <2>2. ~SuccessInHost(id)'
    BY <2>1 DEF SuccessInHost
  <2>3. promise[id] = "resolved"
    BY <2>1, <2>2
  <2> QED  BY <1>5, <2>3
<1>10. CASE dispatch
  <2> DEFINE m == Head(toChild)
  <2>1. toChild \in Seq(Called) /\ toChild # <<>>
    BY <1>10 DEF IInv, TypeOK, Called, dispatch
  <2>2. m \in Called
    BY <2>1, Delivered
  <2>3. promise' = promise /\ (toHost' = toHost \/ toHost' = Append(toHost, Response(m.id, FALSE)))
    BY <1>10 DEF dispatch, Answer, callVars
  <2> HIDE DEF m
  <2>4. Response(m.id, FALSE) \in Told /\ ~Response(m.id, FALSE).ok
    BY <2>2 DEF Told, Called, Response
  <2> QED  BY <1>2, <1>4, <1>5, <2>3, <2>4
<1>11. ASSUME NEW q \in Calls, Finish(q)
       PROVE  /\ Succeeded(id) \/ (Finish(id) /\ toHost' = Append(toHost, Response(id, TRUE)))
              /\ promise[id] # "unused"
  <2>1. PICK ok \in BOOLEAN : toHost' = Append(toHost, Response(q, ok))
    BY <1>11 DEF Finish, Answer
  <2>2. promise' = promise /\ promise[q] # "unused"
    BY <1>11 DEF Finish, callVars, IInv, AnswersHaveRun
  <2>3. Response(q, ok) \in Told /\ Response(q, ok).id = q /\ Response(q, ok).ok = ok
    BY DEF Told, Response
  <2>4. Succeeded(id) \/ (q = id /\ ok = TRUE)
    BY <1>2, <2>1, <2>2, <2>3
  <2> QED  BY <1>5, <1>11, <2>1, <2>2, <2>4
<1>12. ASSUME NEW q \in Calls, NEW m \in Methods, request(q, m)
       PROVE  Succeeded(id)
  <2>1. toHost' = toHost /\ (promise'[id] = "resolved" => promise[id] = "resolved")
    BY <1>1, <1>12 DEF request
  <2> QED  BY <1>4, <2>1
<1>13. Start \/ (\E m \in Methods : Register(m)) \/ UNCHANGED rpcVars
       => promise' = promise /\ toHost' = toHost
  BY DEF Start, Register, rpcVars, callVars
<1> QED  BY <1>4, <1>5, <1>6, <1>7, <1>8, <1>9, <1>10, <1>11, <1>12, <1>13
         DEF Step, RpcNext, RpcSteps

\* What the wallet has sent for a signAndSendTransaction: an input whose answer
\* is a success has been sent.
SentInv ==
  /\ sent \in [Ops -> Nat]
  /\ \A o \in Ops : op[o] = Unused => sent[o] = 0
  /\ \A o \in Ops : Sending(o) =>
       /\ op[o].done < op[o].inputs
       /\ Succeeded(op[o].call) => sent[o] = op[o].done + 1
  /\ SentAsReported

\* No input is sent before a feature is used.
LEMMA SentInit == SolanaInit => SentInv
  BY DEF SolanaInit, SentInv, SentAsReported, Unused, Sending, Waits

\* The part of SentInv about one feature call.
SentOf(o) ==
  /\ sent[o] \in Nat
  /\ op[o] = Unused => sent[o] = 0
  /\ Sending(o) => /\ op[o].done < op[o].inputs
                   /\ Succeeded(op[o].call) => sent[o] = op[o].done + 1
  /\ op[o].feature = "signAndSend" =>
       /\ op[o].state = "resolved" => sent[o] = op[o].inputs
       /\ sent[o] \in {op[o].done, op[o].done + 1} /\ sent[o] <= op[o].inputs

LEMMA SentByCall ==
  /\ SentInv => \A o \in Ops : SentOf(o)
  /\ sent' \in [Ops -> Nat] /\ (\A o \in Ops : SentOf(o)') => SentInv'
  BY DEF SentInv, SentOf, SentAsReported

\* A feature call stays as it is while other things happen, unless a handler of
\* its own sends, or ends with a success.
LEMMA SentKept ==
  ASSUME IInv, Step, OpInv, NEW o \in Ops, SentOf(o), op'[o] = op[o], sent'[o] = sent[o],
         (/\ Sending(o) /\ op[o].call \in running \ running' /\ proxy' = proxy
          /\ toHost' = Append(toHost, Response(op[o].call, TRUE))) => sent[o] > op[o].done
  PROVE  SentOf(o)'
<1>1. Sending(o)' <=> Sending(o)
  BY DEF Sending, Waits
<1>2. ASSUME Sending(o), Succeeded(op[o].call)'
      PROVE  sent[o] = op[o].done + 1
  <2>1. op[o].call \in Calls /\ op[o].feature = "signAndSend"
    BY <1>2 DEF OpInv, Sending
  <2>2. CASE Succeeded(op[o].call)
    BY <1>2, <2>2 DEF SentOf
  <2>3. CASE Finish(op[o].call) /\ toHost' = Append(toHost, Response(op[o].call, TRUE))
    <3>1. sent[o] > op[o].done /\ sent[o] \in {op[o].done, op[o].done + 1}
      BY <1>2, <2>1, <2>3 DEF SentOf, Finish
    <3>2. op[o].done \in Nat
      BY DEF OpInv
    <3> QED  BY <3>1, <3>2
  <2>p. PICK c \in Calls : c = op[o].call
    BY <2>1
  <2>4. Succeeded(c)'
    BY <1>2, <2>p DEF Succeeded, SuccessInHost
  <2>5. Succeeded(c) \/ (Finish(c) /\ toHost' = Append(toHost, Response(c, TRUE)))
    BY <2>4, SuccessStep
  <2> QED  BY <2>2, <2>3, <2>5, <2>p
<1> QED  BY <1>1, <1>2 DEF SentOf, Succeeded, SuccessInHost

\* Only handlers send, one input per call; what a call that ends has sent stays.
LEMMA SentStep == IInv /\ OpInv /\ SentInv /\ [SolanaNext]_solanaVars => SentInv'
<1> SUFFICES ASSUME IInv, OpInv, SentInv, [SolanaNext]_solanaVars
             PROVE  SentInv'
  OBVIOUS
<1>0. Step /\ \A q \in Ops : SentOf(q)
  BY SolanaStep, SentByCall
<1>s. sent \in [Ops -> Nat]
  BY DEF SentInv
<1>u. Unused.state = "unused"
  BY DEF Unused
<1>n. \A o \in Ops : op[o].inputs \in Nat /\ op[o].done \in Nat
  BY InputsAssumption DEF OpInv
\* A feature call that makes no step keeps its part while no handler ends.
<1>k. ASSUME NEW q \in Ops, op'[q] = op[q], sent'[q] = sent[q],
             running \subseteq running' \/ proxy' # proxy
      PROVE  SentOf(q)'
  BY <1>0, <1>k, SentKept
<1>1. CASE /\ UNCHANGED <<op, sent>>
           /\ running \subseteq running' \/ proxy' # proxy
  BY <1>1, <1>k, <1>s, SentByCall
<1>2. ASSUME NEW id \in Calls, HandlerEnds(id)
      PROVE  SentInv'
  <2>1. UNCHANGED <<op, sent>> /\ running' = running \ {id}
    BY <1>2 DEF HandlerEnds, Finish, walletVars
  <2>2. ASSUME NEW q \in Ops, Sending(q), op[q].call \in running \ running',
               toHost' = Append(toHost, Response(op[q].call, TRUE))
        PROVE  sent[q] > op[q].done
    <3>1. op[q].call = id
      BY <2>1, <2>2
    <3> QED  BY <1>2, <2>2, <3>1 DEF HandlerEnds
  <2>3. ASSUME NEW q \in Ops
        PROVE  SentOf(q)'
    BY <1>0, <2>1, <2>2, SentKept
  <2> QED  BY <1>s, <2>1, <2>3, SentByCall
<1>3. ASSUME NEW o \in Ops, Broadcast(o)
      PROVE  SentInv'
  <2>1. /\ Sending(o) /\ sent[o] = op[o].done /\ op' = op /\ UNCHANGED rpcVars
        /\ sent' = [sent EXCEPT ![o] = @ + 1]
    BY <1>3 DEF Broadcast
  <2>2. running' = running
    BY <2>1 DEF rpcVars
  <2>3. sent' \in [Ops -> Nat] /\ sent'[o] = op[o].done + 1
        /\ \A q \in Ops \ {o} : sent'[q] = sent[q]
    BY <1>n, <1>s, <2>1
  <2>4. SentOf(o)'
    <3>1. /\ op[o].state = "waiting" /\ op[o].done < op[o].inputs
          /\ op[o].feature = "signAndSend"
      BY <1>0, <2>1 DEF SentOf, Sending, Waits
    <3>2. op'[o] # Unused
      BY <1>u, <2>1, <3>1
    <3> QED  BY <1>n, <2>1, <2>3, <3>1, <3>2 DEF SentOf
  <2>5. \A q \in Ops \ {o} : SentOf(q)'
    BY <1>k, <2>1, <2>2, <2>3
  <2> QED  BY <2>3, <2>4, <2>5, SentByCall
<1>4. ASSUME NEW o \in Ops, Fail(o) \/ Refuse(o)
      PROVE  SentInv'
  <2>1. /\ op[o].state = "waiting" /\ sent' = sent /\ UNCHANGED rpcVars
        /\ op' = [op EXCEPT ![o].state = "rejected", ![o].call = None]
    BY <1>4 DEF Fail, Refuse, Close, Waits
  <2>2. /\ op'[o].feature = op[o].feature /\ op'[o].inputs = op[o].inputs
        /\ op'[o].state = "rejected" /\ op'[o].done = op[o].done
        /\ \A q \in Ops \ {o} : op'[q] = op[q]
    BY <2>1 DEF OpInv
  <2>3. op'[o] # Unused /\ running' = running
    BY <1>u, <2>1, <2>2 DEF rpcVars
  <2>4. SentOf(o)'
    BY <1>0, <2>1, <2>2, <2>3 DEF SentOf, Sending, Waits
  <2>5. \A q \in Ops \ {o} : SentOf(q)'
    BY <1>k, <2>1, <2>2, <2>3
  <2> QED  BY <1>s, <2>1, <2>4, <2>5, SentByCall
\* An answer that was accepted is the answer to an input that was sent.
<1>5. ASSUME NEW o \in Ops, Waits(o), promise[op[o].call] = "resolved",
             op[o].feature = "signAndSend"
      PROVE  sent[o] = op[o].done + 1 /\ op[o].done < op[o].inputs
  BY <1>0, <1>5 DEF SentOf, Sending, Succeeded
<1>6. ASSUME NEW o \in Ops, Complete(o) \/ NextMalformed(o)
      PROVE  SentInv'
  <2>1. /\ Waits(o) /\ promise[op[o].call] = "resolved" /\ sent' = sent /\ UNCHANGED rpcVars
        /\ \/ /\ Last(o)
              /\ op' = [op EXCEPT ![o].state = "resolved", ![o].call = None, ![o].done = @ + 1]
           \/ op' = [op EXCEPT ![o].state = "rejected", ![o].call = None, ![o].done = @ + 1]
    BY <1>6 DEF Complete, NextMalformed
  <2>2. /\ op'[o].feature = op[o].feature /\ op'[o].inputs = op[o].inputs
        /\ op'[o].done = op[o].done + 1 /\ \A q \in Ops \ {o} : op'[q] = op[q]
        /\ op'[o].state = "rejected" \/ (op'[o].state = "resolved" /\ Last(o))
    BY <2>1 DEF OpInv, Waits
  <2>3. op'[o] # Unused /\ running' = running
    BY <1>u, <2>1, <2>2 DEF rpcVars
  <2>4. SentOf(o)'
    <3>1. CASE op[o].feature = "signAndSend"
      <4>1. sent[o] = op[o].done + 1 /\ op[o].done < op[o].inputs
        BY <1>5, <2>1, <3>1
      <4>2. Last(o) => op[o].done + 1 >= op[o].inputs
        BY <3>1 DEF Last, PerInput
      <4> QED  BY <1>n, <1>s, <2>1, <2>2, <2>3, <4>1, <4>2 DEF SentOf, Sending, Waits
    <3>2. CASE op[o].feature # "signAndSend"
      BY <1>s, <2>1, <2>2, <2>3, <3>2 DEF SentOf, Sending
    <3> QED  BY <3>1, <3>2
  <2>5. \A q \in Ops \ {o} : SentOf(q)'
    BY <1>k, <2>1, <2>2, <2>3
  <2> QED  BY <1>s, <2>1, <2>4, <2>5, SentByCall
\* A new call has not succeeded.
<1>7. ASSUME NEW id \in Calls, NEW m, request(id, m)
      PROVE  ~Succeeded(id)' /\ running' = running
  BY <1>0, <1>7, SuccessStep DEF request, NextCall
<1>8. ASSUME NEW o \in Ops, NextInput(o)
      PROVE  SentInv'
  <2>1. PICK id \in Calls : /\ request(id, Wire(op[o].feature))
                            /\ op' = [op EXCEPT ![o].call = id, ![o].done = @ + 1]
    BY <1>8 DEF NextInput
  <2>2. Waits(o) /\ promise[op[o].call] = "resolved" /\ ~Last(o) /\ sent' = sent
    BY <1>8 DEF NextInput
  <2>3. /\ op'[o].feature = op[o].feature /\ op'[o].inputs = op[o].inputs
        /\ op'[o].state = "waiting" /\ op'[o].done = op[o].done + 1 /\ op'[o].call = id
        /\ \A q \in Ops \ {o} : op'[q] = op[q]
    BY <2>1, <2>2 DEF OpInv, Waits
  <2>4. op'[o] # Unused /\ running' = running /\ ~Succeeded(id)'
    BY <1>7, <1>u, <2>1, <2>3
  <2>5. ~Succeeded(op[o].call)'
    BY <2>3, <2>4 DEF Succeeded, SuccessInHost
  <2>6. SentOf(o)'
    <3>1. CASE op[o].feature = "signAndSend"
      <4>1. sent[o] = op[o].done + 1 /\ op[o].done + 1 < op[o].inputs
        BY <1>5, <1>n, <2>2, <3>1 DEF Last
      <4> QED  BY <1>n, <1>s, <2>2, <2>3, <2>4, <2>5, <4>1 DEF SentOf, Sending, Waits
    <3>2. CASE op[o].feature # "signAndSend"
      BY <1>s, <2>2, <2>3, <2>4, <3>2 DEF SentOf, Sending
    <3> QED  BY <3>1, <3>2
  <2>7. \A q \in Ops \ {o} : SentOf(q)'
    BY <1>k, <2>2, <2>3, <2>4
  <2> QED  BY <1>s, <2>2, <2>6, <2>7, SentByCall
<1>9. ASSUME NEW o \in Ops, NEW f \in Features, NEW n \in 0..MaxInputs,
             StartFeature(o, f, n) \/ Malformed(o, f, n)
      PROVE  SentInv'
  <2>1. PICK c \in Calls \cup {None}, st \in {"waiting", "rejected"} :
          /\ op' = [op EXCEPT ![o] = [feature |-> f, inputs |-> n, done |-> 0,
                                      call |-> c, state |-> st]]
          /\ st = "waiting" => request(c, Wire(f)) /\ c \in Calls
          /\ st = "rejected" => UNCHANGED rpcVars
    BY <1>9 DEF StartFeature, Malformed
  <2>2. op[o] = Unused /\ sent' = sent /\ (f = "signAndSend" => n > 0) /\ n \in Nat
    BY <1>9, InputsAssumption DEF StartFeature, Malformed
  <2>3. /\ op'[o].feature = f /\ op'[o].inputs = n /\ op'[o].done = 0
        /\ op'[o].state = st /\ op'[o].call = c /\ \A q \in Ops \ {o} : op'[q] = op[q]
    BY <2>1 DEF OpInv
  <2>4. op'[o] # Unused /\ sent[o] = 0
    BY <1>0, <1>u, <2>2, <2>3 DEF SentOf
  <2>5. running' = running /\ (st = "waiting" => ~Succeeded(c)')
    BY <1>7, <2>1 DEF rpcVars
  <2>6. st = "waiting" => ~Succeeded(op[o].call)'
    BY <2>3, <2>5 DEF Succeeded, SuccessInHost
  <2>7. SentOf(o)'
    BY <2>2, <2>3, <2>4, <2>6 DEF SentOf, Sending, Waits
  <2>8. \A q \in Ops \ {o} : SentOf(q)'
    BY <1>k, <2>2, <2>3, <2>5
  <2> QED  BY <1>s, <2>2, <2>7, <2>8, SentByCall
<1>10. Transport \/ OtherCall =>
         UNCHANGED <<op, sent>> /\ (running \subseteq running' \/ proxy' # proxy)
  BY DEF Transport, OtherCall, walletVars, Start, Pulse, HandshakeReply, handleCallback, dispatch,
         Register, request
<1>11. \/ Disconnect \/ registerSolanaWallet \/ unregisterSolanaWallet
       \/ \E a \in Apps : AppReady(a)
       => UNCHANGED <<op, sent, running>>
  BY DEF Disconnect, registerSolanaWallet, unregisterSolanaWallet, AppReady, walletVars, rpcVars
<1>12. Destroy => UNCHANGED <<op, sent>> /\ proxy' # proxy
  BY DEF Destroy, destroy, walletVars
<1>13. UNCHANGED solanaVars => UNCHANGED <<op, sent, running>>
  BY DEF solanaVars, walletVars, rpcVars
<1> QED  BY <1>1, <1>2, <1>3, <1>4, <1>6, <1>8, <1>9, <1>10, <1>11, <1>12, <1>13
         DEF SolanaNext, Wallet, Handlers

-----------------------------------------------------------------------------
(* The applications that list the wallet. *)

\* Every application of the page lists the wallet while it is registered, and none
\* does otherwise, in whatever order applications start and the wallet registers,
\* unregisters or is destroyed (SolanaHostClient.ts registerSolanaWallet,
\* unregisterSolanaWallet).
ListedWhileRegistered == listed = IF registered THEN ready ELSE {}

\* What the host client remembers of it: it listens while it is registered, and it
\* can undo every registration.
ListInv ==
  /\ registered \in BOOLEAN
  /\ listening = registered
  /\ ready \in SUBSET Apps
  /\ unregisterFns = listed
  /\ ListedWhileRegistered

LEMMA ListInit == SolanaInit => ListInv
  BY DEF SolanaInit, ListInv, ListedWhileRegistered

LEMMA ListStep == ListInv /\ [SolanaNext]_solanaVars => ListInv'
<1> SUFFICES ASSUME ListInv, [SolanaNext]_solanaVars
             PROVE  ListInv'
  OBVIOUS
<1> USE DEF ListInv, ListedWhileRegistered
<1>1. CASE UNCHANGED listVars
  BY <1>1 DEF listVars
<1>2. CASE registerSolanaWallet
  BY <1>2 DEF registerSolanaWallet, RegisterWith
<1>3. CASE unregisterSolanaWallet \/ Destroy
  BY <1>3 DEF unregisterSolanaWallet, Destroy, Unlist
<1>4. ASSUME NEW a \in Apps, AppReady(a)
      PROVE  ListInv'
  BY <1>4 DEF AppReady, RegisterWith
<1>5. /\ Transport \/ OtherCall \/ Handlers \/ Disconnect \/ UNCHANGED solanaVars
         => UNCHANGED listVars
      /\ \A o \in Ops : Fail(o) \/ Refuse(o) \/ Complete(o) \/ NextInput(o) \/ NextMalformed(o)
         => UNCHANGED listVars
      /\ \A o \in Ops, f \in Features, n \in 0..MaxInputs :
           StartFeature(o, f, n) \/ Malformed(o, f, n) => UNCHANGED listVars
  BY DEF Transport, OtherCall, Handlers, HandlerEnds, Broadcast, Disconnect, solanaVars, Fail,
         Refuse, Complete, NextInput, NextMalformed, StartFeature, Malformed
<1> QED  BY <1>1, <1>2, <1>3, <1>4, <1>5 DEF SolanaNext, Wallet

-----------------------------------------------------------------------------
(* The types of the wallet. *)

\* The account is one the Branding Layer answered with, and only calls of
\* signAndSendTransaction send.
AccountInv == /\ accounts \in Addresses \cup {None}
              /\ \A o \in Ops : op[o].feature # "signAndSend" => sent[o] = 0

LEMMA AccountInit == SolanaInit => AccountInv
  BY DEF SolanaInit, AccountInv

LEMMA AccountStep == OpInv /\ SentInv /\ AccountInv /\ [SolanaNext]_solanaVars => AccountInv'
<1> SUFFICES ASSUME OpInv, SentInv, AccountInv, [SolanaNext]_solanaVars
             PROVE  AccountInv'
  OBVIOUS
<1> USE DEF AccountInv
<1>1. CASE UNCHANGED <<op, sent>> /\ accounts' \in {accounts, None}
  BY <1>1
<1>2. ASSUME NEW o \in Ops,
             Fail(o) \/ Refuse(o) \/ Complete(o) \/ NextInput(o) \/ NextMalformed(o)
      PROVE  AccountInv'
  <2>1. op[o].state = "waiting" /\ sent' = sent
    BY <1>2 DEF Fail, Refuse, Complete, NextInput, NextMalformed, Waits
  <2>2. \/ op' = [op EXCEPT ![o].state = "rejected", ![o].call = None]
        \/ op' = [op EXCEPT ![o].state = "resolved", ![o].call = None, ![o].done = @ + 1]
        \/ op' = [op EXCEPT ![o].state = "rejected", ![o].call = None, ![o].done = @ + 1]
        \/ \E id \in Calls : op' = [op EXCEPT ![o].call = id, ![o].done = @ + 1]
    BY <1>2 DEF Fail, Refuse, Complete, NextInput, NextMalformed, Close
  <2>3. op'[o].feature = op[o].feature /\ \A q \in Ops \ {o} : op'[q] = op[q]
    BY <2>2 DEF OpInv
  <2>4. accounts' = accounts \/ Accept(o)
    BY <1>2 DEF Fail, Refuse, Complete, NextInput, NextMalformed
  <2>5. accounts' \in Addresses \cup {None}
    BY <2>4 DEF Accept
  <2> QED  BY <2>1, <2>3, <2>5
<1>3. ASSUME NEW o \in Ops, NEW f \in Features, NEW n \in 0..MaxInputs,
             StartFeature(o, f, n) \/ Malformed(o, f, n)
      PROVE  AccountInv'
  <2>1. /\ op[o] = Unused /\ UNCHANGED <<accounts, sent>>
        /\ \A q \in Ops \ {o} : op'[q] = op[q]
    BY <1>3 DEF StartFeature, Malformed, OpInv
  <2> QED  BY <2>1 DEF SentInv
<1>4. ASSUME NEW o \in Ops, Broadcast(o)
      PROVE  AccountInv'
  BY <1>4 DEF Broadcast, Sending, Waits, SentInv
<1>5. \/ Transport \/ OtherCall \/ (\E id \in Calls : HandlerEnds(id)) \/ Disconnect
      \/ registerSolanaWallet \/ unregisterSolanaWallet
      \/ Destroy \/ (\E a \in Apps : AppReady(a)) \/ UNCHANGED solanaVars
      => UNCHANGED <<op, sent>> /\ accounts' \in {accounts, None}
  BY DEF Transport, OtherCall, HandlerEnds, Disconnect, registerSolanaWallet,
         unregisterSolanaWallet, Destroy, AppReady, walletVars, solanaVars
<1> QED  BY <1>1, <1>2, <1>3, <1>4, <1>5 DEF SolanaNext, Wallet, Handlers

\* No feature call sends more inputs than the application gave it.
NeverMoreThanGiven == \A o \in Ops : sent[o] <= op[o].inputs

\* What the invariants of the parts say of the whole.
LEMMA WalletTypes ==
  ASSUME IInv, OpInv, SentInv, AccountInv, ListInv
  PROVE  WalletTypeOK /\ NeverMoreThanGiven
<1>1. ASSUME NEW o \in Ops
      PROVE  sent[o] \in 0..MaxInputs /\ sent[o] <= op[o].inputs
  <2>1. sent[o] \in Nat /\ op[o].inputs \in 0..MaxInputs
    BY DEF SentInv, OpInv
  <2>2. sent[o] = 0 \/ sent[o] <= op[o].inputs
    BY <2>1 DEF SentInv, SentAsReported, AccountInv
  <2> QED  BY <2>1, <2>2, InputsAssumption
<1>2. sent \in [Ops -> 0..MaxInputs]
  BY <1>1 DEF SentInv
<1>3. /\ registered \in BOOLEAN /\ listening \in BOOLEAN
      /\ ready \in SUBSET Apps /\ listed \in SUBSET Apps /\ unregisterFns \in SUBSET Apps
  BY DEF ListInv, ListedWhileRegistered
<1> QED  BY <1>1, <1>2, <1>3 DEF WalletTypeOK, NeverMoreThanGiven, IInv, OpInv, AccountInv

-----------------------------------------------------------------------------
(* Theorems. *)

\* The iframe is kept laid out for exactly the calls that are pending, whoever
\* makes them.
THEOREM AccessCorrect == SolanaSpec => []AccessIsPending
<1>1. IInv => AccessIsPending
  BY DEF IInv
<1> QED  BY <1>1, InitInv, StepInv, OpInit, OpStep, SolanaStep, PTL
         DEF SolanaSpec, SolanaInit

\* destroy leaves no call of its time pending.
THEOREM DestroyCorrect == SolanaSpec => []DestroySettles
<1>1. IInv => DestroySettles
  BY DEF IInv
<1> QED  BY <1>1, InitInv, StepInv, OpInit, OpStep, SolanaStep, PTL
         DEF SolanaSpec, SolanaInit

\* A handler runs at most once for a call, a promise settles at most once, and it
\* is resolved by its own handler only.
THEOREM RpcContractCorrect == SolanaSpec => ImplementsContract
  BY InitInv, InitContract, StepInv, StepContract, OpInit, OpStep, SolanaStep, PTL
     DEF SolanaSpec, SolanaInit, ImplementsContract, Contract!ContractSpec

\* While the proxy is open, a pending call of a method on the model is on its way
\* to the wallet, in a handler, or on its way back.
THEOREM OnItsWayCorrect == SolanaSpec => []ModelCallOnItsWay
<1>1. WayInv => ModelCallOnItsWay
  BY DEF WayInv, CallsOnTheirWay, ModelCallOnItsWay
<1> QED  BY <1>1, InitInv, StepInv, WayInit, WayStep, OpInit, OpStep, SolanaStep, PTL
         DEF SolanaSpec, SolanaInit

\* signAndSendTransaction resolves when the wallet has sent every input, and the
\* wallet never sends beyond the input under way, nor one of them twice, however
\* the call ends (standard-wallet.ts).
THEOREM SentCorrect == SolanaSpec => []SentAsReported
<1>1. SentInv => SentAsReported
  BY DEF SentInv
<1> QED  BY <1>1, InitInv, StepInv, SolanaStep, OpInit, OpStep, SentInit, SentStep, PTL
         DEF SolanaSpec, SolanaInit

\* Every variable of the proxy, the RPC and the wallet keeps its type, and no
\* feature call sends more inputs than the application gave it.
THEOREM TypeCorrect == SolanaSpec => [](WalletTypeOK /\ NeverMoreThanGiven)
<1>1. IInv /\ OpInv /\ SentInv /\ AccountInv /\ ListInv => WalletTypeOK /\ NeverMoreThanGiven
  BY WalletTypes
<1> QED  BY <1>1, InitInv, StepInv, OpInit, OpStep, SolanaStep, SentInit, SentStep,
            AccountInit, AccountStep, ListInit, ListStep, PTL
         DEF SolanaSpec, SolanaInit

\* An application of the page lists the wallet exactly while it is registered.
THEOREM ListedCorrect == SolanaSpec => []ListedWhileRegistered
<1>1. ListInv => ListedWhileRegistered
  BY DEF ListInv
<1> QED  BY <1>1, ListInit, ListStep, PTL DEF SolanaSpec
=============================================================================
