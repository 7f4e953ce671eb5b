-------------------------- MODULE SignerClient_proofs --------------------------
(***************************************************************************)
(* What the Branding Layer's client keeps, for every number of calls and   *)
(* every set of methods and keys.  Two invariants, the second on top of    *)
(* the first; below them, that a call resolves with its own answer only,   *)
(* and that the variables keep their types.                                *)
(*                                                                         *)
(* IInv: a call made before the last clearSession has no pending entry any *)
(* more, and only calls that have one write the caches.  Hence nothing of  *)
(* an earlier call comes back into them.                                   *)
(*                                                                         *)
(* QueueInv: every message is about a call that was made, with the method  *)
(* it was made for; the events one step posts for a request stay together  *)
(* in the queue, so KeyDerived has filled the caches when the event that   *)
(* follows it is handled; and no pending call is without its request, its  *)
(* handler or its last event.  Hence the caches agree and no answer is     *)
(* lost.  An open request of the Signing Layer always answers in a step    *)
(* that appends to the queue (PostsAll), which is where the two ends of    *)
(* the protocol meet.                                                      *)
(***************************************************************************)
EXTENDS SignerClient, SequenceTheorems, WellFoundedInduction, TLAPS

CallTyped == call \in [Requests -> Calls] /\ dropped \in SUBSET Requests

\* A call made before the last clearSession has settled.
DroppedIsSettled == \A r \in dropped : call[r] \in {"resolved", "rejected"}

\* With the iframe gone no call is pending.
GoneIsSettled == destroyed => \A r \in Requests : ~Live(r)

IInv == CallTyped /\ DroppedIsSettled /\ GoneIsSettled /\ ClearedCachesStayClear

-----------------------------------------------------------------------------
(* Lemmas about the operators of the client. *)

\* Settling a call revives none that was dropped (client.ts finishPending).
LEMMA SettleKeeps ==
  ASSUME CallTyped, DroppedIsSettled, GoneIsSettled, NEW r,
         NEW outcome \in {"resolved", "rejected"},
         Settle(r, outcome), UNCHANGED <<dropped, destroyed>>
  PROVE  (CallTyped /\ DroppedIsSettled /\ GoneIsSettled)'
  BY DEF CallTyped, DroppedIsSettled, GoneIsSettled, Settle, Calls, Live

\* A new call takes an id no earlier call had, so it is not one of the dropped
\* (client.ts request).
LEMMA SendKeeps ==
  ASSUME CallTyped, DroppedIsSettled, GoneIsSettled, NEW r \in Requests, NextId(r),
         NEW m, Send(r, m, call), UNCHANGED <<dropped, destroyed>>
  PROVE  (CallTyped /\ DroppedIsSettled /\ GoneIsSettled)'
<1>1. /\ call \in [Requests -> Calls]
      /\ \/ call' = [call EXCEPT ![r] = "rejected"]
         \/ ~destroyed /\ call' = [call EXCEPT ![r] = "pending"]
  BY DEF Send, CallTyped
<1>2. CallTyped'
  BY <1>1 DEF CallTyped, Calls
<1>3. r \notin dropped
  BY DEF NextId, DroppedIsSettled
<1>4. (DroppedIsSettled /\ GoneIsSettled)'
  BY <1>1, <1>2, <1>3 DEF DroppedIsSettled, GoneIsSettled, CallTyped, Live
<1> QED
  BY <1>2, <1>4

\* rejectAllPending leaves no call live (client.ts).
LEMMA RejectAllSettles ==
  ASSUME CallTyped, DroppedIsSettled
  PROVE  /\ RejectAll \in [Requests -> Calls]
         /\ \A q \in Requests : RejectAll[q] \in {"unused", "resolved", "rejected"}
         /\ \A q \in Requests : RejectAll[q] = "unused" => call[q] = "unused"
         /\ \A q \in dropped : RejectAll[q] \in {"resolved", "rejected"}
  BY DEF CallTyped, DroppedIsSettled, RejectAll, Live, Calls

\* What a call does with its result, it does in its own name.
LEMMA SucceedWrites ==
  ASSUME NEW r, Succeed(r)
  PROVE  writer' \in {r, writer}
  BY DEF Succeed, cacheVars

\* A live call was not made before the last clearSession.
LEMMA LiveIsNotDropped ==
  ASSUME IInv, NEW r, Live(r)
  PROVE  r \notin dropped
  BY DEF IInv, DroppedIsSettled, Live

-----------------------------------------------------------------------------
(* The invariant is inductive: one lemma per action that disturbs it. *)

LEMMA InitInv == ASSUME Init PROVE IInv
<1>1. CallTyped /\ DroppedIsSettled /\ GoneIsSettled
  BY DEF Init, CallTyped, DroppedIsSettled, GoneIsSettled, Calls
<1>2. ClearedCachesStayClear
  BY DEF Init, ClearedCachesStayClear
<1> QED
  BY <1>1, <1>2 DEF IInv

LEMMA CallStep ==
  ASSUME IInv, NEW r \in Requests, NEW m \in Methods, Call(r, m)
  PROVE  IInv'
<1>1. NextId(r) /\ Send(r, m, call) /\ UNCHANGED <<dropped, writer, destroyed>>
  BY DEF Call, cacheVars
<1>2. (CallTyped /\ DroppedIsSettled /\ GoneIsSettled)'
  BY <1>1, SendKeeps DEF IInv
<1>3. ClearedCachesStayClear'
  BY <1>1 DEF IInv, ClearedCachesStayClear
<1> QED
  BY <1>2, <1>3 DEF IInv

\* The one step that drops calls: it settles them all and resets the caches.
LEMMA ClearSessionStep ==
  ASSUME IInv, NEW r \in Requests, ClearSession(r)
  PROVE  IInv'
<1> DEFINE made == {q \in Requests : call[q] # "unused"}
<1>1. dropped' = made /\ writer' = None /\ call[r] = "unused" /\ destroyed' = destroyed
  BY DEF ClearSession, Reset, NextId
<1>2. CallTyped /\ DroppedIsSettled /\ GoneIsSettled
  BY DEF IInv
<1>3. ClearedCachesStayClear'
  BY <1>1, NoneAssumption DEF ClearedCachesStayClear
<1>4. CASE destroyed
  <2>1. call' = [call EXCEPT ![r] = "rejected"]
    BY <1>4 DEF ClearSession, Send
  <2>2. \A q \in Requests : ~Live(q)
    BY <1>2, <1>4 DEF GoneIsSettled
  <2>3. CallTyped' /\ GoneIsSettled'
    BY <1>1, <1>2, <2>1, <2>2 DEF CallTyped, GoneIsSettled, Live, Calls
  <2>4. DroppedIsSettled'
    BY <1>1, <1>2, <2>1, <2>2 DEF CallTyped, DroppedIsSettled, Live, Calls
  <2> QED
    BY <1>3, <2>3, <2>4 DEF IInv
<1>5. CASE ~destroyed
  <2>1. call' = [RejectAll EXCEPT ![r] = "pending"]
    BY <1>5 DEF ClearSession
  <2>2. CallTyped'
    BY <1>1, <1>2, <2>1, RejectAllSettles DEF CallTyped, Calls
  <2>3. DroppedIsSettled'
    BY <1>1, <1>2, <2>1, RejectAllSettles DEF DroppedIsSettled
  <2>4. GoneIsSettled'
    BY <1>1, <1>5 DEF GoneIsSettled
  <2> QED
    BY <1>3, <2>2, <2>3, <2>4 DEF IInv
<1> QED
  BY <1>4, <1>5

LEMMA DestroyStep ==
  ASSUME IInv, Destroy
  PROVE  IInv'
<1>1. call' = RejectAll /\ UNCHANGED <<dropped, writer>>
  BY DEF Destroy, cacheVars
<1>2. (CallTyped /\ DroppedIsSettled)'
  BY <1>1, RejectAllSettles DEF IInv, CallTyped, DroppedIsSettled
<1>3. GoneIsSettled'
  BY <1>1, RejectAllSettles DEF IInv, GoneIsSettled, Live
<1>4. ClearedCachesStayClear'
  BY <1>1 DEF IInv, ClearedCachesStayClear
<1> QED
  BY <1>2, <1>3, <1>4 DEF IInv

\* The events of dropped calls find no entry; every other step of
\* handleMessage is one of a live call (client.ts handleMessage).
LEMMA HandleMessageStep ==
  ASSUME IInv, HandleMessage
  PROVE  IInv'
<1> DEFINE r == Head(toBranding).id
<1> DEFINE e == Head(toBranding).event
<1>1. UNCHANGED <<dropped, destroyed>>
  BY DEF HandleMessage
<1>2. CallTyped /\ DroppedIsSettled /\ GoneIsSettled /\ ClearedCachesStayClear
  BY DEF IInv
<1>3. CASE UNCHANGED <<call, cacheVars>>
  BY <1>1, <1>2, <1>3 DEF IInv, CallTyped, DroppedIsSettled, GoneIsSettled,
                          ClearedCachesStayClear, Live, cacheVars
<1>4. CASE Live(r) /\ Settle(r, "rejected") /\ UNCHANGED cacheVars
  <2>1. (CallTyped /\ DroppedIsSettled /\ GoneIsSettled)'
    BY <1>1, <1>2, <1>4, SettleKeeps
  <2>2. ClearedCachesStayClear'
    BY <1>1, <1>2, <1>4 DEF ClearedCachesStayClear, cacheVars
  <2> QED
    BY <2>1, <2>2 DEF IInv
<1>5. CASE Live(r) /\ KeyDerived(r) /\ UNCHANGED call
  <2>1. writer' = r
    BY <1>5 DEF KeyDerived
  <2>2. ClearedCachesStayClear'
    BY <1>1, <1>5, <2>1, LiveIsNotDropped DEF ClearedCachesStayClear
  <2> QED
    BY <1>1, <1>2, <1>5, <2>2 DEF IInv, CallTyped, DroppedIsSettled, GoneIsSettled, Live
<1>6. CASE Live(r) /\ KeyDerived(r) /\ call' = [call EXCEPT ![r] = "waiting"]
  <2>1. writer' = r
    BY <1>6 DEF KeyDerived
  <2>2. r \notin dropped
    BY <1>6, LiveIsNotDropped
  <2>3. (CallTyped /\ DroppedIsSettled)'
    BY <1>1, <1>2, <1>6, <2>2 DEF CallTyped, DroppedIsSettled, Calls
  <2>4. GoneIsSettled'
    BY <1>1, <1>2, <1>6 DEF GoneIsSettled, CallTyped, Live
  <2>5. ClearedCachesStayClear'
    BY <1>1, <2>1, <2>2 DEF ClearedCachesStayClear
  <2> QED
    BY <2>3, <2>4, <2>5 DEF IInv
<1>7. CASE Live(r) /\ Settle(r, "resolved") /\ Succeed(r)
  <2>1. (CallTyped /\ DroppedIsSettled /\ GoneIsSettled)'
    BY <1>1, <1>2, <1>7, SettleKeeps
  <2>2. ClearedCachesStayClear'
    BY <1>1, <1>2, <1>7, SucceedWrites, LiveIsNotDropped DEF ClearedCachesStayClear
  <2> QED
    BY <2>1, <2>2 DEF IInv
<1> QED
  BY <1>3, <1>4, <1>5, <1>6, <1>7 DEF HandleMessage

LEMMA TimeoutStep ==
  ASSUME IInv, NEW r \in Requests, AlsoWaitForTimeout(r)
  PROVE  IInv'
<1>1. /\ Live(r) /\ Settle(r, "rejected") /\ Succeed(r)
      /\ UNCHANGED <<dropped, destroyed>>
  BY DEF AlsoWaitForTimeout, Live
<1>2. (CallTyped /\ DroppedIsSettled /\ GoneIsSettled)'
  BY <1>1, SettleKeeps DEF IInv
<1>3. ClearedCachesStayClear'
  BY <1>1, SucceedWrites, LiveIsNotDropped DEF IInv, ClearedCachesStayClear
<1> QED
  BY <1>2, <1>3 DEF IInv

\* The Signing Layer's steps touch nothing of the client.
LEMMA SignerStep ==
  ASSUME IInv, Signer \/ UNCHANGED vars
  PROVE  IInv'
<1>1. UNCHANGED <<call, dropped, destroyed, writer>>
  BY DEF Signer, SignerAccepts, SignerCancels, SignerDenies, SignerPosts, branding,
         vars, cacheVars
<1> QED
  BY <1>1 DEF IInv, CallTyped, DroppedIsSettled, GoneIsSettled, ClearedCachesStayClear, Live

\* Every step of either layer keeps the invariant.
LEMMA InvStep ==
  ASSUME IInv, [Next]_vars
  PROVE  IInv'
<1>1. CASE Signer \/ UNCHANGED vars
  BY <1>1, SignerStep
<1>2. CASE HandleMessage
  BY <1>2, HandleMessageStep
<1>3. CASE Destroy
  BY <1>3, DestroyStep
<1>4. ASSUME NEW r \in Requests, ClearSession(r)
      PROVE  IInv'
  BY <1>4, ClearSessionStep
<1>5. ASSUME NEW r \in Requests, AlsoWaitForTimeout(r)
      PROVE  IInv'
  BY <1>5, TimeoutStep
<1>6. ASSUME NEW r \in Requests, NEW m \in Methods, Call(r, m)
      PROVE  IInv'
  BY <1>6, CallStep
<1> QED
  BY <1>1, <1>2, <1>3, <1>4, <1>5, <1>6 DEF Next, Branding

\* Whatever is still under way when clearSession is called, nothing of an
\* earlier call is written into the caches afterwards (owssigner.ts clearSession:
\* "late KeyDerived cannot refill caches").
THEOREM ClearedCachesCorrect == Spec => []ClearedCachesStayClear
<1>1. Init => IInv
  BY InitInv
<1>2. IInv /\ [Next]_vars => IInv'
  BY InvStep
<1>3. IInv => ClearedCachesStayClear
  BY DEF IInv
<1> QED
  BY <1>1, <1>2, <1>3, PTL DEF Spec

-----------------------------------------------------------------------------
(* The queues. *)

\* What the messages and the two queues are made of.
MessagesTyped ==
  /\ method \in [Requests -> AllMethods \cup {"none"}]
  /\ reply \in [Requests -> Replies \cup {"none"}]
  /\ derived \in SUBSET Requests
  /\ toSigner \in Seq(Messages)
  /\ toBranding \in Seq(Events)
  /\ sent \in [Requests -> Methods \cup {"none", "clearRecoverySession"}]
  /\ used \in [Requests -> OrNone(Passkeys)]

\* Every message is about a call that was made, with the method it was made for.
SentAsAsked ==
  /\ \A i \in 1..Len(toSigner) : toSigner[i].kind = "request" =>
       /\ toSigner[i].method = sent[toSigner[i].id]
       /\ call[toSigner[i].id] # "unused"
  /\ \A r \in Requests :
       /\ method[r] # "none" => method[r] = sent[r] /\ call[r] # "unused"
       /\ reply[r] # "none" \/ r \in derived => method[r] # "none"
       /\ r \in derived /\ method[r] \in AtOnce => reply[r] # "none"
  /\ \A i \in 1..Len(toBranding) : method[toBranding[i].id] # "none"

\* The events that one step posts for a request stay together in the queue.
Together(s) ==
  \A i \in 1..Len(s) :
    LET r == s[i].id
    IN /\ s[i].event = "CredentialCreated" /\ sent[r] = "createCredential" =>
            i > 1 /\ s[i-1] = Event("KeyDerived", r)
       /\ s[i].event = "PublicKey" /\ sent[r] = "getPublicKey.challenge" =>
            i < Len(s) /\ s[i+1] = Event("ChallengeSigned", r)

\* Success of createCredential finds the caches filled by its KeyDerived.
FilledBy(r) == Live(r) => address = used[r] /\ solana = used[r] /\ last.keys = used[r]

\* The queue: its first event may be what is left of what a step posted.
TogetherAfter(s) ==
  \A i \in 1..Len(s) :
    LET r == s[i].id
    IN /\ s[i].event = "CredentialCreated" /\ sent[r] = "createCredential" =>
            IF i = 1 THEN FilledBy(r) ELSE s[i-1] = Event("KeyDerived", r)
       /\ s[i].event = "PublicKey" /\ sent[r] = "getPublicKey.challenge" =>
            i < Len(s) /\ s[i+1] = Event("ChallengeSigned", r)

\* A call waits for the rest of its answer only while that is the next event.
WaitingForNext ==
  \A r \in Requests : call[r] = "waiting" =>
    /\ sent[r] = "getPublicKey.challenge"
    /\ toBranding # <<>> /\ Head(toBranding) = Event("ChallengeSigned", r)

-----------------------------------------------------------------------------
\* What each method answers with when it succeeds.
LEMMA SuccessEvents ==
  /\ \A m : Success(m) \in Replies
  /\ \A m : Success(m) \notin {"none", "KeyDerived", "SignDenied", "NotAllowed"}
  /\ \A m \in AllMethods : Success(m) = "InvalidRequest" => m = "unknownMethod"
  /\ Success("createCredential") = "CredentialCreated"
  /\ Success("getPublicKey.challenge") = "ChallengeSigned"
<1>1. \A m : Success(m) \in Replies
  BY DEF Success, Replies, Failures
<1>2. \A m : Success(m) \notin {"none", "KeyDerived", "SignDenied", "NotAllowed"}
  BY DEF Success
<1>3. \A m \in AllMethods : Success(m) = "InvalidRequest" => m = "unknownMethod"
  BY DEF Success
<1>4. Success("createCredential") = "CredentialCreated"
  BY DEF Success, Creations
<1>5. Success("getPublicKey.challenge") = "ChallengeSigned"
  BY DEF Success, Creations
<1> QED BY <1>1, <1>2, <1>3, <1>4, <1>5

\* Appending whole posts keeps the events of a request together.
LEMMA TogetherConcat ==
  ASSUME NEW s \in Seq(Events), NEW t \in Seq(Events), Together(s), Together(t)
  PROVE  Together(s \o t)
<1> DEFINE u == s \o t
<1>1. /\ Len(s) \in Nat /\ Len(t) \in Nat /\ Len(u) = Len(s) + Len(t)
      /\ \A i \in 1..Len(s) : u[i] = s[i]
      /\ \A i \in 1..Len(u) : i > Len(s) => u[i] = t[i - Len(s)]
  OBVIOUS
<1> HIDE DEF u
<1> SUFFICES Together(u)
  BY DEF u
<1> SUFFICES ASSUME NEW i \in 1..Len(u), NEW r, r = u[i].id
             PROVE  /\ u[i].event = "CredentialCreated" /\ sent[r] = "createCredential" =>
                         i > 1 /\ u[i-1] = Event("KeyDerived", r)
                    /\ u[i].event = "PublicKey" /\ sent[r] = "getPublicKey.challenge" =>
                         i < Len(u) /\ u[i+1] = Event("ChallengeSigned", r)
  BY DEF Together
<1>2. CASE i <= Len(s)
  <2>1. i \in 1..Len(s) /\ u[i] = s[i]
    BY <1>1, <1>2
  <2>2. i > 1 => u[i-1] = s[i-1]
    BY <1>1, <2>1
  <2>3. i < Len(s) => i < Len(u) /\ u[i+1] = s[i+1]
    BY <1>1, <2>1
  <2> QED
    BY <2>1, <2>2, <2>3 DEF Together
<1>3. CASE i > Len(s)
  <2> DEFINE j == i - Len(s)
  <2>1. j \in 1..Len(t) /\ u[i] = t[j]
    BY <1>1, <1>3
  <2>2. j > 1 => i > 1 /\ u[i-1] = t[j-1]
    BY <1>1, <1>3
  <2>3. j < Len(t) => i < Len(u) /\ u[i+1] = t[j+1]
    BY <1>1, <1>3
  <2> HIDE DEF j
  <2> QED
    BY <2>1, <2>2, <2>3 DEF Together
<1> QED
  BY <1>1, <1>2, <1>3

\* The same, when the queue begins in the middle of a post.
LEMMA TogetherAfterConcat ==
  ASSUME NEW s \in Seq(Events), NEW t \in Seq(Events), TogetherAfter(s), Together(t)
  PROVE  TogetherAfter(s \o t)
<1> DEFINE u == s \o t
<1>1. /\ Len(s) \in Nat /\ Len(t) \in Nat /\ Len(u) = Len(s) + Len(t)
      /\ \A i \in 1..Len(s) : u[i] = s[i]
      /\ \A i \in 1..Len(u) : i > Len(s) => u[i] = t[i - Len(s)]
  OBVIOUS
<1> HIDE DEF u
<1> SUFFICES TogetherAfter(u)
  BY DEF u
<1> SUFFICES ASSUME NEW i \in 1..Len(u), NEW r, r = u[i].id
             PROVE  /\ u[i].event = "CredentialCreated" /\ sent[r] = "createCredential" =>
                         IF i = 1 THEN FilledBy(r) ELSE u[i-1] = Event("KeyDerived", r)
                    /\ u[i].event = "PublicKey" /\ sent[r] = "getPublicKey.challenge" =>
                         i < Len(u) /\ u[i+1] = Event("ChallengeSigned", r)
  BY DEF TogetherAfter
<1>2. CASE i <= Len(s)
  <2>1. i \in 1..Len(s) /\ u[i] = s[i]
    BY <1>1, <1>2
  <2>2. i # 1 => u[i-1] = s[i-1]
    BY <1>1, <2>1
  <2>3. i < Len(s) => i < Len(u) /\ u[i+1] = s[i+1]
    BY <1>1, <2>1
  <2> QED
    BY <2>1, <2>2, <2>3 DEF TogetherAfter
<1>3. CASE i > Len(s)
  <2> DEFINE j == i - Len(s)
  <2>1. j \in 1..Len(t) /\ u[i] = t[j]
    BY <1>1, <1>3
  <2>2. j > 1 => i # 1 /\ u[i-1] = t[j-1]
    BY <1>1, <1>3
  <2>3. j < Len(t) => i < Len(u) /\ u[i+1] = t[j+1]
    BY <1>1, <1>3
  <2> HIDE DEF j
  <2> QED
    BY <2>1, <2>2, <2>3 DEF Together
<1> QED
  BY <1>1, <1>2, <1>3

\* What a step may answer r with.
ProperAnswer(r) ==
  reply'[r] # reply[r] =>
    /\ reply'[r] \in Failures \cup {Success(sent[r])}
    /\ sent[r] = "createCredential" /\ reply'[r] = "CredentialCreated" =>
         r \in derived' \ derived

\* An event of the request that e is about, when it was answered with replies[e.id]
\* and the keys of the requests in derivedOf were reported.
EventOf(e, derivedOf, replies) ==
  \/ e.event = "KeyDerived" /\ e.id \in derivedOf
  \/ e.event = "PublicKey" /\ replies[e.id] = "ChallengeSigned"
  \/ e.event = replies[e.id] /\ replies[e.id] # "none"

\* The events of r that a step appends to the queue.
PostsFor(t, r) ==
  /\ t \in Seq(Events)
  /\ \A i \in 1..Len(t) : EventOf(t[i], derived', reply')
  /\ Together(t)
  /\ \A i \in 1..Len(t) : t[i].id = r
  /\ reply'[r] # reply[r] => Len(t) > 0 /\ t[Len(t)] = Event(reply'[r], r)
  /\ t # <<>> => r \in derived' \ derived \/ reply'[r] # reply[r]

\* Sequences of up to three elements, concatenated.
LEMMA Concats ==
  ASSUME NEW S, NEW x \in S, NEW y \in S, NEW z \in S
  PROVE  /\ <<>> \o <<>> = <<>> /\ <<>> \o <<x>> = <<x>> /\ <<x>> \o <<>> = <<x>>
         /\ <<>> \o <<x, y>> = <<x, y>> /\ <<x>> \o <<y>> = <<x, y>>
         /\ <<x>> \o <<y, z>> = <<x, y, z>>
<1>1. <<>> \o <<>> = <<>>
  OBVIOUS
<1>2. <<>> \o <<x>> = <<x>>
  OBVIOUS
<1>3. <<x>> \o <<>> = <<x>>
  OBVIOUS
<1>4. <<>> \o <<x, y>> = <<x, y>>
  OBVIOUS
<1>5. <<x>> \o <<y>> = <<x, y>>
  <2>1. <<x>> \in Seq(S) /\ <<y>> \in Seq(S) /\ <<x, y>> \in Seq(S)
    OBVIOUS
  <2> DEFINE u == <<x>> \o <<y>>
  <2>2. u \in Seq(S) /\ Len(u) = 2 /\ u[1] = x /\ u[2] = y
    BY <2>1, ConcatProperties
  <2> HIDE DEF u
  <2>3. u = <<x, y>>
    BY <2>1, <2>2
  <2> QED BY <2>3 DEF u
<1>6. <<x>> \o <<y, z>> = <<x, y, z>>
  <2>1. <<x>> \in Seq(S) /\ <<y, z>> \in Seq(S) /\ <<x, y, z>> \in Seq(S)
    OBVIOUS
  <2> DEFINE u == <<x>> \o <<y, z>>
  <2>2. u \in Seq(S) /\ Len(u) = 3 /\ u[1] = x /\ u[2] = y /\ u[3] = z
    BY <2>1, ConcatProperties
  <2> HIDE DEF u
  <2>3. u = <<x, y, z>>
    BY <2>1, <2>2
  <2> QED BY <2>3 DEF u
<1> QED BY <1>1, <1>2, <1>3, <1>4, <1>5, <1>6

\* The events of a proper answer: KeyDerived first, the terminal event last.
LEMMA PostedEvents ==
  ASSUME NEW r \in Requests, ProperAnswer(r), reply'[r] \in Replies \cup {"none"},
         reply'[r] = "none" => reply[r] = "none"
  PROVE  PostsFor(Posted(r), r)
<1> DEFINE a == Event("KeyDerived", r)
           b == Event(reply'[r], r)
           c == Event("PublicKey", r)
           d == Event("ChallengeSigned", r)
           k == IF r \in derived' \ derived THEN <<a>> ELSE <<>>
           p == IF reply'[r] = reply[r] THEN <<>>
                ELSE IF reply'[r] = "ChallengeSigned" THEN <<c, d>> ELSE <<b>>
<1> HIDE DEF a, b, c, d, k, p
<1>a. Posted(r) = k \o p
  BY DEF Posted, a, b, c, d, k, p
<1>k. k = IF r \in derived' \ derived THEN <<a>> ELSE <<>>
  BY DEF k
<1>b. reply'[r] = "ChallengeSigned" => b = d
  BY DEF b, d
<1>p. /\ reply'[r] = reply[r] => p = <<>>
      /\ reply'[r] # reply[r] /\ reply'[r] = "ChallengeSigned" => p = <<c, b>>
      /\ reply'[r] # reply[r] /\ reply'[r] # "ChallengeSigned" => p = <<b>>
  BY <1>b DEF p
<1>1. a \in Events /\ c \in Events
  BY DEF Events, Event, Replies, a, c
<1>2. reply'[r] # reply[r] => b \in Events
  BY DEF Events, Event, b
<1>3. /\ a.id = r /\ a.event = "KeyDerived"
      /\ b.id = r /\ b.event = reply'[r]
      /\ c.id = r /\ c.event = "PublicKey"
  BY DEF Event, a, b, c
<1>e. /\ r \in derived' => EventOf(a, derived', reply')
      /\ reply'[r] # reply[r] => EventOf(b, derived', reply')
      /\ reply'[r] = "ChallengeSigned" => EventOf(c, derived', reply')
  BY <1>3 DEF EventOf
<1>4. CASE reply'[r] = reply[r] /\ r \notin derived' \ derived
  <2>1. Posted(r) = <<>>
    BY <1>a, <1>k, <1>p, <1>4, <1>1, <1>2, Concats
  <2> QED BY <1>4, <2>1 DEF PostsFor, Together
<1>5. CASE reply'[r] = reply[r] /\ r \in derived' \ derived
  <2>1. Posted(r) = <<a>> \o <<>>
    BY <1>a, <1>k, <1>p, <1>5, <1>1, <1>2, Concats
  <2>2. Posted(r) = <<a>>
    BY <2>1
  <2> QED BY <1>1, <1>3, <1>5, <1>e, <2>2 DEF PostsFor, Together
<1>6. CASE reply'[r] # reply[r] /\ reply'[r] # "ChallengeSigned" /\ r \notin derived' \ derived
  <2>1. Posted(r) = <<b>>
    BY <1>a, <1>k, <1>p, <1>6, <1>1, <1>2, Concats
  <2>2. sent[r] = "createCredential" => reply'[r] # "CredentialCreated"
    BY <1>6 DEF ProperAnswer
  <2>3. sent[r] = "getPublicKey.challenge" => reply'[r] # "PublicKey"
    BY <1>6, SuccessEvents DEF ProperAnswer, Failures
  <2>4. Together(<<b>>)
    BY <1>3, <2>2, <2>3 DEF Together
  <2> QED BY <1>2, <1>3, <1>6, <1>e, <2>1, <2>4 DEF PostsFor, b
<1>7. CASE reply'[r] # reply[r] /\ reply'[r] # "ChallengeSigned" /\ r \in derived' \ derived
  <2>1. Posted(r) = <<a, b>>
    BY <1>a, <1>k, <1>p, <1>7, <1>1, <1>2, Concats
  <2>2. sent[r] = "getPublicKey.challenge" => reply'[r] # "PublicKey"
    BY <1>7, SuccessEvents DEF ProperAnswer, Failures
  <2>3. Together(<<a, b>>)
    BY <1>3, <2>2 DEF Together, a
  <2> QED BY <1>1, <1>2, <1>3, <1>7, <1>e, <2>1, <2>3 DEF PostsFor, b
<1>8. CASE reply'[r] # reply[r] /\ reply'[r] = "ChallengeSigned" /\ r \notin derived' \ derived
  <2>1. Posted(r) = <<c, b>>
    BY <1>a, <1>k, <1>p, <1>8, <1>1, <1>2, Concats
  <2>2. Together(<<c, b>>)
    BY <1>3, <1>8 DEF Together, b
  <2> QED BY <1>1, <1>2, <1>3, <1>8, <1>e, <2>1, <2>2 DEF PostsFor, b
<1>9. CASE reply'[r] # reply[r] /\ reply'[r] = "ChallengeSigned" /\ r \in derived' \ derived
  <2>1. Posted(r) = <<a, c, b>>
    BY <1>a, <1>k, <1>p, <1>9, <1>1, <1>2, Concats
  <2>2. Together(<<a, c, b>>)
    BY <1>3, <1>9 DEF Together, b
  <2> QED BY <1>1, <1>2, <1>3, <1>9, <1>e, <2>1, <2>2 DEF PostsFor, b
<1> QED BY <1>4, <1>5, <1>6, <1>7, <1>8, <1>9

-----------------------------------------------------------------------------
\* The Signing Layer denies at most one request other than r in a step.
OneDenied(r) ==
  /\ \A q \in Requests \ {r} : reply'[q] # reply[q] =>
       reply'[q] = "SignDenied" /\ reply[q] = "none" /\ method[q] # "none"
  /\ \A p, q \in Requests \ {r} :
       reply'[p] # reply[p] /\ reply'[q] # reply[q] => p = q

\* What a step of the Signing Layer does to the contract's state, r being the
\* request whose handler runs.
SignerMoves(r) ==
  /\ reply' \in [Requests -> Replies \cup {"none"}]
  /\ derived' \in SUBSET Requests
  /\ derived \subseteq derived' /\ derived' \subseteq derived \cup {r}
  /\ OneDenied(r)
  /\ r \in Requests =>
       /\ reply[r] # "none" => reply'[r] = reply[r]
       /\ ProperAnswer(r)
       /\ reply'[r] # "none" \/ r \in derived' => method'[r] # "none"
  /\ \A q \in Requests : method'[q] # method[q] => q = r /\ method[q] = "none"

\* Denying changes the reply of one open request at most.
LEMMA DenyEffect ==
  ASSUME MessagesTyped, NEW S \in Deniable
  PROVE  /\ Deny(S) \in [Requests -> Replies \cup {"none"}]
         /\ \A q \in Requests : Deny(S)[q] # reply[q] =>
              Deny(S)[q] = "SignDenied" /\ q \in S /\ q \in Open
         /\ \A p, q \in S : p = q
  BY DEF MessagesTyped, Deniable, Deny, Open, Replies, Failures

\* Dropping the interaction only denies (ui.js showSignInteraction).
LEMMA DropMoves ==
  ASSUME MessagesTyped, Drop
  PROVE  SignerMoves(None)
<1>1. PICK S \in Deniable : reply' = Deny(S)
  BY DEF Drop
<1>2. UNCHANGED <<method, derived>>
  BY DEF Drop
<1>3. OneDenied(None)
  BY <1>1, DenyEffect DEF OneDenied, Open
<1> QED BY <1>1, <1>2, <1>3, DenyEffect, NoneAssumption DEF SignerMoves, MessagesTyped

\* Accepting a request answers nothing and derives nothing for it.
LEMMA AcceptMoves ==
  ASSUME MessagesTyped, SentAsAsked, NEW r \in Requests, NEW m, Accept(r, m)
  PROVE  SignerMoves(r) /\ reply'[r] = reply[r] /\ derived' = derived
<1>1. PICK S \in Deniable : reply' = Deny(S)
  BY DEF Accept
<1>2. derived' = derived /\ method[r] = "none" /\ method' = [method EXCEPT ![r] = m]
  BY DEF Accept
<1>3. OneDenied(r)
  BY <1>1, DenyEffect DEF OneDenied, Open
<1>4. reply'[r] = reply[r] /\ reply[r] = "none" /\ r \notin derived
  BY <1>1, <1>2, DenyEffect DEF Open, SentAsAsked
<1> QED BY <1>1, <1>2, <1>3, <1>4, DenyEffect DEF SignerMoves, ProperAnswer, MessagesTyped

\* A handler that posts answers its own request, properly.
LEMMA PostMoves ==
  ASSUME MessagesTyped, SentAsAsked, NEW r \in Requests, NEW derives \in BOOLEAN,
         NEW e \in Failures \cup {"none", Success(method[r])}, Post(r, derives, e)
  PROVE  /\ SignerMoves(r)
         /\ r \in derived' /\ method[r] \in AtOnce => reply'[r] # "none"
         /\ method' = method
<1>1. PICK S \in Deniable : r \notin S /\ reply' = [Deny(S) EXCEPT ![r] = e]
  BY DEF Post
<1>2. /\ r \in Open /\ method' = method
      /\ derived' = IF derives THEN derived \cup {r} ELSE derived
      /\ derives /\ method[r] \in AtOnce => e # "none"
      /\ e = Success(method[r]) /\ method[r] \in AlwaysDerive => r \in derived'
  BY DEF Post
<1>3. Deny(S) \in [Requests -> Replies \cup {"none"}] /\ e \in Replies \cup {"none"}
  BY DenyEffect, SuccessEvents DEF Replies
<1>4. /\ reply' \in [Requests -> Replies \cup {"none"}] /\ reply'[r] = e
      /\ \A q \in Requests \ {r} : reply'[q] = Deny(S)[q]
  BY <1>1, <1>3
<1>5. OneDenied(r)
  BY <1>4, DenyEffect DEF OneDenied, Open
<1>6. reply[r] = "none" /\ method[r] # "none" /\ method[r] = sent[r]
  BY <1>2 DEF Open, SentAsAsked
<1>7. ProperAnswer(r)
  <2>1. SUFFICES ASSUME sent[r] = "createCredential", e = "CredentialCreated"
                 PROVE  r \in derived' \ derived
    BY <1>4, <1>6 DEF ProperAnswer
  <2>2. e = Success(method[r]) /\ method[r] \in AlwaysDerive /\ method[r] \in AtOnce
    BY <2>1, <1>6, SuccessEvents DEF AlwaysDerive, AtOnce, AllMethods
  <2> QED BY <1>2, <1>6, <2>2 DEF SentAsAsked
<1>8. r \in derived' /\ method[r] \in AtOnce => reply'[r] # "none"
  BY <1>2, <1>4, <1>6 DEF SentAsAsked
<1> QED BY <1>2, <1>4, <1>5, <1>6, <1>7, <1>8 DEF SignerMoves, MessagesTyped

-----------------------------------------------------------------------------
\* What a step appends to the events of the Signing Layer.
Appends(t) ==
  /\ t \in Seq(Events)
  /\ Together(t)
  /\ \A i \in 1..Len(t) : method'[t[i].id] # "none"
  /\ \A i \in 1..Len(t) : EventOf(t[i], derived', reply')

\* t ends the request q, if this step ends it.
Ends(t, q) == reply'[q] # reply[q] => \E i \in 1..Len(t) : Terminal(q, t[i])

\* Two posts after each other are a post.
LEMMA AppendsConcat ==
  ASSUME NEW s, Appends(s), NEW t, Appends(t)
  PROVE  /\ Appends(s \o t)
         /\ \A q : Ends(s, q) \/ Ends(t, q) => Ends(s \o t, q)
<1>1. s \in Seq(Events) /\ t \in Seq(Events)
  BY DEF Appends
<1>2. Together(s \o t)
  BY <1>1, TogetherConcat DEF Appends
<1>3. /\ s \o t \in Seq(Events) /\ Len(s \o t) = Len(s) + Len(t)
      /\ \A i \in 1..Len(s) : (s \o t)[i] = s[i]
      /\ \A i \in 1..Len(t) : (s \o t)[Len(s) + i] = t[i]
      /\ \A i \in 1..Len(s \o t) :
           \/ i \in 1..Len(s) /\ (s \o t)[i] = s[i]
           \/ i - Len(s) \in 1..Len(t) /\ (s \o t)[i] = t[i - Len(s)]
  BY <1>1
<1>4. \A i \in 1..Len(s \o t) :
        method'[(s \o t)[i].id] # "none" /\ EventOf((s \o t)[i], derived', reply')
  BY <1>3 DEF Appends
<1>5. ASSUME NEW q, Ends(s, q) \/ Ends(t, q) PROVE Ends(s \o t, q)
  <2>1. SUFFICES ASSUME reply'[q] # reply[q]
                 PROVE  \E i \in 1..Len(s \o t) : Terminal(q, (s \o t)[i])
    BY DEF Ends
  <2>2. CASE \E i \in 1..Len(s) : Terminal(q, s[i])
    BY <1>1, <1>3, <2>2
  <2>3. CASE \E i \in 1..Len(t) : Terminal(q, t[i])
    BY <1>1, <1>3, <2>3
  <2> QED BY <1>5, <2>1, <2>2, <2>3 DEF Ends
<1> QED BY <1>2, <1>3, <1>4, <1>5 DEF Appends

\* The events of the handler that runs, and those of the one it denies.
LEMMA PostedAppends ==
  ASSUME MessagesTyped, SentAsAsked, NEW r, SignerMoves(r), NEW q \in Requests,
         q = r \/ reply'[q] # reply[q]
  PROVE  Appends(Posted(q)) /\ Ends(Posted(q), q)
<1>1. ProperAnswer(q)
  <2>1. CASE q = r
    BY <2>1 DEF SignerMoves
  <2>2. CASE q # r
    BY <2>2 DEF SignerMoves, OneDenied, ProperAnswer, Failures
  <2> QED BY <2>1, <2>2
<1>2. /\ reply'[q] \in Replies \cup {"none"}
      /\ reply'[q] = "none" => reply[q] = "none"
  BY DEF SignerMoves, OneDenied
<1>3. PostsFor(Posted(q), q)
  BY <1>1, <1>2, PostedEvents
<1>4. reply'[q] # reply[q] \/ q \in derived' \ derived => method'[q] # "none"
  BY <1>2 DEF SignerMoves, OneDenied
<1>5. Appends(Posted(q))
  <2> DEFINE t == Posted(q)
  <2>1. PostsFor(t, q)
    BY <1>3
  <2> HIDE DEF t
  <2>2. Appends(t)
    BY <1>4, <2>1 DEF PostsFor, Appends
  <2> QED BY <2>2 DEF t
<1>6. Ends(Posted(q), q)
  <2> DEFINE t == Posted(q)
  <2>1. PostsFor(t, q)
    BY <1>3
  <2> HIDE DEF t
  <2>2. SUFFICES ASSUME reply'[q] # reply[q]
                 PROVE  \E i \in 1..Len(t) : Terminal(q, t[i])
    BY DEF Ends, t
  <2>3. Len(t) \in 1..Len(t) /\ t[Len(t)] = Event(reply'[q], q)
    BY <2>1, <2>2 DEF PostsFor
  <2>4. Terminal(q, Event(reply'[q], q))
    BY <1>1, <2>2 DEF ProperAnswer, Terminal, Event, Rejecting, Failures
  <2> QED BY <2>3, <2>4
<1> QED BY <1>5, <1>6

\* All that a step posts: nothing is answered without its event in the queue.
PostsAll ==
  \E t : /\ toBranding' = toBranding \o t
         /\ Appends(t)
         /\ \A q \in Requests : Ends(t, q)

\* A step of the handler of r posts all it answers.
LEMMA EventsOfPosts ==
  ASSUME MessagesTyped, SentAsAsked, NEW r \in Requests, SignerMoves(r), EventsOf(r)
  PROVE  PostsAll
<1>1. Appends(Posted(r)) /\ Ends(Posted(r), r)
  BY PostedAppends
<1>2. CASE DeniedBy(r) = {} /\ toBranding' = toBranding \o Posted(r)
  <2>1. \A q \in Requests \ {r} : reply'[q] = reply[q]
    BY <1>2 DEF DeniedBy
  <2>2. \A q \in Requests : Ends(Posted(r), q)
    BY <1>1, <2>1 DEF Ends
  <2> QED BY <1>1, <1>2, <2>2 DEF PostsAll
<1>3. ASSUME NEW q \in DeniedBy(r),
             \/ toBranding' = toBranding \o Posted(r) \o Posted(q)
             \/ toBranding' = toBranding \o Posted(q) \o Posted(r)
      PROVE  PostsAll
  <2>1. q \in Requests /\ reply'[q] # reply[q] /\ q # r
    BY DEF DeniedBy
  <2>2. Appends(Posted(q)) /\ Ends(Posted(q), q)
    BY <2>1, PostedAppends
  <2>3. \A p \in Requests \ {r, q} : reply'[p] = reply[p]
    BY <2>1 DEF SignerMoves, OneDenied
  <2> DEFINE s == Posted(r)
             t == Posted(q)
  <2>4. /\ Appends(s) /\ Ends(s, r) /\ Appends(t) /\ Ends(t, q)
        /\ \/ toBranding' = toBranding \o s \o t
           \/ toBranding' = toBranding \o t \o s
    BY <1>1, <1>3, <2>2
  <2> HIDE DEF s, t
  <2>5. s \in Seq(Events) /\ t \in Seq(Events) /\ toBranding \in Seq(Events)
    BY <2>4 DEF Appends, MessagesTyped
  <2>6. ASSUME toBranding' = toBranding \o s \o t PROVE PostsAll
    <3>1. toBranding' = toBranding \o (s \o t)
      BY <2>5, <2>6, ConcatAssociative
    <3>2. Appends(s \o t) /\ Ends(s \o t, r) /\ Ends(s \o t, q)
      BY <2>4, AppendsConcat
    <3>3. \A p \in Requests : Ends(s \o t, p)
      BY <2>3, <3>2 DEF Ends
    <3> QED BY <3>1, <3>2, <3>3 DEF PostsAll
  <2>7. ASSUME toBranding' = toBranding \o t \o s PROVE PostsAll
    <3>1. toBranding' = toBranding \o (t \o s)
      BY <2>5, <2>7, ConcatAssociative
    <3>2. Appends(t \o s) /\ Ends(t \o s, r) /\ Ends(t \o s, q)
      BY <2>4, AppendsConcat
    <3>3. \A p \in Requests : Ends(t \o s, p)
      BY <2>3, <3>2 DEF Ends
    <3> QED BY <3>1, <3>2, <3>3 DEF PostsAll
  <2> QED BY <2>4, <2>6, <2>7
<1> QED BY <1>2, <1>3 DEF EventsOf

\* So does a step that only denies.
LEMMA DropEventsPost ==
  ASSUME MessagesTyped, SentAsAsked, SignerMoves(None), DropEvents
  PROVE  PostsAll
<1>1. CASE UNCHANGED <<reply, toBranding>>
  <2>1. Appends(<<>>)
    BY DEF Appends, Together
  <2>2. toBranding' = toBranding \o <<>>
    BY <1>1 DEF MessagesTyped
  <2>3. \A q \in Requests : Ends(<<>>, q)
    BY <1>1 DEF Ends
  <2> QED BY <2>1, <2>2, <2>3 DEF PostsAll
<1>2. ASSUME NEW q \in Requests, reply'[q] # reply[q],
             toBranding' = toBranding \o Posted(q)
      PROVE  PostsAll
  <2>1. Appends(Posted(q)) /\ Ends(Posted(q), q)
    BY <1>2, PostedAppends
  <2>2. \A p \in Requests \ {q} : reply'[p] = reply[p]
    BY <1>2, NoneAssumption DEF SignerMoves, OneDenied
  <2>3. \A p \in Requests : Ends(Posted(q), p)
    BY <2>1, <2>2 DEF Ends
  <2> QED BY <1>2, <2>1, <2>3 DEF PostsAll
<1> QED BY <1>1, <1>2 DEF DropEvents

-----------------------------------------------------------------------------
\* A step of the Signing Layer, as the Branding Layer may notice it.
SignerTurn ==
  /\ \E r : SignerMoves(r)
  /\ PostsAll
  /\ method' \in [Requests -> AllMethods \cup {"none"}]
  /\ used' \in [Requests -> OrNone(Passkeys)]
  /\ \A q \in Requests :
       /\ method[q] # "none" => used'[q] = used[q] /\ method'[q] = method[q]
       /\ method'[q] # "none" => method'[q] = sent[q] /\ call[q] # "unused"
       /\ q \in derived' /\ method'[q] \in AtOnce => reply'[q] # "none"
  /\ \/ toSigner' = toSigner /\ method' = method
     \/ /\ toSigner # <<>> /\ toSigner' = Tail(toSigner)
        /\ \A q \in Requests : method'[q] = "none" => Head(toSigner) # Request(q, sent[q])
  /\ UNCHANGED <<call, sent, address, solana, last, destroyed>>

\* Dispatching a request of the queue is a turn of the Signing Layer.
LEMMA AcceptsTurn ==
  ASSUME MessagesTyped, SentAsAsked, SignerAccepts
  PROVE  SignerTurn
<1> DEFINE message == Head(toSigner)
           id == message.id
           m == message.method
<1>1. /\ toSigner # <<>> /\ message.kind = "request" /\ Accept(id, m) /\ EventsOf(id)
      /\ toSigner' = Tail(toSigner)
      /\ UNCHANGED <<call, sent, address, solana, last, destroyed>>
      /\ \E k \in Passkeys : used' = [used EXCEPT ![id] = k]
  BY DEF SignerAccepts, branding, cacheVars
<1>2. /\ id \in Requests /\ m \in AllMethods /\ message.kind = "request"
      /\ m = sent[id] /\ call[id] # "unused"
  <2>1. message \in Messages /\ message = toSigner[1] /\ 1 \in 1..Len(toSigner)
    BY <1>1 DEF MessagesTyped
  <2>2. message # CancelMessage
    BY <1>1 DEF CancelMessage
  <2>3. id \in Requests /\ m \in Methods \cup {"clearRecoverySession"}
    BY <2>1, <2>2 DEF Messages
  <2>4. m = sent[id] /\ call[id] # "unused"
    BY <1>1, <2>1 DEF SentAsAsked
  <2> QED BY <1>1, <2>3, <2>4, MethodsAssumption DEF AllMethods
<1> HIDE DEF message, id, m
<1>3. /\ SignerMoves(id) /\ reply'[id] = reply[id] /\ derived' = derived
  BY <1>1, <1>2, AcceptMoves
<1>4. PostsAll
  BY <1>1, <1>2, <1>3, EventsOfPosts
<1>5. method[id] = "none" /\ method' = [method EXCEPT ![id] = m]
  BY <1>1 DEF Accept
<1>6. method' \in [Requests -> AllMethods \cup {"none"}] /\ used' \in [Requests -> OrNone(Passkeys)]
  BY <1>1, <1>2, <1>5 DEF MessagesTyped, OrNone
<1>7. \A q \in Requests :
        /\ method[q] # "none" => used'[q] = used[q] /\ method'[q] = method[q]
        /\ method'[q] # "none" => method'[q] = sent[q] /\ call[q] # "unused"
  BY <1>1, <1>2, <1>5 DEF MessagesTyped, SentAsAsked
<1>8. \A q \in Requests : q \in derived' /\ method'[q] \in AtOnce => reply'[q] # "none"
  <2>1. id \notin derived
    BY <1>2, <1>5 DEF SentAsAsked
  <2>2. \A q \in Requests : reply[q] # "none" => reply'[q] # "none"
    BY <1>3 DEF SignerMoves, OneDenied
  <2> QED BY <1>2, <1>3, <1>5, <2>1, <2>2 DEF SentAsAsked, MessagesTyped
<1>9. \A q \in Requests : method'[q] = "none" => message # Request(q, sent[q])
  BY <1>2, <1>5 DEF Request, MessagesTyped, id, AllMethods
<1> QED BY <1>1, <1>3, <1>4, <1>6, <1>7, <1>8, <1>9 DEF SignerTurn, message

\* A step that only denies leaves the requests with their methods.
LEMMA DropTurn ==
  ASSUME MessagesTyped, SentAsAsked, Drop
  PROVE  /\ SignerMoves(None)
         /\ UNCHANGED <<method, derived>>
         /\ \A q \in Requests :
              /\ method[q] # "none" => method'[q] = method[q]
              /\ method'[q] # "none" => method'[q] = sent[q] /\ call[q] # "unused"
              /\ q \in derived' /\ method'[q] \in AtOnce => reply'[q] # "none"
<1>1. SignerMoves(None) /\ UNCHANGED <<method, derived>>
  BY DropMoves DEF Drop
<1>2. \A q \in Requests : reply[q] # "none" => reply'[q] # "none"
  BY <1>1, NoneAssumption DEF SignerMoves, OneDenied
<1> QED BY <1>1, <1>2 DEF SentAsAsked

\* Every step of the Signing Layer is such a turn.
LEMMA SignerTurns ==
  ASSUME MessagesTyped, SentAsAsked, Signer
  PROVE  SignerTurn
<1>1. CASE SignerAccepts
  BY <1>1, AcceptsTurn
<1>2. CASE SignerCancels
  <2>1. /\ toSigner # <<>> /\ Head(toSigner) = CancelMessage /\ Drop /\ DropEvents
        /\ toSigner' = Tail(toSigner)
        /\ UNCHANGED <<used, call, sent, address, solana, last, destroyed>>
    BY <1>2 DEF SignerCancels, branding, cacheVars
  <2>2. PostsAll
    BY <2>1, DropTurn, DropEventsPost
  <2>3. \A q \in Requests : Head(toSigner) # Request(q, sent[q])
    <3>1. \A q \in Requests : Request(q, sent[q]).kind = "request" /\ CancelMessage.kind = "cancel"
      BY DEF Request, CancelMessage
    <3> QED BY <2>1, <3>1
  <2> QED BY <2>1, <2>2, <2>3, DropTurn DEF SignerTurn, MessagesTyped
<1>3. CASE SignerDenies
  <2>1. /\ Drop
        /\ \E q \in Requests : reply'[q] # reply[q] /\ toBranding' = toBranding \o Posted(q)
        /\ UNCHANGED <<used, toSigner, call, sent, address, solana, last, destroyed>>
    BY <1>3 DEF SignerDenies, branding, cacheVars
  <2>2. PostsAll
    BY <2>1, DropTurn, DropEventsPost DEF DropEvents
  <2> QED BY <2>1, <2>2, DropTurn DEF SignerTurn, MessagesTyped
<1>4. ASSUME NEW r \in Requests, SignerPosts(r) PROVE SignerTurn
  <2>1. PICK derives \in BOOLEAN, e \in Failures \cup {"none", Success(method[r])} :
          Post(r, derives, e)
    BY <1>4 DEF SignerPosts
  <2>2. /\ EventsOf(r)
        /\ UNCHANGED <<used, toSigner, call, sent, address, solana, last, destroyed>>
    BY <1>4 DEF SignerPosts, branding, cacheVars
  <2>3. /\ SignerMoves(r) /\ method' = method
        /\ r \in derived' /\ method[r] \in AtOnce => reply'[r] # "none"
    BY <2>1, PostMoves
  <2>4. PostsAll
    BY <2>2, <2>3, EventsOfPosts
  <2>5. \A q \in Requests : q \in derived' /\ method'[q] \in AtOnce => reply'[q] # "none"
    <3>1. \A q \in Requests : reply[q] # "none" => reply'[q] # "none"
      BY <2>3 DEF SignerMoves, OneDenied
    <3>2. \A q \in Requests \ {r} : q \in derived' => q \in derived
      BY <2>3 DEF SignerMoves
    <3> QED BY <2>3, <3>1, <3>2 DEF SentAsAsked
  <2> QED BY <2>2, <2>3, <2>4, <2>5 DEF SignerTurn, MessagesTyped, SentAsAsked
<1> QED BY <1>1, <1>2, <1>3, <1>4 DEF Signer

-----------------------------------------------------------------------------
OnItsWay(r) ==
  \/ method[r] = "none" /\ \E i \in 1..Len(toSigner) : toSigner[i] = Request(r, sent[r])
  \/ r \in Open
  \/ \E i \in 1..Len(toBranding) : Terminal(r, toBranding[i])

AnswersOnTheirWay == ~destroyed => \A r \in Requests : call[r] = "pending" => OnItsWay(r)

\* The formula in the form the proofs use is the property of the runs.
LEMMA QueuedOnTheWay ==
  ASSUME MessagesTyped PROVE AnswersOnTheirWay <=> AnswerOnItsWay
<1>1. DOMAIN toSigner = 1..Len(toSigner) /\ DOMAIN toBranding = 1..Len(toBranding)
  BY DEF MessagesTyped
<1> QED BY <1>1 DEF AnswersOnTheirWay, AnswerOnItsWay, OnItsWay, Queued

QueueInv ==
  /\ MessagesTyped
  /\ SentAsAsked
  /\ TogetherAfter(toBranding)
  /\ WaitingForNext
  /\ CachesAgree
  /\ AnswersOnTheirWay

\* Every event in a queue is about a request.
LEMMA EventIds ==
  ASSUME NEW s \in Seq(Events), NEW i \in 1..Len(s)
  PROVE  s[i].id \in Requests
<1>1. s[i] \in Events
  OBVIOUS
<1> QED BY <1>1 DEF Events

\* A turn of the Signing Layer keeps the invariant: what it takes from one queue
\* or from the open requests, it puts into the other.
LEMMA TurnKeeps ==
  ASSUME IInv, QueueInv, SignerTurn
  PROVE  QueueInv'
<1>1. PICK t : /\ toBranding' = toBranding \o t
               /\ Appends(t)
               /\ \A q \in Requests : Ends(t, q)
  BY DEF SignerTurn, PostsAll
<1>2. PICK r : SignerMoves(r)
  BY DEF SignerTurn
<1>3. MessagesTyped /\ SentAsAsked /\ TogetherAfter(toBranding) /\ WaitingForNext
      /\ CachesAgree /\ AnswersOnTheirWay
  BY DEF QueueInv
<1>4. /\ toBranding \in Seq(Events) /\ t \in Seq(Events) /\ toBranding' \in Seq(Events)
      /\ Len(toBranding') = Len(toBranding) + Len(t)
      /\ \A i \in 1..Len(toBranding) : toBranding'[i] = toBranding[i]
      /\ \A i \in 1..Len(t) : toBranding'[Len(toBranding) + i] = t[i]
      /\ \A i \in 1..Len(toBranding') :
           \/ i \in 1..Len(toBranding) /\ toBranding'[i] = toBranding[i]
           \/ i - Len(toBranding) \in 1..Len(t) /\ toBranding'[i] = t[i - Len(toBranding)]
  BY <1>1, <1>3 DEF Appends, MessagesTyped
<1>a. /\ UNCHANGED <<call, sent, address, solana, last, destroyed>>
      /\ toSigner' = toSigner \/ (toSigner # <<>> /\ toSigner' = Tail(toSigner))
      /\ \A q \in Requests : method[q] # "none" => used'[q] = used[q] /\ method'[q] = method[q]
  BY DEF SignerTurn
<1>b. /\ toSigner' \in Seq(Messages)
      /\ \A i \in 1..Len(toSigner') : \E j \in 1..Len(toSigner) : toSigner'[i] = toSigner[j]
  <2>1. CASE toSigner' = toSigner
    BY <1>3, <2>1 DEF MessagesTyped
  <2>2. CASE toSigner # <<>> /\ toSigner' = Tail(toSigner)
    <3>1. /\ toSigner' \in Seq(Messages) /\ Len(toSigner') = Len(toSigner) - 1
          /\ \A i \in 1..Len(toSigner') : toSigner'[i] = toSigner[i+1]
          /\ Len(toSigner) \in Nat
      BY <1>3, <2>2 DEF MessagesTyped
    <3>2. \A i \in 1..Len(toSigner') : i + 1 \in 1..Len(toSigner)
      BY <3>1
    <3> QED BY <3>1, <3>2
  <2> QED BY <1>a, <2>1, <2>2
<1>c. \A i \in 1..Len(toBranding) : toBranding[i].id \in Requests
  BY <1>4, EventIds
<1>5. MessagesTyped'
  <2>1. toSigner' \in Seq(Messages)
    BY <1>b
  <2>2. reply' \in [Requests -> Replies \cup {"none"}]
    BY <1>2 DEF SignerMoves
  <2>3. derived' \in SUBSET Requests
    BY <1>2 DEF SignerMoves
  <2> QED BY <1>3, <1>4, <2>1, <2>2, <2>3 DEF SignerTurn, MessagesTyped
<1>6. \A q \in Requests : reply'[q] # "none" \/ q \in derived' => method'[q] # "none"
  <2> TAKE q \in Requests
  <2>1. CASE q = r
    BY <1>2, <2>1 DEF SignerMoves
  <2>2. CASE q # r
    BY <1>2, <1>3, <2>2 DEF SignerMoves, OneDenied, SignerTurn, SentAsAsked
  <2> QED BY <2>1, <2>2
<1>7. SentAsAsked'
  <2>1. \A i \in 1..Len(toBranding') : method'[toBranding'[i].id] # "none"
    <3>1. \A i \in 1..Len(t) : method'[t[i].id] # "none"
      BY <1>1 DEF Appends
    <3>2. \A i \in 1..Len(toBranding) : method'[toBranding[i].id] # "none"
      BY <1>3, <1>a, <1>c DEF SentAsAsked
    <3> QED BY <1>4, <3>1, <3>2
  <2>2. \A i \in 1..Len(toSigner') : toSigner'[i].kind = "request" =>
          /\ toSigner'[i].method = sent[toSigner'[i].id]
          /\ call[toSigner'[i].id] # "unused"
    BY <1>3, <1>a, <1>b DEF SentAsAsked
  <2> QED BY <1>6, <2>1, <2>2 DEF SignerTurn, SentAsAsked
<1>8. TogetherAfter(toBranding)'
  <2>1. TogetherAfter(toBranding \o t)
    BY <1>1, <1>3, <1>4, TogetherAfterConcat DEF Appends
  <2>2. \A i \in 1..Len(toBranding') : method'[toBranding'[i].id] # "none" /\ toBranding'[i].id \in Requests
    BY <1>4, <1>7, EventIds DEF SentAsAsked
  <2>3. \A q \in Requests : method[q] # "none" /\ FilledBy(q) => FilledBy(q)'
    BY <1>a DEF FilledBy, Live
  <2>4. toBranding # <<>> => method[toBranding'[1].id] # "none"
    <3>1. toBranding # <<>> => 1 \in 1..Len(toBranding)
      BY <1>4
    <3>2. \A i \in 1..Len(toBranding) : method[toBranding[i].id] # "none"
      BY <1>3 DEF SentAsAsked
    <3> QED BY <1>4, <3>1, <3>2
  <2>5. TogetherAfter(toBranding')
    BY <1>1, <2>1
  <2> SUFFICES ASSUME NEW i \in 1..Len(toBranding'), NEW q, q = toBranding'[i].id
               PROVE  /\ toBranding'[i].event = "CredentialCreated" /\ sent[q] = "createCredential" =>
                           IF i = 1 THEN FilledBy(q)' ELSE toBranding'[i-1] = Event("KeyDerived", q)
                      /\ toBranding'[i].event = "PublicKey" /\ sent[q] = "getPublicKey.challenge" =>
                           i < Len(toBranding') /\ toBranding'[i+1] = Event("ChallengeSigned", q)
    BY <1>a DEF TogetherAfter, Event
  <2>6. /\ toBranding'[i].event = "CredentialCreated" /\ sent[q] = "createCredential" =>
              IF i = 1 THEN FilledBy(q) ELSE toBranding'[i-1] = Event("KeyDerived", q)
        /\ toBranding'[i].event = "PublicKey" /\ sent[q] = "getPublicKey.challenge" =>
              i < Len(toBranding') /\ toBranding'[i+1] = Event("ChallengeSigned", q)
    BY <2>5 DEF TogetherAfter
  <2>7. CASE i # 1
    BY <2>6, <2>7
  <2>8. CASE i = 1 /\ toBranding # <<>>
    BY <2>2, <2>3, <2>4, <2>6, <2>8
  <2>9. CASE i = 1 /\ toBranding = <<>>
    <3>1. Len(toBranding) = 0 /\ 1 \in 1..Len(t) /\ toBranding'[1] = t[1]
      BY <1>4, <2>9
    <3>2. ~(t[1].event = "CredentialCreated" /\ sent[q] = "createCredential")
      BY <1>1, <2>9, <3>1 DEF Appends, Together
    <3> QED BY <2>6, <2>9, <3>1, <3>2
  <2> QED BY <2>7, <2>8, <2>9
<1>9. WaitingForNext'
  <2>1. toBranding # <<>> => toBranding' # <<>> /\ Head(toBranding') = Head(toBranding)
    BY <1>4
  <2> QED BY <1>3, <2>1 DEF WaitingForNext, SignerTurn
<1>10. CachesAgree'
  BY <1>3 DEF CachesAgree, SignerTurn
<1>11. AnswersOnTheirWay'
  <2> SUFFICES ASSUME ~destroyed, NEW q \in Requests, call[q] = "pending"
               PROVE  OnItsWay(q)'
    BY DEF AnswersOnTheirWay, SignerTurn
  <2>1. \A i \in 1..Len(toBranding') :
          Terminal(q, toBranding'[i]) => OnItsWay(q)'
    BY <1>a DEF OnItsWay, Terminal
  <2>2. CASE \E i \in 1..Len(toBranding) : Terminal(q, toBranding[i])
    <3>1. PICK i \in 1..Len(toBranding) : Terminal(q, toBranding[i])
      BY <2>2
    <3>2. i \in 1..Len(toBranding') /\ toBranding'[i] = toBranding[i]
      BY <1>4
    <3> QED BY <2>1, <3>1, <3>2
  <2>3. CASE q \in Open /\ q \notin Open'
    <3>1. reply'[q] # reply[q]
      BY <2>3 DEF Open, SignerTurn
    <3>2. PICK i \in 1..Len(t) : Terminal(q, t[i])
      BY <1>1, <3>1 DEF Ends
    <3>3. Len(toBranding) + i \in 1..Len(toBranding')
      BY <1>4
    <3>4. Terminal(q, toBranding'[Len(toBranding) + i])
      BY <1>4, <3>2
    <3> QED BY <2>1, <3>3, <3>4
  <2>4. CASE /\ method[q] = "none"
             /\ \E i \in 1..Len(toSigner) : toSigner[i] = Request(q, sent[q])
    <3>1. CASE method'[q] # "none"
      <4>1. reply'[q] = "none" \/ reply'[q] # reply[q]
        BY <1>3, <2>4 DEF SentAsAsked
      <4>2. CASE reply'[q] = "none"
        BY <3>1, <4>2 DEF OnItsWay, Open
      <4>3. CASE reply'[q] # reply[q]
        <5>1. PICK i \in 1..Len(t) : Terminal(q, t[i])
          BY <1>1, <4>3 DEF Ends
        <5>2. Len(toBranding) + i \in 1..Len(toBranding')
          BY <1>4
        <5>3. Terminal(q, toBranding'[Len(toBranding) + i])
          BY <1>4, <5>1
        <5> QED BY <2>1, <5>2, <5>3
      <4> QED BY <4>1, <4>2, <4>3
    <3>2. CASE method'[q] = "none"
      <4>1. PICK i \in 1..Len(toSigner) : toSigner[i] = Request(q, sent[q])
        BY <2>4
      <4>2. CASE toSigner' = toSigner
        BY <3>2, <4>1, <4>2 DEF OnItsWay, Request, SignerTurn
      <4>3. CASE toSigner # <<>> /\ toSigner' = Tail(toSigner) /\ Head(toSigner) # Request(q, sent[q])
        <5>1. i # 1
          BY <1>3, <4>1, <4>3 DEF MessagesTyped
        <5>2. i - 1 \in 1..Len(toSigner') /\ toSigner'[i-1] = toSigner[i]
          BY <1>3, <4>3, <5>1 DEF MessagesTyped
        <5> QED BY <3>2, <4>1, <5>2 DEF OnItsWay, Request, SignerTurn
      <4> QED BY <3>2, <4>2, <4>3 DEF SignerTurn
    <3> QED BY <3>1, <3>2
  <2> QED BY <1>3, <2>2, <2>3, <2>4 DEF AnswersOnTheirWay, OnItsWay
<1> QED BY <1>5, <1>7, <1>8, <1>9, <1>10, <1>11 DEF QueueInv

-----------------------------------------------------------------------------
\* A new call r of method m, the calls made before it kept or rejected.
NewCall(r, m) ==
  /\ call[r] = "unused" /\ call'[r] \in {"pending", "rejected"}
  /\ sent' = [sent EXCEPT ![r] = m]
  /\ \A q \in Requests \ {r} : call'[q] \in {call[q], "rejected"} /\ (call'[q] = "unused" => call[q] = "unused")
  /\ \A q \in Requests \ {r} : call'[q] # "unused" => call[q] # "unused"
  /\ UNCHANGED <<method, reply, derived, used, toBranding, destroyed>>
  /\ \/ toSigner' = toSigner /\ call'[r] = "rejected"
     \/ \E w \in {<<CancelMessage, Request(r, m)>>,
                  <<CancelMessage, CancelMessage, Request(r, m)>>} :
          toSigner' = toSigner \o w
  /\ CachesAgree'
  /\ \/ UNCHANGED <<address, solana, last>>
     \/ \A q \in Requests \ {r} : call'[q] \notin {"pending", "waiting"}

\* A new call keeps the invariant: its request is in the queue, and what it
\* rejects no longer waits.
LEMMA NewCallKeeps ==
  ASSUME IInv, IInv', QueueInv, NEW r \in Requests,
         NEW m \in Methods \cup {"clearRecoverySession"}, NewCall(r, m)
  PROVE  QueueInv'
<1>1. MessagesTyped /\ SentAsAsked /\ TogetherAfter(toBranding) /\ WaitingForNext
      /\ CachesAgree /\ AnswersOnTheirWay
  BY DEF QueueInv
<1>2. /\ method[r] = "none"
      /\ UNCHANGED <<method, reply, derived, used, toBranding, destroyed>>
      /\ sent' \in [Requests -> Methods \cup {"none", "clearRecoverySession"}]
      /\ sent'[r] = m /\ \A q \in Requests \ {r} : sent'[q] = sent[q]
  BY <1>1 DEF NewCall, SentAsAsked, MessagesTyped
<1>3. \A i \in 1..Len(toBranding) : toBranding[i].id \in Requests \ {r}
  BY <1>1, <1>2, EventIds DEF SentAsAsked, MessagesTyped
<1>4. CancelMessage \in Messages /\ Request(r, m) \in Messages
  BY DEF Messages, Request
<1>5. /\ toSigner' \in Seq(Messages)
      /\ \A i \in 1..Len(toSigner) : i \in 1..Len(toSigner') /\ toSigner'[i] = toSigner[i]
      /\ \A i \in 1..Len(toSigner') :
           i \notin 1..Len(toSigner) => toSigner'[i] \in {CancelMessage, Request(r, m)}
      /\ call'[r] = "pending" => \E i \in 1..Len(toSigner') : toSigner'[i] = Request(r, m)
  <2> DEFINE q == Request(r, m)
  <2>0. q \in Messages
    BY <1>4
  <2> HIDE DEF q
  <2>1. CASE toSigner' = toSigner /\ call'[r] = "rejected"
    BY <1>1, <2>1 DEF MessagesTyped
  <2>2. CASE toSigner' = toSigner \o <<CancelMessage, q>>
    <3>1. toSigner \in Seq(Messages) /\ <<CancelMessage, q>> \in Seq(Messages)
      BY <1>1, <1>4, <2>0 DEF MessagesTyped
    <3>2. /\ Len(toSigner) \in Nat /\ Len(toSigner') = Len(toSigner) + 2
          /\ toSigner'[Len(toSigner) + 1] = CancelMessage
          /\ toSigner'[Len(toSigner) + 2] = q
          /\ \A i \in 1..Len(toSigner) : toSigner'[i] = toSigner[i]
          /\ toSigner' \in Seq(Messages)
      BY <3>1, <2>2
    <3> QED BY <3>2 DEF q
  <2>3. CASE toSigner' = toSigner \o <<CancelMessage, CancelMessage, q>>
    <3>1. toSigner \in Seq(Messages) /\ <<CancelMessage, CancelMessage, q>> \in Seq(Messages)
      BY <1>1, <1>4, <2>0 DEF MessagesTyped
    <3>2. /\ Len(toSigner) \in Nat /\ Len(toSigner') = Len(toSigner) + 3
          /\ toSigner'[Len(toSigner) + 1] = CancelMessage
          /\ toSigner'[Len(toSigner) + 2] = CancelMessage
          /\ toSigner'[Len(toSigner) + 3] = q
          /\ \A i \in 1..Len(toSigner) : toSigner'[i] = toSigner[i]
          /\ toSigner' \in Seq(Messages)
      BY <3>1, <2>3
    <3> QED BY <3>2 DEF q
  <2> QED BY <2>1, <2>2, <2>3 DEF NewCall, q
<1>6. MessagesTyped'
  BY <1>1, <1>2, <1>5 DEF MessagesTyped
<1>7. SentAsAsked'
  <2>1. \A i \in 1..Len(toSigner') : toSigner'[i].kind = "request" =>
          toSigner'[i].method = sent'[toSigner'[i].id] /\ call'[toSigner'[i].id] # "unused"
    <3> SUFFICES ASSUME NEW i \in 1..Len(toSigner'), toSigner'[i].kind = "request"
                 PROVE  toSigner'[i].method = sent'[toSigner'[i].id] /\ call'[toSigner'[i].id] # "unused"
      OBVIOUS
    <3>1. CASE i \in 1..Len(toSigner)
      <4>1. toSigner'[i] = toSigner[i] /\ toSigner[i] \in Messages /\ toSigner[i].kind = "request"
        BY <1>1, <1>5, <3>1 DEF MessagesTyped
      <4>2. toSigner[i].id \in Requests
        BY <4>1 DEF Messages, CancelMessage
      <4>3. toSigner[i].method = sent[toSigner[i].id] /\ call[toSigner[i].id] # "unused"
        BY <1>1, <3>1, <4>1 DEF SentAsAsked
      <4> QED BY <1>2, <4>1, <4>2, <4>3 DEF NewCall
    <3>2. CASE i \notin 1..Len(toSigner)
      <4>1. toSigner'[i] = Request(r, m)
        BY <1>5, <3>2 DEF CancelMessage
      <4> QED BY <1>2, <4>1 DEF NewCall, Request
    <3> QED BY <3>1, <3>2
  <2>2. \A q \in Requests : method[q] # "none" => method[q] = sent'[q] /\ call'[q] # "unused"
    BY <1>1, <1>2 DEF SentAsAsked, NewCall
  <2> QED BY <1>1, <1>2, <2>1, <2>2 DEF SentAsAsked
<1>8. TogetherAfter(toBranding)'
  <2>1. \A q \in Requests \ {r} : FilledBy(q) => FilledBy(q)'
    BY <1>2 DEF NewCall, FilledBy, Live
  <2>2. \A q \in Requests \ {r} : sent'[q] = sent[q]
    BY <1>2
  <2> SUFFICES ASSUME NEW i \in 1..Len(toBranding), NEW q, q = toBranding[i].id
               PROVE  /\ toBranding[i].event = "CredentialCreated" /\ sent'[q] = "createCredential" =>
                           IF i = 1 THEN FilledBy(q)' ELSE toBranding[i-1] = Event("KeyDerived", q)
                      /\ toBranding[i].event = "PublicKey" /\ sent'[q] = "getPublicKey.challenge" =>
                           i < Len(toBranding) /\ toBranding[i+1] = Event("ChallengeSigned", q)
    BY <1>2 DEF TogetherAfter, Event
  <2>3. q \in Requests \ {r}
    BY <1>3
  <2> QED BY <1>1, <2>1, <2>2, <2>3 DEF TogetherAfter
<1>9. WaitingForNext'
  BY <1>1, <1>2 DEF WaitingForNext, NewCall
<1>10. AnswersOnTheirWay'
  <2> SUFFICES ASSUME ~destroyed, NEW q \in Requests, call'[q] = "pending"
               PROVE  OnItsWay(q)'
    BY <1>2 DEF AnswersOnTheirWay
  <2>1. CASE q = r
    BY <1>2, <1>5, <2>1 DEF OnItsWay
  <2>2. CASE q # r
    <3>1. OnItsWay(q) /\ sent'[q] = sent[q]
      BY <1>1, <1>2, <2>2 DEF NewCall, AnswersOnTheirWay
    <3>2. CASE method[q] = "none" /\ \E i \in 1..Len(toSigner) : toSigner[i] = Request(q, sent[q])
      BY <1>2, <1>5, <3>1, <3>2 DEF OnItsWay, Request
    <3>3. CASE q \in Open
      BY <1>2, <3>3 DEF OnItsWay, Open
    <3>4. CASE \E i \in 1..Len(toBranding) : Terminal(q, toBranding[i])
      BY <1>2, <3>1, <3>4 DEF OnItsWay, Terminal
    <3> QED BY <3>1, <3>2, <3>3, <3>4 DEF OnItsWay
  <2> QED BY <2>1, <2>2
<1> QED BY <1>6, <1>7, <1>8, <1>9, <1>10 DEF QueueInv, NewCall

\* Calling a method of OWSSigner is a new call (client.ts request).
LEMMA CallIsNew ==
  ASSUME IInv, QueueInv, NEW r \in Requests, NEW m \in Methods, Call(r, m)
  PROVE  NewCall(r, m)
<1>1. /\ call[r] = "unused" /\ sent' = [sent EXCEPT ![r] = m]
      /\ call' = [call EXCEPT ![r] = IF destroyed THEN "rejected" ELSE "pending"]
      /\ IF destroyed THEN toSigner' = toSigner
         ELSE toSigner' = toSigner \o <<CancelMessage, Request(r, m)>>
      /\ UNCHANGED <<method, reply, derived, used, toBranding, destroyed, address, solana, last>>
  BY DEF Call, NextId, Send, signerVars, contractVars, cacheVars
<1>2. call \in [Requests -> Calls] /\ CachesAgree
  BY DEF IInv, CallTyped, QueueInv
<1>3. CachesAgree'
  BY <1>1, <1>2 DEF CachesAgree
<1> QED BY <1>1, <1>2, <1>3 DEF NewCall

\* So is clearSession, which rejects all others first (owssigner.ts clearSession).
LEMMA ClearSessionIsNew ==
  ASSUME IInv, QueueInv, NEW r \in Requests, ClearSession(r)
  PROVE  NewCall(r, "clearRecoverySession")
<1> DEFINE m == "clearRecoverySession"
<1>1. /\ call[r] = "unused" /\ sent' = [sent EXCEPT ![r] = m]
      /\ IF destroyed THEN call' = [call EXCEPT ![r] = "rejected"] /\ toSigner' = toSigner
         ELSE /\ call' = [RejectAll EXCEPT ![r] = "pending"]
              /\ toSigner' = toSigner \o <<CancelMessage, CancelMessage, Request(r, m)>>
      /\ UNCHANGED <<method, reply, derived, used, toBranding, destroyed>>
      /\ address' = None /\ solana' = None /\ last' = NoKeys
  BY DEF ClearSession, NextId, Send, Reset, signerVars, contractVars
<1>2. CallTyped /\ GoneIsSettled
  BY DEF IInv
<1>3. CachesAgree'
  BY <1>1 DEF CachesAgree, NoKeys
<1>4. CASE destroyed
  BY <1>1, <1>2, <1>3, <1>4 DEF NewCall, CallTyped, GoneIsSettled, Live
<1>5. CASE ~destroyed
  <2>1. \A q \in Requests : RejectAll[q] = IF Live(q) THEN "rejected" ELSE call[q]
    BY DEF RejectAll
  <2>2. RejectAll \in [Requests -> Calls]
    BY <1>2 DEF RejectAll, CallTyped, Calls
  <2>3. call'[r] = "pending" /\ \A q \in Requests \ {r} : call'[q] = RejectAll[q]
    BY <1>1, <1>5, <2>2
  <2> QED BY <1>1, <1>2, <1>3, <1>5, <2>1, <2>3 DEF NewCall, Live
<1> QED BY <1>4, <1>5

-----------------------------------------------------------------------------
\* A method that succeeds writes all caches or, after KeyDerived, the same again.
LEMMA SucceedAgrees ==
  ASSUME NEW r, Succeed(r), CachesAgree,
         sent[r] = "createCredential" => address = used[r]
  PROVE  CachesAgree'
<1> USE DEF CachesAgree
<1>1. CASE sent[r] = "createCredential"
  BY <1>1 DEF Succeed
<1>2. CASE sent[r] \in {"executeBatch", "executeBatch.challenge"}
  <2>1. \/ UNCHANGED <<address, solana, last>>
        \/ \E id : CacheAddresses(r) /\ last' = [keys |-> used[r], credential |-> id]
    BY <1>2 DEF Succeed
  <2> QED BY <2>1 DEF CacheAddresses
<1>3. CASE sent[r] \notin {"createCredential", "executeBatch", "executeBatch.challenge"}
  BY <1>3 DEF Succeed, CacheAddresses, cacheVars
<1> QED BY <1>1, <1>2, <1>3

\* What handleMessage does with the first event, of request r.
Handled(r, e) ==
  \/ ~Live(r) /\ UNCHANGED <<call, address, solana, last>>
  \/ Live(r) /\ e \in Rejecting /\ call' = [call EXCEPT ![r] = "rejected"]
     /\ UNCHANGED <<address, solana, last>>
  \/ Live(r) /\ e = "KeyDerived" /\ call' = call
     /\ address' = used[r] /\ solana' = used[r] /\ last'.keys = used[r]
  \/ Live(r) /\ e = "PublicKey" /\ sent[r] = "getPublicKey.challenge"
     /\ call' = [call EXCEPT ![r] = "waiting"]
     /\ address' = used[r] /\ solana' = used[r] /\ last'.keys = used[r]
  \/ Live(r) /\ e = Success(sent[r]) /\ call' = [call EXCEPT ![r] = "resolved"]
     /\ Succeed(r)

\* handleMessage, in these terms.
LEMMA HandledOf ==
  ASSUME HandleMessage
  PROVE  /\ toBranding # <<>> /\ toBranding' = Tail(toBranding)
         /\ Handled(Head(toBranding).id, Head(toBranding).event)
         /\ UNCHANGED <<method, reply, derived, used, toSigner, sent, destroyed>>
<1> DEFINE r == Head(toBranding).id
           e == Head(toBranding).event
<1>1. \/ ~Live(r) /\ UNCHANGED <<call, cacheVars>>
      \/ Live(r) /\ e \in Rejecting /\ Settle(r, "rejected") /\ UNCHANGED cacheVars
      \/ Live(r) /\ e = "KeyDerived" /\ KeyDerived(r) /\ UNCHANGED call
      \/ Live(r) /\ e = "PublicKey" /\ sent[r] = "getPublicKey.challenge"
         /\ KeyDerived(r) /\ call' = [call EXCEPT ![r] = "waiting"]
      \/ Live(r) /\ e = Success(sent[r]) /\ Settle(r, "resolved") /\ Succeed(r)
  BY DEF HandleMessage, Rejecting, Failures
<1> HIDE DEF r, e
<1>2. Handled(r, e)
  BY <1>1 DEF Handled, Settle, KeyDerived, CacheAddresses, cacheVars
<1> QED BY <1>2 DEF HandleMessage, signerVars, contractVars, r, e

\* Handling the first event keeps the invariant (client.ts handleMessage).
LEMMA HandleMessageKeeps ==
  ASSUME IInv, QueueInv, HandleMessage
  PROVE  QueueInv'
<1> DEFINE h == Head(toBranding)
           r == h.id
           e == h.event
<1>1. MessagesTyped /\ SentAsAsked /\ TogetherAfter(toBranding) /\ WaitingForNext
      /\ CachesAgree /\ AnswersOnTheirWay /\ call \in [Requests -> Calls]
  BY DEF QueueInv, IInv, CallTyped
<1>2. /\ toBranding # <<>> /\ toBranding' = Tail(toBranding)
      /\ Handled(r, e)
      /\ UNCHANGED <<method, reply, derived, used, toSigner, sent, destroyed>>
  BY HandledOf
<1>3. /\ Len(toBranding) \in Nat /\ Len(toBranding) > 0 /\ h = toBranding[1]
      /\ toBranding' \in Seq(Events) /\ Len(toBranding') = Len(toBranding) - 1
      /\ \A i \in 1..Len(toBranding') : i + 1 \in 1..Len(toBranding) /\ toBranding'[i] = toBranding[i+1]
      /\ \A i \in 1..Len(toBranding) : i # 1 => i - 1 \in 1..Len(toBranding') /\ toBranding'[i-1] = toBranding[i]
  BY <1>1, <1>2 DEF MessagesTyped
<1>4. r \in Requests /\ method[r] # "none" /\ method[r] = sent[r] /\ call[r] # "unused"
  BY <1>1, <1>3, EventIds DEF MessagesTyped, SentAsAsked
<1>5. /\ \A i \in 1..Len(toBranding) : toBranding[i].event = "CredentialCreated"
           /\ sent[toBranding[i].id] = "createCredential" =>
             IF i = 1 THEN FilledBy(toBranding[i].id)
                      ELSE toBranding[i-1] = Event("KeyDerived", toBranding[i].id)
      /\ \A i \in 1..Len(toBranding) : toBranding[i].event = "PublicKey"
           /\ sent[toBranding[i].id] = "getPublicKey.challenge" =>
             i < Len(toBranding) /\ toBranding[i+1] = Event("ChallengeSigned", toBranding[i].id)
  BY <1>1 DEF TogetherAfter
<1>6. \A q \in Requests : call[q] = "waiting" =>
        sent[q] = "getPublicKey.challenge" /\ h = Event("ChallengeSigned", q)
  BY <1>1, <1>2 DEF WaitingForNext
<1>7. Success(sent[r]) \notin {"KeyDerived", "SignDenied", "NotAllowed", "none"}
  BY SuccessEvents
<1> HIDE DEF h, r, e
<1>8. MessagesTyped'
  BY <1>1, <1>2, <1>3 DEF MessagesTyped
<1>9. \A q \in Requests : q # r => call'[q] = call[q]
  BY <1>1, <1>2 DEF Handled
<1>10. call'[r] # "unused"
  BY <1>1, <1>2, <1>4 DEF Handled
<1>11. SentAsAsked'
  <2>1. \A q \in Requests : call[q] # "unused" => call'[q] # "unused"
    BY <1>9, <1>10
  <2>2. \A i \in 1..Len(toBranding') : method[toBranding'[i].id] # "none"
    BY <1>1, <1>3 DEF SentAsAsked
  <2>3. \A i \in 1..Len(toSigner) : toSigner[i].kind = "request" =>
          toSigner[i].method = sent[toSigner[i].id] /\ call'[toSigner[i].id] # "unused"
    <3> SUFFICES ASSUME NEW i \in 1..Len(toSigner), toSigner[i].kind = "request"
                 PROVE  toSigner[i].method = sent[toSigner[i].id] /\ call'[toSigner[i].id] # "unused"
      OBVIOUS
    <3>1. toSigner[i] \in Messages
      BY <1>1 DEF MessagesTyped
    <3>2. toSigner[i].id \in Requests
      BY <3>1 DEF Messages, CancelMessage
    <3> QED BY <1>1, <2>1, <3>2 DEF SentAsAsked
  <2> QED BY <1>1, <1>2, <2>1, <2>2, <2>3 DEF SentAsAsked
<1>12. CachesAgree'
  <2>1. CASE UNCHANGED <<address, solana, last>>
    BY <1>1, <2>1 DEF CachesAgree
  <2>2. CASE address' = used[r] /\ solana' = used[r] /\ last'.keys = used[r]
    BY <2>2 DEF CachesAgree
  <2>3. CASE Live(r) /\ e = Success(sent[r]) /\ Succeed(r)
    <3>1. sent[r] = "createCredential" => address = used[r]
      <4>1. SUFFICES ASSUME sent[r] = "createCredential" PROVE address = used[r]
        OBVIOUS
      <4>2. toBranding[1].event = "CredentialCreated" /\ toBranding[1].id = r
        BY <1>3, <2>3, <4>1, SuccessEvents DEF r, e
      <4> QED BY <1>3, <1>5, <2>3, <4>1, <4>2 DEF FilledBy
    <3> QED BY <1>1, <2>3, <3>1, SucceedAgrees
  <2> QED BY <1>2, <2>1, <2>2, <2>3 DEF Handled
<1>13. TogetherAfter(toBranding)'
  <2> SUFFICES ASSUME NEW i \in 1..Len(toBranding'), NEW q, q = toBranding'[i].id
               PROVE  /\ toBranding'[i].event = "CredentialCreated" /\ sent[q] = "createCredential" =>
                           IF i = 1 THEN FilledBy(q)' ELSE toBranding'[i-1] = Event("KeyDerived", q)
                      /\ toBranding'[i].event = "PublicKey" /\ sent[q] = "getPublicKey.challenge" =>
                           i < Len(toBranding') /\ toBranding'[i+1] = Event("ChallengeSigned", q)
    BY <1>2 DEF TogetherAfter, Event
  <2>1. toBranding'[i] = toBranding[i+1] /\ i + 1 \in 1..Len(toBranding)
    BY <1>3
  <2>2. ASSUME toBranding'[i].event = "PublicKey", sent[q] = "getPublicKey.challenge"
        PROVE  i < Len(toBranding') /\ toBranding'[i+1] = Event("ChallengeSigned", q)
    <3>1. i + 1 < Len(toBranding) /\ toBranding[i+2] = Event("ChallengeSigned", q)
      BY <1>5, <2>1, <2>2
    <3> QED BY <1>3, <3>1
  <2>3. ASSUME toBranding'[i].event = "CredentialCreated", sent[q] = "createCredential"
        PROVE  toBranding[i] = Event("KeyDerived", q)
    BY <1>5, <2>1, <2>3
  <2>4. ASSUME i = 1, h = Event("KeyDerived", q) PROVE FilledBy(q)'
    <3>1. r = q /\ e = "KeyDerived"
      BY <2>4 DEF r, e, Event
    <3>2. \/ ~Live(r) /\ call' = call
          \/ address' = used[r] /\ solana' = used[r] /\ last'.keys = used[r]
      BY <1>2, <1>7, <3>1 DEF Handled, Rejecting
    <3> QED BY <1>2, <3>1, <3>2 DEF FilledBy, Live
  <2>5. ASSUME i # 1, toBranding[i] = Event("KeyDerived", q)
        PROVE  toBranding'[i-1] = Event("KeyDerived", q)
    BY <1>3, <2>5
  <2> QED BY <1>3, <2>2, <2>3, <2>4, <2>5
<1>14. WaitingForNext'
  <2> SUFFICES ASSUME NEW q \in Requests, call'[q] = "waiting"
               PROVE  /\ sent[q] = "getPublicKey.challenge"
                      /\ toBranding' # <<>> /\ Head(toBranding') = Event("ChallengeSigned", q)
    BY <1>2 DEF WaitingForNext, Event
  <2>1. call[q] # "waiting"
    <3>1. SUFFICES ASSUME call[q] = "waiting" PROVE call'[q] # "waiting"
      OBVIOUS
    <3>2. r = q /\ e = "ChallengeSigned" /\ sent[q] = "getPublicKey.challenge"
      BY <1>6, <3>1 DEF r, e, Event
    <3> QED BY <1>1, <1>2, <3>1, <3>2 DEF Handled, Live, Rejecting
  <2>2. q = r /\ e = "PublicKey" /\ sent[r] = "getPublicKey.challenge"
    BY <1>1, <1>2, <1>9, <2>1 DEF Handled
  <2>3. 1 < Len(toBranding) /\ toBranding[2] = Event("ChallengeSigned", q)
    BY <1>3, <1>5, <2>2 DEF r, e
  <2> QED BY <1>3, <2>2, <2>3
<1>15. AnswersOnTheirWay'
  <2> SUFFICES ASSUME ~destroyed, NEW q \in Requests, call'[q] = "pending"
               PROVE  OnItsWay(q)'
    BY <1>2 DEF AnswersOnTheirWay
  <2>1. call[q] = "pending"
    BY <1>1, <1>2, <1>9 DEF Handled
  <2>2. OnItsWay(q)
    BY <1>1, <2>1 DEF AnswersOnTheirWay
  <2>3. CASE \E i \in 1..Len(toBranding) : Terminal(q, toBranding[i])
    <3>1. PICK i \in 1..Len(toBranding) : Terminal(q, toBranding[i])
      BY <2>3
    <3>2. i # 1
      <4>1. SUFFICES ASSUME i = 1 PROVE call'[q] # "pending"
        OBVIOUS
      <4>2. r = q /\ e \in Rejecting \cup {Success(sent[q])}
        BY <1>3, <3>1, <4>1 DEF Terminal, r, e
      <4>3. e # "KeyDerived"
        BY <1>7, <4>2 DEF Rejecting
      <4> QED BY <1>1, <1>2, <2>1, <4>2, <4>3 DEF Handled, Live
    <3> QED BY <1>2, <1>3, <3>1, <3>2 DEF OnItsWay, Terminal
  <2>4. CASE q \in Open
    BY <1>2, <2>4 DEF OnItsWay, Open
  <2>5. CASE method[q] = "none" /\ \E i \in 1..Len(toSigner) : toSigner[i] = Request(q, sent[q])
    BY <1>2, <2>5 DEF OnItsWay, Request
  <2> QED BY <2>2, <2>3, <2>4, <2>5 DEF OnItsWay
<1> QED BY <1>8, <1>11, <1>12, <1>13, <1>14, <1>15 DEF QueueInv

\* The timer of alsoWaitFor settles a call that has its keys (client.ts).
LEMMA TimeoutKeeps ==
  ASSUME IInv, QueueInv, NEW r \in Requests, AlsoWaitForTimeout(r)
  PROVE  QueueInv'
<1>1. /\ MessagesTyped /\ SentAsAsked /\ TogetherAfter(toBranding) /\ WaitingForNext
      /\ CachesAgree /\ AnswersOnTheirWay /\ call \in [Requests -> Calls]
  BY DEF QueueInv, IInv, CallTyped
<1>2. /\ call[r] = "waiting" /\ call' = [call EXCEPT ![r] = "rejected"] /\ Succeed(r)
      /\ UNCHANGED <<method, reply, derived, used, toSigner, toBranding, sent, destroyed>>
  BY DEF AlsoWaitForTimeout, Settle, signerVars, contractVars
<1>3. /\ sent[r] = "getPublicKey.challenge" /\ toBranding # <<>>
      /\ Head(toBranding) = Event("ChallengeSigned", r)
  BY <1>1, <1>2 DEF WaitingForNext
<1>4. toBranding[1].event = "ChallengeSigned" /\ toBranding[1].id = r
  BY <1>3 DEF Event
<1>5. CachesAgree'
  BY <1>1, <1>2, <1>3, SucceedAgrees
<1>6. MessagesTyped'
  BY <1>1, <1>2 DEF MessagesTyped
<1>7. \A q \in Requests : /\ call[q] # "unused" => call'[q] # "unused"
                          /\ call'[q] \in {"pending", "waiting"} => call'[q] = call[q]
  BY <1>1, <1>2
<1>8. SentAsAsked'
  <2>1. \A i \in 1..Len(toSigner) : toSigner[i].kind = "request" => toSigner[i].id \in Requests
    <3> TAKE i \in 1..Len(toSigner)
    <3>1. toSigner[i] \in Messages
      BY <1>1 DEF MessagesTyped
    <3> QED BY <3>1 DEF Messages, CancelMessage
  <2> QED BY <1>1, <1>2, <1>7, <2>1 DEF SentAsAsked
<1>9. TogetherAfter(toBranding)'
  <2> SUFFICES ASSUME NEW i \in 1..Len(toBranding), NEW q, q = toBranding[i].id
               PROVE  /\ toBranding[i].event = "CredentialCreated" /\ sent[q] = "createCredential" =>
                           IF i = 1 THEN FilledBy(q)' ELSE toBranding[i-1] = Event("KeyDerived", q)
                      /\ toBranding[i].event = "PublicKey" /\ sent[q] = "getPublicKey.challenge" =>
                           i < Len(toBranding) /\ toBranding[i+1] = Event("ChallengeSigned", q)
    BY <1>2 DEF TogetherAfter, Event
  <2> QED BY <1>1, <1>4 DEF TogetherAfter
<1>10. WaitingForNext'
  BY <1>1, <1>2, <1>7 DEF WaitingForNext, Event
<1>11. AnswersOnTheirWay'
  BY <1>1, <1>2, <1>7 DEF AnswersOnTheirWay, OnItsWay, Open, Request, Terminal
<1> QED BY <1>5, <1>6, <1>8, <1>9, <1>10, <1>11 DEF QueueInv

\* destroy leaves no message and no call.
LEMMA DestroyKeeps ==
  ASSUME IInv, QueueInv, Destroy
  PROVE  QueueInv'
<1>1. /\ toSigner' = <<>> /\ toBranding' = <<>> /\ destroyed'
      /\ method' = [r \in Requests |-> "none"] /\ reply' = [r \in Requests |-> "none"]
      /\ derived' = {} /\ used' = [r \in Requests |-> None]
      /\ UNCHANGED <<sent, address, solana, last>> /\ call' = RejectAll
  BY DEF Destroy, cacheVars
<1>2. MessagesTyped'
  BY <1>1 DEF QueueInv, MessagesTyped, OrNone
<1>3. SentAsAsked' /\ TogetherAfter(toBranding)'
  BY <1>1 DEF SentAsAsked, TogetherAfter
<1>4. WaitingForNext'
  BY <1>1 DEF WaitingForNext, RejectAll, Live
<1>5. CachesAgree' /\ AnswersOnTheirWay'
  BY <1>1 DEF QueueInv, CachesAgree, AnswersOnTheirWay
<1> QED BY <1>2, <1>3, <1>4, <1>5 DEF QueueInv

\* Before the first call there is no message.
LEMMA QueueInit == Init => QueueInv
<1> SUFFICES ASSUME Init PROVE QueueInv
  OBVIOUS
<1>1. MessagesTyped
  BY DEF Init, ContractInit, MessagesTyped, OrNone
<1>2. SentAsAsked /\ TogetherAfter(toBranding) /\ WaitingForNext
  BY DEF Init, ContractInit, SentAsAsked, TogetherAfter, WaitingForNext
<1>3. CachesAgree /\ AnswersOnTheirWay
  BY DEF Init, CachesAgree, AnswersOnTheirWay, NoKeys
<1> QED BY <1>1, <1>2, <1>3 DEF QueueInv

\* A step that changes nothing keeps the invariant.
LEMMA StutterKeeps ==
  ASSUME QueueInv, UNCHANGED vars
  PROVE  QueueInv'
<1>1. UNCHANGED <<method, reply, derived, toSigner, toBranding, call, sent, used,
                  address, solana, last, destroyed>>
  BY DEF vars, contractVars, cacheVars
<1>2. (MessagesTyped /\ SentAsAsked /\ WaitingForNext /\ CachesAgree)'
  BY <1>1 DEF QueueInv, MessagesTyped, SentAsAsked, WaitingForNext, CachesAgree, Event
<1>3. TogetherAfter(toBranding)'
  BY <1>1 DEF QueueInv, TogetherAfter, FilledBy, Live, Event
<1>4. AnswersOnTheirWay'
  BY <1>1 DEF QueueInv, AnswersOnTheirWay, OnItsWay, Open, Terminal, Request
<1> QED BY <1>2, <1>3, <1>4 DEF QueueInv

-----------------------------------------------------------------------------
\* Every step of either layer keeps the invariant.
LEMMA QueueStep ==
  ASSUME IInv, QueueInv, [Next]_vars
  PROVE  QueueInv'
<1>1. IInv'
  BY InvStep
<1>2. CASE Signer
  BY <1>2, SignerTurns, TurnKeeps DEF QueueInv
<1>3. CASE HandleMessage
  BY <1>3, HandleMessageKeeps
<1>4. CASE Destroy
  BY <1>4, DestroyKeeps
<1>5. ASSUME NEW r \in Requests, ClearSession(r)
      PROVE  QueueInv'
  BY <1>1, <1>5, ClearSessionIsNew, NewCallKeeps
<1>6. ASSUME NEW r \in Requests, AlsoWaitForTimeout(r)
      PROVE  QueueInv'
  BY <1>6, TimeoutKeeps
<1>7. ASSUME NEW r \in Requests, NEW m \in Methods, Call(r, m)
      PROVE  QueueInv'
  BY <1>1, <1>7, CallIsNew, NewCallKeeps
<1>8. CASE UNCHANGED vars
  BY <1>8, StutterKeeps
<1> QED
  BY <1>2, <1>3, <1>4, <1>5, <1>6, <1>7, <1>8 DEF Next, Branding

\* Both invariants hold in every state.
LEMMA QueueInvariance == Spec => [](IInv /\ QueueInv)
<1>1. Init => IInv /\ QueueInv
  BY InitInv, QueueInit
<1>2. (IInv /\ QueueInv) /\ [Next]_vars => (IInv /\ QueueInv)'
  BY InvStep, QueueStep
<1> QED
  BY <1>1, <1>2, PTL DEF Spec

\* The cached addresses and the last public keys are of one key at every moment,
\* in whatever order calls, answers and resets follow each other (owssigner.ts
\* cacheAddressesFromPublicKeys, client.ts onKeyDerived).
THEOREM CachesAgreeCorrect == Spec => []CachesAgree
<1>1. QueueInv => CachesAgree
  BY DEF QueueInv
<1> QED
  BY <1>1, QueueInvariance, PTL

\* No answer is lost: a pending call has its request under way, a handler of the
\* Signing Layer that has yet to answer, or its terminal event under way
\* (client.ts request and handleMessage).
THEOREM AnswerCorrect == Spec => []AnswerOnItsWay
<1>1. QueueInv => AnswerOnItsWay
  BY QueuedOnTheWay DEF QueueInv
<1> QED
  BY <1>1, QueueInvariance, PTL

\* The Signing Layer works on no request but one a call made, under the method
\* it was made for, and posts events of no other (client.ts request).
THEOREM RequestsCorrect == Spec => []SentAsAsked
<1>1. QueueInv => SentAsAsked
  BY DEF QueueInv
<1> QED
  BY <1>1, QueueInvariance, PTL

-----------------------------------------------------------------------------
(* What a call resolves with. *)

\* A call resolves only if the Signing Layer answered it, and with the success of
\* its own method, as long as the iframe is there.
ResolvedAsAnswered ==
  ~destroyed => \A r \in Requests : call[r] = "resolved" => reply[r] = Success(sent[r])

\* The invariant: what is under way is an event of the request it names, and a
\* request is answered with a failure or with the success of its method.
AnsweredInv ==
  /\ \A i \in 1..Len(toBranding) : EventOf(toBranding[i], derived, reply)
  /\ \A r \in Requests : reply[r] # "none" => reply[r] \in Failures \cup {Success(sent[r])}
  /\ ResolvedAsAnswered

\* A request that is answered keeps its answer, and its events stay its events.
LEMMA EventStays ==
  ASSUME NEW e, EventOf(e, derived, reply), derived \subseteq derived',
         reply[e.id] # "none" => reply'[e.id] = reply[e.id]
  PROVE  EventOf(e, derived', reply')
BY DEF EventOf

\* The Signing Layer answers nothing twice and posts only what it answers.
LEMMA TurnAnswers ==
  ASSUME QueueInv, AnsweredInv, SignerTurn
  PROVE  AnsweredInv'
<1>1. PICK t : toBranding' = toBranding \o t /\ Appends(t)
  BY DEF SignerTurn, PostsAll
<1>2. PICK r : SignerMoves(r)
  BY DEF SignerTurn
<1>3. toBranding \in Seq(Events) /\ t \in Seq(Events)
  BY <1>1 DEF QueueInv, MessagesTyped, Appends
<1>4. \A i \in 1..Len(toBranding') :
        \/ i \in 1..Len(toBranding) /\ toBranding'[i] = toBranding[i]
        \/ i - Len(toBranding) \in 1..Len(t) /\ toBranding'[i] = t[i - Len(toBranding)]
  BY <1>1, <1>3
<1>5. \A q \in Requests :
        /\ reply[q] # "none" => reply'[q] = reply[q]
        /\ reply'[q] # reply[q] => reply'[q] \in Failures \cup {Success(sent[q])}
  BY <1>2 DEF SignerMoves, OneDenied, ProperAnswer, Failures
<1>6. derived \subseteq derived' /\ UNCHANGED <<call, sent, destroyed>>
  BY <1>2 DEF SignerMoves, SignerTurn
<1>7. \A i \in 1..Len(toBranding') : EventOf(toBranding'[i], derived', reply')
  <2>1. \A i \in 1..Len(toBranding) : EventOf(toBranding[i], derived', reply')
    BY <1>3, <1>5, <1>6, EventIds, EventStays DEF AnsweredInv
  <2>2. \A i \in 1..Len(t) : EventOf(t[i], derived', reply')
    BY <1>1 DEF Appends
  <2> QED BY <1>4, <2>1, <2>2
<1>8. \A q \in Requests : reply'[q] # "none" => reply'[q] \in Failures \cup {Success(sent[q])}
  BY <1>5 DEF AnsweredInv
<1>9. ResolvedAsAnswered'
  BY <1>5, <1>6, SuccessEvents DEF AnsweredInv, ResolvedAsAnswered
<1> QED BY <1>6, <1>7, <1>8, <1>9 DEF AnsweredInv

\* A step that leaves the Signing Layer's answers alone and resolves no call.
LEMMA NoneResolves ==
  ASSUME AnsweredInv, UNCHANGED <<reply, derived, toBranding>>,
         destroyed' = destroyed,
         \A r \in Requests : /\ reply[r] # "none" => sent'[r] = sent[r]
                             /\ call'[r] = "resolved" => call[r] = "resolved"
  PROVE  AnsweredInv'
<1>1. \A r \in Requests : reply[r] # "none" => reply[r] \in Failures \cup {Success(sent'[r])}
  BY DEF AnsweredInv
<1>2. ResolvedAsAnswered'
  BY SuccessEvents DEF AnsweredInv, ResolvedAsAnswered
<1> QED BY <1>1, <1>2 DEF AnsweredInv

\* The event that resolves a call is the answer of its own request.
LEMMA HandledAnswers ==
  ASSUME IInv, QueueInv, AnsweredInv, HandleMessage
  PROVE  AnsweredInv'
<1> DEFINE h == Head(toBranding)
           r == h.id
           e == h.event
<1>1. /\ toBranding # <<>> /\ toBranding' = Tail(toBranding) /\ Handled(r, e)
      /\ UNCHANGED <<reply, derived, sent, destroyed>>
  BY HandledOf
<1>2. /\ toBranding \in Seq(Events) /\ call \in [Requests -> Calls]
  BY DEF QueueInv, MessagesTyped, IInv, CallTyped
<1>3. /\ 1 \in 1..Len(toBranding) /\ h = toBranding[1]
      /\ \A i \in 1..Len(toBranding') : i + 1 \in 1..Len(toBranding) /\ toBranding'[i] = toBranding[i+1]
  BY <1>1, <1>2
<1>4. r \in Requests /\ EventOf(h, derived, reply)
  BY <1>2, <1>3, EventIds DEF AnsweredInv
<1>5. reply[r] # "none" => reply[r] \in Failures \cup {Success(sent[r])}
  BY <1>4 DEF AnsweredInv
<1> HIDE DEF h
<1>6. e = Success(sent[r]) => reply[r] = Success(sent[r])
  <2> SUFFICES ASSUME e = Success(sent[r])
               PROVE  reply[r] = Success(sent[r])
    OBVIOUS
  <2>1. e # "KeyDerived"
    BY SuccessEvents
  <2>2. ~(e = "PublicKey" /\ reply[r] = "ChallengeSigned")
    BY <1>5 DEF Failures
  <2> QED BY <1>4, <2>1, <2>2 DEF EventOf
<1>7. \A q \in Requests : call'[q] = "resolved" =>
        call[q] = "resolved" \/ reply[q] = Success(sent[q])
  BY <1>1, <1>2, <1>4, <1>6 DEF Handled
<1>8. ResolvedAsAnswered'
  BY <1>1, <1>7 DEF AnsweredInv, ResolvedAsAnswered
<1>9. \A i \in 1..Len(toBranding') : EventOf(toBranding'[i], derived, reply)
  BY <1>3 DEF AnsweredInv
<1> QED BY <1>1, <1>8, <1>9 DEF AnsweredInv

\* Every step of either layer keeps the invariant.
LEMMA AnsweredStep ==
  ASSUME IInv, QueueInv, AnsweredInv, [Next]_vars
  PROVE  AnsweredInv'
<1>1. CASE Signer
  BY <1>1, SignerTurns, TurnAnswers DEF QueueInv
<1>2. CASE HandleMessage
  BY <1>2, HandledAnswers
<1>3. CASE Destroy
  <2>1. toBranding' = <<>> /\ reply' = [r \in Requests |-> "none"] /\ destroyed'
    BY <1>3 DEF Destroy
  <2> QED BY <2>1 DEF AnsweredInv, ResolvedAsAnswered
<1>4. ASSUME NEW r \in Requests, NEW m, NewCall(r, m)
      PROVE  AnsweredInv'
  <2>1. /\ UNCHANGED <<reply, derived, toBranding, destroyed>>
        /\ sent' = [sent EXCEPT ![r] = m] /\ call[r] = "unused"
        /\ \A q \in Requests : call'[q] = "resolved" => call[q] = "resolved"
    BY <1>4 DEF NewCall
  <2>2. reply[r] = "none"
    BY <2>1 DEF QueueInv, SentAsAsked
  <2>3. \A q \in Requests : reply[q] # "none" => sent'[q] = sent[q]
    BY <2>1, <2>2 DEF QueueInv, MessagesTyped
  <2> QED BY <2>1, <2>3, NoneResolves
<1>5. ASSUME NEW r \in Requests, ClearSession(r)
      PROVE  AnsweredInv'
  BY <1>4, <1>5, ClearSessionIsNew
<1>6. ASSUME NEW r \in Requests, NEW m \in Methods, Call(r, m)
      PROVE  AnsweredInv'
  BY <1>4, <1>6, CallIsNew
<1>7. ASSUME NEW r \in Requests, AlsoWaitForTimeout(r)
      PROVE  AnsweredInv'
  <2>1. call' = [call EXCEPT ![r] = "rejected"]
        /\ UNCHANGED <<reply, derived, toBranding, sent, destroyed>>
    BY <1>7 DEF AlsoWaitForTimeout, Settle, signerVars, contractVars
  <2>2. \A q \in Requests : call'[q] = "resolved" => call[q] = "resolved"
    BY <2>1 DEF IInv, CallTyped
  <2> QED BY <2>1, <2>2, NoneResolves
<1>8. CASE UNCHANGED vars
  BY <1>8, NoneResolves DEF vars, contractVars
<1> QED
  BY <1>1, <1>2, <1>3, <1>5, <1>6, <1>7, <1>8 DEF Next, Branding

\* A call resolves only with the success that the Signing Layer posted for this
\* very request and its method: no event of another call, no part of an answer
\* and no late event of a superseded one resolves it (client.ts handleMessage).
THEOREM ResolvedCorrect == Spec => []ResolvedAsAnswered
<1>1. Init => AnsweredInv
  BY DEF Init, ContractInit, AnsweredInv, ResolvedAsAnswered
<1>2. IInv /\ QueueInv /\ AnsweredInv /\ [Next]_vars => AnsweredInv'
  BY AnsweredStep
<1>3. AnsweredInv => ResolvedAsAnswered
  BY DEF AnsweredInv
<1> QED
  BY <1>1, <1>2, <1>3, QueueInvariance, PTL DEF Spec

-----------------------------------------------------------------------------
(* Types. *)

CachesTyped ==
  /\ credentialId \in OrNone(Passkeys)
  /\ address \in OrNone(Passkeys)
  /\ solana \in OrNone(Passkeys)
  /\ last \in [keys : OrNone(Passkeys), credential : OrNone(Passkeys)]
  /\ writer \in OrNone(Requests)

PanelTyped == panelUp \in BOOLEAN /\ captured \in [Requests -> BOOLEAN]

\* Finitely many calls were made, so that one of those under way is the latest.
CallsBounded == \E n \in Nat : \A q \in Requests : call[q] # "unused" => q <= n

\* What the client remembers besides its calls and the queues.
MemoryTyped == /\ CachesTyped /\ PanelTyped /\ CallsBounded
               /\ asked \in [Requests -> OrNone(Passkeys)]
               /\ destroyed \in BOOLEAN

\* A set of numbers has a least one.
LEMMA LeastNatural ==
  ASSUME NEW T \in SUBSET Nat, T # {}
  PROVE  \E n \in T : \A m \in T : n <= m
<1>1. PICK R : R = OpToRel(<, Nat)
  OBVIOUS
<1>2. IsWellFoundedOn(R, Nat)
  BY <1>1, NatLessThanWellFounded
<1>3. PICK n \in T : \A m \in T : <<m, n>> \notin R
  BY <1>2, WFMin
<1>4. \A m \in T : ~(m < n)
  <2>1. R = {ss \in Nat \X Nat : ss[1] < ss[2]}
    BY <1>1 DEF OpToRel
  <2>2. \A m \in Nat, k \in Nat : m < k => <<m, k>> \in R
    BY <2>1
  <2> QED  BY <1>3, <2>2
<1> QED  BY <1>4

\* The least bound of calls is one of them: the latest.
LEMMA LatestCall ==
  ASSUME NEW S \in SUBSET Requests, S # {}, NEW n \in Nat, \A q \in S : q <= n
  PROVE  (CHOOSE r \in S : \A q \in S : q <= r) \in S
<1> DEFINE T == {m \in Nat : \A q \in S : q <= m}
<1>1. T \in SUBSET Nat /\ n \in T
  OBVIOUS
<1>2. PICK m \in T : \A k \in T : m <= k
  BY <1>1, LeastNatural
<1>3. S \subseteq Nat
  BY RequestsAssumption
<1>4. m \in S
  <2> SUFFICES ASSUME m \notin S PROVE FALSE
    OBVIOUS
  <2>1. \A q \in S : q <= m - 1
    BY <1>2, <1>3
  <2>2. PICK q \in S : q \in Nat /\ q <= m - 1
    BY <1>3, <2>1
  <2>3. m - 1 \in T
    BY <2>1, <2>2
  <2> QED  BY <1>2, <2>3
<1> QED  BY <1>2, <1>4

\* The styles that are restored were captured by a call.
LEMMA RestoreTyped ==
  ASSUME PanelTyped, CallsBounded, Restore(LiveCalls) \/ \E r \in LiveCalls : Restore({r})
  PROVE  PanelTyped'
<1>1. PICK S \in SUBSET LiveCalls : Restore(S)
  OBVIOUS
<1> DEFINE shown == {r \in S : sent[r] \notin WithoutPanel}
           first == CHOOSE r \in shown : \A q \in shown : q <= r
<1>2. captured' = captured /\ panelUp' = IF shown = {} THEN panelUp ELSE captured[first]
  BY <1>1 DEF Restore
<1>3. shown \in SUBSET Requests /\ \A q \in shown : call[q] # "unused"
  BY DEF LiveCalls, Live
<1>4. PICK n \in Nat : \A q \in Requests : call[q] # "unused" => q <= n
  BY DEF CallsBounded
<1> HIDE DEF shown
<1>5. shown # {} => first \in Requests
  BY <1>3, <1>4, LatestCall
<1> HIDE DEF first
<1> QED  BY <1>2, <1>5 DEF PanelTyped

\* What a method writes when it succeeds.
LEMMA SucceedTyped ==
  ASSUME CachesTyped, NEW r \in Requests, Succeed(r),
         used \in [Requests -> OrNone(Passkeys)], asked \in [Requests -> OrNone(Passkeys)]
  PROVE  CachesTyped'
<1>1. used[r] \in OrNone(Passkeys) /\ asked[r] \in OrNone(Passkeys) /\ None \in OrNone(Passkeys)
  BY DEF OrNone
<1>2. r \in OrNone(Requests)
  BY DEF OrNone
<1>3. \A id \in OrNone(Passkeys), k \in OrNone(Passkeys) : Named(id, k) \in OrNone(Passkeys)
  BY DEF Named
<1>4. CASE sent[r] \in {"createCredential", "createCredential.defer"}
  BY <1>1, <1>2, <1>4 DEF Succeed, CachesTyped
<1>5. CASE sent[r] \in {"getPublicKey", "getPublicKey.challenge"}
  <2>1. /\ credentialId' = used[r] /\ address' = used[r] /\ solana' = used[r]
        /\ last' = [keys |-> used[r], credential |-> used[r]] /\ writer' = r
    BY <1>5 DEF Succeed, CacheAddresses
  <2> QED  BY <1>1, <1>2, <2>1 DEF CachesTyped
<1>6. CASE sent[r] = "signDigest"
  <2>1. /\ UNCHANGED <<address, solana, last>>
        /\ \/ UNCHANGED <<credentialId, writer>>
           \/ credentialId' = Named(asked[r], IF r \in derived THEN used[r] ELSE credentialId)
              /\ writer' = r
    BY <1>6 DEF Succeed
  <2> QED  BY <1>1, <1>2, <1>3, <2>1 DEF CachesTyped
<1>7. CASE sent[r] \in {"executeBatch", "executeBatch.challenge"}
  <2>1. PICK k \in BatchCredentials(r) :
          /\ credentialId' = Named(Named(asked[r], k), credentialId) /\ writer' = r
          /\ \/ UNCHANGED <<address, solana, last>>
             \/ /\ address' = used[r] /\ solana' = used[r]
                /\ last' = [keys |-> used[r], credential |-> Named(asked[r], k)]
    BY <1>7 DEF Succeed, CacheAddresses
  <2>2. k \in OrNone(Passkeys)
    BY <1>1 DEF BatchCredentials
  <2>3. Named(asked[r], k) \in OrNone(Passkeys)
    BY <1>1, <1>3, <2>2
  <2>4. credentialId' \in OrNone(Passkeys) /\ writer' \in OrNone(Requests)
    BY <1>2, <1>3, <2>1, <2>3 DEF CachesTyped
  <2>5. address' \in OrNone(Passkeys) /\ solana' \in OrNone(Passkeys)
        /\ last' \in [keys : OrNone(Passkeys), credential : OrNone(Passkeys)]
    BY <1>1, <2>1, <2>3 DEF CachesTyped
  <2> QED  BY <2>4, <2>5 DEF CachesTyped
<1>8. CASE UNCHANGED cacheVars
  BY <1>8 DEF CachesTyped, cacheVars
<1> QED  BY <1>4, <1>5, <1>6, <1>7, <1>8 DEF Succeed

\* An id that is new is above those in use, or the calls stay bounded anyway.
LEMMA NewIsBounded ==
  ASSUME CallsBounded, NEW r \in Requests,
         \A q \in Requests : call'[q] # "unused" => q = r \/ call[q] # "unused"
  PROVE  CallsBounded'
<1>1. PICK n \in Nat : \A q \in Requests : call[q] # "unused" => q <= n
  BY DEF CallsBounded
<1>2. r \in Nat /\ n + r \in Nat
  BY RequestsAssumption
<1>3. \A q \in Requests : call'[q] # "unused" => q <= n + r
  BY <1>1, <1>2, RequestsAssumption
<1> QED  BY <1>2, <1>3 DEF CallsBounded

\* A new call remembers what it asks for and the styles it finds.
LEMMA CallTypes ==
  ASSUME IInv, QueueInv, MemoryTyped, NEW r \in Requests, NEW m \in Methods, Call(r, m)
  PROVE  MemoryTyped'
<1>1. PICK k \in Credentials(m) : asked' = [asked EXCEPT ![r] = k]
  BY DEF Call
<1>2. k \in OrNone(Passkeys)
  BY DEF Credentials, MemoryTyped, CachesTyped, OrNone
<1>3. UNCHANGED <<cacheVars, destroyed>>
  BY DEF Call
<1>4. PanelTyped'
  BY DEF Call, ShowPanel, panelVars, MemoryTyped, PanelTyped
<1>5. CallsBounded'
  BY CallIsNew, NewIsBounded DEF NewCall, MemoryTyped
<1> QED  BY <1>1, <1>2, <1>3, <1>4, <1>5 DEF MemoryTyped, CachesTyped, cacheVars

\* clearSession forgets and restores.
LEMMA ClearSessionTypes ==
  ASSUME IInv, QueueInv, MemoryTyped, NEW r \in Requests, ClearSession(r)
  PROVE  MemoryTyped'
<1>1. Restore(LiveCalls) /\ Reset /\ UNCHANGED <<asked, destroyed>>
  BY DEF ClearSession
<1>2. PanelTyped'
  BY <1>1, RestoreTyped DEF MemoryTyped
<1>3. CallsBounded'
  BY ClearSessionIsNew, NewIsBounded DEF NewCall, MemoryTyped
<1>4. CachesTyped'
  BY <1>1 DEF Reset, NoKeys, CachesTyped, OrNone
<1> QED  BY <1>1, <1>2, <1>3, <1>4 DEF MemoryTyped

\* So does destroy, which rejects every call and makes none.
LEMMA DestroyTypes ==
  ASSUME MemoryTyped, Destroy
  PROVE  MemoryTyped'
<1>1. /\ Restore(LiveCalls) /\ UNCHANGED <<asked, cacheVars>> /\ destroyed' = TRUE
      /\ call' = RejectAll
  BY DEF Destroy
<1>2. PanelTyped'
  BY <1>1, RestoreTyped DEF MemoryTyped
<1>3. \A q \in Requests : call'[q] # "unused" => call[q] # "unused"
  BY <1>1 DEF RejectAll, Live
<1>4. CallsBounded'
  BY <1>3 DEF MemoryTyped, CallsBounded
<1> QED  BY <1>1, <1>2, <1>4 DEF MemoryTyped, CachesTyped, cacheVars

\* A call that goes on or settles.
LEMMA SettleTypes ==
  ASSUME IInv, MemoryTyped, NEW r \in Requests, Live(r), NEW outcome,
         call' = [call EXCEPT ![r] = outcome],
         UNCHANGED panelVars \/ Restore({r}), CachesTyped', UNCHANGED <<asked, destroyed>>
  PROVE  MemoryTyped'
<1>1. PanelTyped'
  BY RestoreTyped DEF MemoryTyped, LiveCalls, PanelTyped, panelVars
<1>2. \A q \in Requests : call'[q] # "unused" => call[q] # "unused"
  BY DEF IInv, CallTyped, Live
<1>3. CallsBounded'
  BY <1>2 DEF MemoryTyped, CallsBounded
<1> QED  BY <1>1, <1>3 DEF MemoryTyped

\* The event of a call writes only what the Signing Layer took the keys from.
LEMMA HandleMessageTypes ==
  ASSUME IInv, QueueInv, MemoryTyped, HandleMessage
  PROVE  MemoryTyped'
<1> DEFINE r == Head(toBranding).id
           e == Head(toBranding).event
<1>1. r \in Requests /\ UNCHANGED <<asked, destroyed>>
  <2>1. toBranding \in Seq(Events) /\ toBranding # <<>>
    BY DEF HandleMessage, QueueInv, MessagesTyped
  <2>2. 1 \in 1..Len(toBranding) /\ Head(toBranding) = toBranding[1]
    BY <2>1
  <2> QED  BY <2>1, <2>2, EventIds DEF HandleMessage
<1>2. /\ used \in [Requests -> OrNone(Passkeys)] /\ CachesTyped
      /\ asked \in [Requests -> OrNone(Passkeys)] /\ call \in [Requests -> Calls]
  BY DEF QueueInv, MessagesTyped, MemoryTyped, IInv, CallTyped
<1>3. /\ KeyDerived(r) => CachesTyped'
      /\ UNCHANGED cacheVars => CachesTyped'
  <2>1. used[r] \in OrNone(Passkeys) /\ r \in OrNone(Requests)
    BY <1>1, <1>2 DEF OrNone
  <2>2. KeyDerived(r) => CachesTyped'
    BY <1>2, <2>1 DEF KeyDerived, CacheAddresses, CachesTyped
  <2>3. UNCHANGED cacheVars => CachesTyped'
    BY <1>2 DEF CachesTyped, cacheVars
  <2> QED  BY <2>2, <2>3
<1>4. \/ UNCHANGED <<call, cacheVars, panelVars>>
      \/ Live(r) /\ Settle(r, "rejected") /\ UNCHANGED cacheVars
      \/ (KeyDerived(r) \/ UNCHANGED cacheVars) /\ UNCHANGED <<call, panelVars>>
      \/ Live(r) /\ KeyDerived(r) /\ call' = [call EXCEPT ![r] = "waiting"] /\ UNCHANGED panelVars
      \/ Live(r) /\ Settle(r, "resolved") /\ Succeed(r)
  BY DEF HandleMessage
<1> HIDE DEF r, e
<1>5. CASE UNCHANGED <<call, panelVars>> /\ CachesTyped'
  BY <1>1, <1>5 DEF MemoryTyped, PanelTyped, CallsBounded, panelVars
<1>6. CASE Live(r) /\ Settle(r, "rejected") /\ UNCHANGED cacheVars
  BY <1>1, <1>3, <1>6, SettleTypes DEF Settle
<1>7. CASE /\ Live(r) /\ KeyDerived(r) /\ call' = [call EXCEPT ![r] = "waiting"]
           /\ UNCHANGED panelVars
  BY <1>1, <1>3, <1>7, SettleTypes
<1>8. CASE Live(r) /\ Settle(r, "resolved") /\ Succeed(r)
  BY <1>1, <1>2, <1>8, SucceedTyped, SettleTypes DEF Settle
<1> QED  BY <1>3, <1>4, <1>5, <1>6, <1>7, <1>8

\* Every step of either layer keeps the types.
LEMMA MemoryStep ==
  ASSUME IInv, QueueInv, MemoryTyped, [Next]_vars
  PROVE  MemoryTyped'
<1>1. CASE Signer \/ UNCHANGED vars
  <2>1. UNCHANGED <<call, asked, cacheVars, panelVars, destroyed>>
    BY <1>1 DEF Signer, SignerAccepts, SignerCancels, SignerDenies, SignerPosts, branding, vars
  <2> QED  BY <2>1 DEF MemoryTyped, CachesTyped, PanelTyped, CallsBounded, cacheVars, panelVars
<1>2. ASSUME NEW r \in Requests, AlsoWaitForTimeout(r)
      PROVE  MemoryTyped'
  <2>1. /\ Live(r) /\ call' = [call EXCEPT ![r] = "rejected"] /\ Restore({r}) /\ Succeed(r)
        /\ UNCHANGED <<asked, destroyed>>
    BY <1>2 DEF AlsoWaitForTimeout, Settle, Live
  <2>2. CachesTyped'
    BY <2>1, SucceedTyped DEF MemoryTyped, QueueInv, MessagesTyped
  <2> QED  BY <2>1, <2>2, SettleTypes
<1> QED
  BY <1>1, <1>2, HandleMessageTypes, DestroyTypes, ClearSessionTypes, CallTypes DEF Next, Branding

\* Every variable keeps its type: in particular whatever the caches hold is a passkey
\* of a request, and restoring the ceremony panel always finds the styles of a call
\* that captured some, as finitely many calls were made (owssigner.ts
\* withCeremonyPanel).
THEOREM TypeCorrect == Spec => []TypeOK
<1>1. Init => MemoryTyped
  <2> SUFFICES ASSUME Init PROVE MemoryTyped
    OBVIOUS
  <2>1. CachesTyped
    BY DEF Init, CachesTyped, OrNone, NoKeys
  <2>2. CallsBounded
    <3>1. \A q \in Requests : call[q] # "unused" => q <= 0
      BY DEF Init
    <3> QED  BY <3>1 DEF CallsBounded
  <2> QED  BY <2>1, <2>2 DEF Init, MemoryTyped, PanelTyped, OrNone
<1>2. IInv /\ QueueInv /\ MemoryTyped /\ [Next]_vars => MemoryTyped'
  BY MemoryStep
<1>3. IInv /\ QueueInv /\ MemoryTyped => TypeOK
  BY DEF IInv, CallTyped, QueueInv, MessagesTyped, MemoryTyped, CachesTyped, PanelTyped, TypeOK
<1> QED
  BY <1>1, <1>2, <1>3, QueueInvariance, PTL DEF Spec
=============================================================================
