------------------------ MODULE SigningLayer_proofs -------------------------
(***************************************************************************)
(* Machine-checked proofs about SigningLayer, for any set of requests and  *)
(* any set of methods.  The inductive invariant IInv strengthens the lock, *)
(* waiter and session properties with where a handler can be for each      *)
(* method (MethodPhase), which buffer it reads (SourcePhase) and how far   *)
(* an aborted ceremony can have come (AbortedPhase).                       *)
(***************************************************************************)
EXTENDS SigningLayer, TLAPS

Starters == {"importPrivateKey", "recoverKey", "recoverKey.rebind"}

\* Only handlers that install no session derive keys in a ceremony.
MethodPhase ==
  \A r \in Requests :
    /\ pc[r] = "idle" => method[r] = "none"
    /\ pc[r] \in {"derive", "dismiss", "work", "wrap", "seed"} => method[r] \notin Starters
    /\ pc[r] \in {"confirm", "passkey"} => method[r] \notin {"importPrivateKey", "recoverKey"}
    /\ pc[r] = "keyEntry" => method[r] = "importPrivateKey"
    /\ pc[r] = "passphrase" => method[r] \in Passphrased
    /\ pc[r] = "seed"     => source[r] # r
    /\ pc[r] = "decrypt"  => method[r] \in {"recoverKey", "recoverKey.rebind"}
    /\ pc[r] = "pub" /\ method[r] \notin Starters => source[r] # r
    /\ pc[r] = "wrap"     => method[r] = "createRecoveryData"
    /\ pc[r] \in {"idle", "start", "passphrase", "derive"} => r \notin derived
    /\ pc[r] \in {"confirm", "passkey"} => r \notin derived \/ method[r] = "recoverKey.rebind"

\* A handler reads another request's buffer only on a recovery-session path.
SourcePhase ==
  \A r \in Requests :
    source[r] # r => /\ pc[r] \in {"seed", "pub", "work", "wrap", "done"}
                     /\ method[r] \notin Starters

\* An aborted ceremony is past its Confirm panel.
AbortedPhase ==
  \A r \in aborted : pc[r] \in {"derive", "dismiss", "work", "wrap", "done"}

\* Handlers that failed where nothing zero-fills their scalar.
Leftover(r) == /\ pc[r] = "done"
               /\ reply[r] = "InvalidRequest"
               /\ r \in derived => method[r] = "createRecoveryData"

\* Every scalar in memory is the session's, a running ceremony's own, or left over.
KeysAccounted ==
  \A r \in Requests :
    buf[r] = "key" => \/ session = r
                      \/ pc[r] \in {"work", "wrap"} /\ source[r] = r
                      \/ Leftover(r)

\* The session's buffer belongs to a handler that starts sessions.
SessionOwner == session # NoRequest => method[session] \in Starters

\* No handler reads a buffer that was never filled.
BuffersFilled ==
  /\ session # NoRequest => buf[session] # "empty"
  /\ \A r \in Requests :
       source[r] # r \/ pc[r] \in {"work", "wrap"} => buf[source[r]] # "empty"
  /\ "empty" \notin envelopes

\* A handler has answered exactly when it has returned.
Answered == \A r \in Requests : reply[r] # "none" <=> pc[r] = "done"

Located == MethodPhase /\ SourcePhase
Locked  == LockHeldByCeremony /\ AbortedPhase
Buffers == SessionIsLive /\ BuffersFilled /\ KeysAccounted

IInv == /\ TypeOK
        /\ Located
        /\ WaiterInCeremony
        /\ Locked
        /\ ConfirmPanelIsLive
        /\ SessionOwner
        /\ Buffers
        /\ Answered

-----------------------------------------------------------------------------
\* Every success event is one of the events a request can be answered with.
LEMMA SuccessReply == \A m : Success(m) \in Replies /\ Success(m) # "none"
  <1> TAKE m
  <1>1. Success(m) \in Replies
    BY DEF Success, Replies, Failures
  <1>2. Success(m) # "none"
    BY DEF Success
  <1> QED BY <1>1, <1>2

\* The work of a method is a set of stages.
LEMMA WorkOfStages == \A m : \A w \in WorkOf(m) : w \in SUBSET Stages
  BY DEF WorkOf, Stages

\* The initial state is well typed.
LEMMA TypeInit == Init => TypeOK
  BY RequestsAssumption
     DEF Init, TypeOK, OrNone, NoPanel, Panel, Phases, PanelKinds, Stages, Contents

\* Zero-filling the session's buffer leaves a buffer content per request.
LEMMA WipeType ==
  ASSUME TypeOK PROVE WipeSession \in [Requests -> Contents]
  BY DEF TypeOK, WipeSession, Contents

\* What the shared pieces of the handlers do to pc and reply, request by request.
LEMMA AnswerEffect ==
  ASSUME TypeOK, NEW r \in Requests, NEW e \in Replies, Answer(r, e)
  PROVE  /\ pc' \in [Requests -> Phases]
         /\ reply' \in [Requests -> Replies \cup {"none"}]
         /\ pc'[r] = "done" /\ reply'[r] = e
         /\ \A q \in Requests \ {r} : pc'[q] = pc[q] /\ reply'[q] = reply[q]
  BY DEF TypeOK, Answer, Phases

LEMMA CancelEffect ==
  ASSUME TypeOK, NEW r \in Requests, NEW p \in Phases, CancelThen(r, p)
  PROVE  /\ pc' \in [Requests -> Phases]
         /\ reply' \in [Requests -> Replies \cup {"none"}]
         /\ pc'[r] = p
         /\ reply'[r] = IF r = waiter THEN "SignDenied" ELSE reply[r]
         /\ \A q \in Requests \ {r} :
              IF q = waiter THEN pc'[q] = "done" /\ reply'[q] = "SignDenied"
              ELSE pc'[q] = pc[q] /\ reply'[q] = reply[q]
  <1>1. "done" \in Phases /\ "SignDenied" \in Replies
    BY DEF Phases, Replies, Failures
  <1>2. \A q \in Requests : q \in Denied <=> q = waiter
    BY RequestsAssumption DEF Denied
  <1> QED BY <1>1, <1>2 DEF TypeOK, CancelThen, Assign

\* What beginning the stages w does to r and to the others.
WorkEffect(r, w) ==
  /\ pc' \in [Requests -> Phases]
  /\ reply' \in [Requests -> Replies \cup {"none"}]
  /\ work' \in [Requests -> SUBSET Stages]
  /\ tainted' \in SUBSET Requests
  /\ \A q \in Requests \ {r} : pc'[q] = pc[q] /\ reply'[q] = reply[q]
  /\ \/ w = {} /\ pc'[r] = "done" /\ reply'[r] = Success(method[r])
     \/ w # {} /\ pc'[r] = "work" /\ reply'[r] = reply[r]

\* BeginWork either answers r or suspends it in its first stage.
LEMMA BeginWorkEffect ==
  ASSUME TypeOK, NEW r \in Requests, NEW w \in SUBSET Stages, NEW k,
         BeginWork(r, w, k)
  PROVE  WorkEffect(r, w)
  <1> USE DEF WorkEffect
  <1>1. CASE w = {}
    <2>1. Answer(r, Success(method[r])) /\ work' = [work EXCEPT ![r] = {}] /\ tainted' = tainted
      BY <1>1 DEF BeginWork
    <2> QED BY <1>1, <2>1, AnswerEffect, SuccessReply DEF TypeOK
  <1>2. CASE w # {}
    <2>1. pc' = [pc EXCEPT ![r] = "work"] /\ work' = [work EXCEPT ![r] = w] /\ reply' = reply
      BY <1>2 DEF BeginWork
    <2>2. tainted' = tainted \cup {r} \/ tainted' = tainted
      BY <1>2 DEF BeginWork
    <2> QED BY <1>2, <2>1, <2>2 DEF TypeOK, Phases
  <1> QED BY <1>1, <1>2

\* The branch of recoverKey that shows the key.
LEMMA ShownEffect ==
  ASSUME TypeOK, NEW r \in Requests,
         pc' = Assign(pc, Denied \cup {r}, "done"),
         reply' = [Assign(reply, Denied, "SignDenied")
                    EXCEPT ![r] = "RecoverySessionStarted"]
  PROVE  /\ pc' \in [Requests -> Phases]
         /\ reply' \in [Requests -> Replies \cup {"none"}]
         /\ pc'[r] = "done" /\ reply'[r] = "RecoverySessionStarted"
         /\ \A q \in Requests \ {r} :
              IF q = waiter THEN pc'[q] = "done" /\ reply'[q] = "SignDenied"
              ELSE pc'[q] = pc[q] /\ reply'[q] = reply[q]
  <1>1. /\ "done" \in Phases
        /\ {"SignDenied", "RecoverySessionStarted"} \subseteq Replies
    BY DEF Phases, Replies, Failures
  <1>2. \A q \in Requests : q \in Denied <=> q = waiter
    BY RequestsAssumption DEF Denied
  <1> QED BY <1>1, <1>2 DEF TypeOK, Assign

\* Opening the Confirm panel makes r the waiter and the lock's owner.
LEMMA OpenConfirmEffect ==
  ASSUME TypeOK, NEW r \in Requests, OpenConfirm(r)
  PROVE  /\ pc' \in [Requests -> Phases]
         /\ reply' \in [Requests -> Replies \cup {"none"}]
         /\ pc'[r] = "confirm"
         /\ reply'[r] = IF r = waiter THEN "SignDenied" ELSE reply[r]
         /\ \A q \in Requests \ {r} :
              IF q = waiter THEN pc'[q] = "done" /\ reply'[q] = "SignDenied"
              ELSE pc'[q] = pc[q] /\ reply'[q] = reply[q]
         /\ ceremony' = r /\ waiter' = r /\ confirmedBy' = NoRequest
         /\ aborted' = aborted \cup ({ceremony} \ {NoRequest})
         /\ aborted' \in SUBSET Requests
         /\ panel' = Panel("confirm", r, r)
  <1>1. "confirm" \in Phases
    BY DEF Phases
  <1>2. CancelThen(r, "confirm")
    BY DEF OpenConfirm
  <1> QED BY <1>1, <1>2, CancelEffect DEF OpenConfirm, TypeOK, OrNone

\* Every action keeps the types, one step per action of Next.
LEMMA TypeStep ==
  ASSUME TypeOK, [Next]_vars
  PROVE  TypeOK'
  <1> USE RequestsAssumption, MethodsAssumption, SuccessReply, WorkOfStages
          DEF TypeOK, vars, keyVars, lockVars, Denied, NoPanel, Panel, OrNone,
              Phases, PanelKinds, Contents, Failures, Replies
  <1>1. ASSUME NEW r \in Requests, NEW m \in Methods, Receive(r, m) PROVE TypeOK'
    BY <1>1, CancelEffect DEF Receive, Abandon
  <1>2. CASE Cancel
    BY <1>2 DEF Cancel, Abandon, Assign
  <1>3. ASSUME NEW r \in Requests, StartAnswered(r) PROVE TypeOK'
    BY <1>3, AnswerEffect DEF StartAnswered
  <1>4. ASSUME NEW r \in Requests, StartClearRecoverySession(r) PROVE TypeOK'
    BY <1>4, AnswerEffect, WipeType DEF StartClearRecoverySession
  <1>5. ASSUME NEW r \in Requests, StartCeremony(r) PROVE TypeOK'
    BY <1>5, OpenConfirmEffect DEF StartCeremony
  <1>6. ASSUME NEW r \in Requests, StartInSession(r) PROVE TypeOK'
    <2>1. PICK w \in WorkOf(method[r]) :
            IF method[r] \in SeedFirst
            THEN /\ pc' = [pc EXCEPT ![r] = "seed"]
                 /\ work' = [work EXCEPT ![r] = w]
                 /\ UNCHANGED <<reply, tainted>>
            ELSE BeginWork(r, w, buf[session])
      BY <1>6 DEF StartInSession
    <2>2. CASE method[r] \in SeedFirst
      BY <1>6, <2>1, <2>2, WorkOfStages DEF StartInSession
    <2>3. CASE method[r] \notin SeedFirst
      <3>1. BeginWork(r, w, buf[session]) /\ w \in SUBSET Stages
        BY <2>1, <2>3, WorkOfStages
      <3>2. WorkEffect(r, w)
        BY ONLY TypeOK, r \in Requests, <3>1, BeginWorkEffect
      <3> QED BY <1>6, <3>2 DEF StartInSession, WorkEffect
    <2> QED BY <2>2, <2>3
  <1>7. ASSUME NEW r \in Requests, StartPrompt(r) PROVE TypeOK'
    BY <1>7, CancelEffect DEF StartPrompt, OpenPrompt, Release
  <1>8. ASSUME NEW r \in Requests, DerivedForReveal(r) PROVE TypeOK'
    BY <1>8, CancelEffect, AnswerEffect
       DEF DerivedForReveal, KeyDerived, MayShow, KeyPanel, Release, Zeroize
  <1>9. ASSUME NEW r \in Requests, DerivedForRecoveryData(r) PROVE TypeOK'
    BY <1>9 DEF DerivedForRecoveryData, KeyDerived
  <1>10. ASSUME NEW r \in Requests, DerivedForWork(r) PROVE TypeOK'
    <2>1. BeginWork(r, work[r], "key") /\ work[r] \in SUBSET Stages
      BY <1>10 DEF DerivedForWork
    <2>2. WorkEffect(r, work[r])
      BY ONLY TypeOK, r \in Requests, <2>1, BeginWorkEffect
    <2>3. buf' \in [Requests -> Contents] /\ ceremony' \in OrNone(Requests)
      BY <1>10 DEF DerivedForWork, Release
    <2> QED BY <1>10, <2>2, <2>3 DEF DerivedForWork, KeyDerived, WorkEffect
  <1>11. ASSUME NEW r \in Requests, CryptoFails(r) PROVE TypeOK'
    BY <1>11, AnswerEffect DEF CryptoFails, Release
  <1>12. ASSUME NEW r \in Requests, SeedDerived(r) PROVE TypeOK'
    <2>1. CASE method[r] # "executeBatch"
      <3>1. BeginWork(r, work[r], Key(r)) /\ work[r] \in SUBSET Stages
        BY <1>12, <2>1 DEF SeedDerived
      <3>2. WorkEffect(r, work[r])
        BY ONLY TypeOK, r \in Requests, <3>1, BeginWorkEffect
      <3> QED BY <1>12, <2>1, <3>2 DEF SeedDerived, WorkEffect
    <2>2. CASE method[r] = "executeBatch"
      BY <1>12, <2>2, AnswerEffect DEF SeedDerived
    <2> QED BY <2>1, <2>2
  <1>13. ASSUME NEW r \in Requests, SessionImported(r) PROVE TypeOK'
    BY <1>13, AnswerEffect DEF SessionImported, PublicKeys
  <1>14. ASSUME NEW r \in Requests, PublicKeysForRecoveryData(r) PROVE TypeOK'
    BY <1>14 DEF PublicKeysForRecoveryData, PublicKeys
  <1>15. ASSUME NEW r \in Requests, PublicKeysForBatch(r) PROVE TypeOK'
    <2>1. BeginWork(r, work[r], Key(r)) /\ work[r] \in SUBSET Stages
      BY <1>15 DEF PublicKeysForBatch
    <2>2. WorkEffect(r, work[r])
      BY ONLY TypeOK, r \in Requests, <2>1, BeginWorkEffect
    <2> QED BY <1>15, <2>2 DEF PublicKeysForBatch, PublicKeys, WorkEffect
  <1>16. ASSUME NEW r \in Requests, KeyRecovered(r) PROVE TypeOK'
    <2> DEFINE Shown == /\ pc' = Assign(pc, Denied \cup {r}, "done")
                        /\ reply' = [Assign(reply, Denied, "SignDenied")
                                       EXCEPT ![r] = "RecoverySessionStarted"]
    <2>1. Answer(r, "RecoverySessionStarted") \/ Shown
      BY <1>16 DEF KeyRecovered
    <2>2. pc' \in [Requests -> Phases] /\ reply' \in [Requests -> Replies \cup {"none"}]
      BY <2>1, AnswerEffect, ShownEffect
    <2>3. panel' \in [kind : PanelKinds, owner : OrNone(Requests), by : OrNone(Requests)]
      BY <1>16 DEF KeyRecovered, MayShow, KeyPanel
    <2>4. tainted' \in SUBSET Requests /\ ceremony' \in OrNone(Requests)
      BY <1>16 DEF KeyRecovered, Read, Release
    <2>5. waiter' \in OrNone(Requests)
      BY <1>16 DEF KeyRecovered
    <2> HIDE DEF Shown
    <2> QED BY <1>16, <2>2, <2>3, <2>4, <2>5 DEF KeyRecovered, PublicKeys
  <1>17. ASSUME NEW r \in Requests, RebindStarted(r) PROVE TypeOK'
    BY <1>17, OpenConfirmEffect DEF RebindStarted, PublicKeys
  <1>18. ASSUME NEW r \in Requests, StageDone(r) PROVE TypeOK'
    <2>1. /\ BeginWork(r, (work[r] \ {Stage(work[r])}), Key(r))
          /\ (work[r] \ {Stage(work[r])}) \in SUBSET Stages
      BY <1>18 DEF StageDone
    <2>2. WorkEffect(r, (work[r] \ {Stage(work[r])}))
      BY ONLY TypeOK, r \in Requests, <2>1, BeginWorkEffect
    <2> QED BY <1>18, <2>2 DEF StageDone, Zeroize, Release, WorkEffect
  <1>19. ASSUME NEW r \in Requests, StageFails(r) PROVE TypeOK'
    BY <1>19, AnswerEffect DEF StageFails, Return, Zeroize, Release
  <1>20. ASSUME NEW r \in Requests, Wrapped(r) PROVE TypeOK'
    <2>1. Answer(r, "RecoveryDataCreated") /\ Key(r) \in Contents
      BY <1>20 DEF Wrapped, Return, Key
    <2>2. buf' \in [Requests -> Contents]
      BY <1>20 DEF Wrapped, Return, Zeroize
    <2>3. pc' \in [Requests -> Phases] /\ reply' \in [Requests -> Replies \cup {"none"}]
      BY <2>1, AnswerEffect
    <2>4. ceremony' \in OrNone(Requests) /\ tainted' \in SUBSET Requests
      BY <1>20 DEF Wrapped, Return, Release, Read
    <2> QED BY <1>20, <2>1, <2>2, <2>3, <2>4 DEF Wrapped
  <1>21. ASSUME NEW r \in Requests, EnvelopeOpened(r) PROVE TypeOK'
    BY <1>21, AnswerEffect, WipeType DEF EnvelopeOpened, InstallSession
  <1>22. ASSUME NEW r \in Requests, NextDigest(r) PROVE TypeOK'
    BY <1>22 DEF NextDigest, Read
  <1>23. ASSUME NEW r \in Requests, PasskeyDone(r) PROVE TypeOK'
    <2>1. /\ UNCHANGED <<method, work, derived, aborted, confirmedBy, signal, source,
                         tainted, envelopes, outdated>>
          /\ passkey' \in [Requests -> {"none", "create", "get"}]
      BY <1>23 DEF PasskeyDone, ConfirmSucceeds
    <2>2. pc' \in [Requests -> Phases] /\ reply' \in [Requests -> Replies \cup {"none"}]
      BY <1>23, AnswerEffect DEF PasskeyDone, ConfirmSucceeds
    <2>3. buf' \in [Requests -> Contents] /\ session' \in OrNone(Requests)
      BY <1>23, WipeType DEF PasskeyDone, ConfirmSucceeds
    <2>4. ceremony' \in OrNone(Requests) /\ waiter' \in OrNone(Requests)
      BY <1>23 DEF PasskeyDone, ConfirmSucceeds, Release
    <2>5. panel' = panel \/ panel' = NoPanel
      BY <1>23 DEF PasskeyDone, ConfirmSucceeds
    <2> QED BY <2>1, <2>2, <2>3, <2>4, <2>5
  <1>24. ASSUME NEW r \in Requests, FollowUpAssertion(r) PROVE TypeOK'
    BY <1>24 DEF FollowUpAssertion
  <1>25. ASSUME NEW r \in Requests, PasskeyFails(r) PROVE TypeOK'
    BY <1>25, AnswerEffect DEF PasskeyFails, Release
  <1>26. ASSUME NEW r \in Requests, ClickConfirm(r) PROVE TypeOK'
    BY <1>26 DEF ClickConfirm, Shows, NoteClick
  <1>27. ASSUME NEW r \in Requests, ClickDeny(r) PROVE TypeOK'
    BY <1>27, AnswerEffect DEF ClickDeny, Shows, Release
  <1>28. ASSUME NEW r \in Requests, EnterPassphrase(r) PROVE TypeOK'
    BY <1>28, AnswerEffect, OpenConfirmEffect DEF EnterPassphrase, Shows, NoteClick
  <1>29. ASSUME NEW r \in Requests, EnterShortPassphrase(r) PROVE TypeOK'
    BY <1>29, AnswerEffect DEF EnterShortPassphrase, Shows
  <1>30. ASSUME NEW r \in Requests, ClickStalePassphrase(r) PROVE TypeOK'
    BY <1>30 DEF ClickStalePassphrase, Shows, NoteClick
  <1>31. ASSUME NEW r \in Requests, EnterPrivateKey(r) PROVE TypeOK'
    BY <1>31, AnswerEffect, WipeType DEF EnterPrivateKey, Shows, InstallSession
  <1>32. ASSUME NEW r \in Requests, ClickDone(r) PROVE TypeOK'
    BY <1>32, AnswerEffect DEF ClickDone, Shows, Release
  <1>33. CASE UNCHANGED vars
    BY <1>33
  <1> QED
    BY <1>1, <1>2, <1>3, <1>4, <1>5, <1>6, <1>7, <1>8, <1>9, <1>10, <1>11, <1>12,
       <1>13, <1>14, <1>15, <1>16, <1>17, <1>18, <1>19, <1>20, <1>21, <1>22, <1>23,
       <1>24, <1>25, <1>26, <1>27, <1>28, <1>29, <1>30, <1>31, <1>32, <1>33
       DEF Next, Resume, Authenticator, User

\* Where a handler can be for its method, and whose buffer it reads.
LEMMA PhaseStep ==
  ASSUME TypeOK, MethodPhase, SourcePhase, SessionOwner, WaiterInCeremony,
         [Next]_vars
  PROVE  Located'
  <1> USE RequestsAssumption, SuccessReply, WorkOfStages
          DEF Located, TypeOK, MethodPhase, SourcePhase, Starters, vars, keyVars,
              lockVars, Replies, Phases, KeyUse, WithAssertion, Creations,
              Passphrased, OrNone
  <1>1. ASSUME NEW r \in Requests, NEW m \in Methods, Receive(r, m) PROVE Located'
    BY <1>1 DEF Receive, Abandon, CancelThen, Assign
  <1>2. CASE Cancel
    BY <1>2 DEF Cancel, Abandon, Assign
  <1>3. ASSUME NEW r \in Requests, StartAnswered(r) PROVE Located'
    BY <1>3 DEF StartAnswered, Answer
  <1>4. ASSUME NEW r \in Requests, StartClearRecoverySession(r) PROVE Located'
    BY <1>4 DEF StartClearRecoverySession, Answer
  <1>5. ASSUME NEW r \in Requests, StartCeremony(r) PROVE Located'
    BY <1>5, OpenConfirmEffect DEF StartCeremony
  <1>6. ASSUME NEW r \in Requests, StartInSession(r) PROVE Located'
    <2>1. PICK w \in WorkOf(method[r]) :
            IF method[r] \in SeedFirst
            THEN /\ pc' = [pc EXCEPT ![r] = "seed"]
                 /\ work' = [work EXCEPT ![r] = w]
                 /\ UNCHANGED <<reply, tainted>>
            ELSE BeginWork(r, w, buf[session])
      BY <1>6 DEF StartInSession
    <2>2. CASE method[r] \in SeedFirst
      BY <1>6, <2>1, <2>2, WorkOfStages DEF SessionOwner, StartInSession
    <2>3. CASE method[r] \notin SeedFirst
      <3>1. BeginWork(r, w, buf[session]) /\ w \in SUBSET Stages
        BY <2>1, <2>3, WorkOfStages
      <3>2. WorkEffect(r, w)
        BY ONLY TypeOK, r \in Requests, <3>1, BeginWorkEffect
      <3> QED BY <1>6, <3>2 DEF StartInSession, WorkEffect
    <2> QED BY <2>2, <2>3
  <1>7. ASSUME NEW r \in Requests, StartPrompt(r) PROVE Located'
    <2>1. /\ UNCHANGED <<method, source, derived>>
          /\ \/ method[r] \in Passphrased /\ CancelThen(r, "passphrase")
             \/ method[r] = "importPrivateKey" /\ CancelThen(r, "keyEntry")
      BY <1>7 DEF StartPrompt, OpenPrompt
    <2>2. pc[r] = "start"
      BY <1>7 DEF StartPrompt
    <2>3. CASE method[r] \in Passphrased /\ CancelThen(r, "passphrase")
      BY <2>1, <2>2, <2>3, CancelEffect
    <2>4. CASE method[r] = "importPrivateKey" /\ CancelThen(r, "keyEntry")
      BY <2>1, <2>2, <2>4, CancelEffect
    <2> QED BY <2>1, <2>3, <2>4
  <1>8. ASSUME NEW r \in Requests, DerivedForReveal(r) PROVE Located'
    <2>1. /\ UNCHANGED <<method, source>> /\ method[r] = "revealPrivateKey" /\ pc[r] = "derive"
          /\ derived' = derived \cup {r}
          /\ CancelThen(r, "dismiss") \/ Answer(r, "InvalidRequest")
      BY <1>8 DEF DerivedForReveal, KeyDerived
    <2>2. CASE CancelThen(r, "dismiss")
      BY <2>1, <2>2, CancelEffect
    <2>3. CASE Answer(r, "InvalidRequest")
      BY <2>1, <2>3 DEF Answer
    <2> QED BY <2>1, <2>2, <2>3
  <1>9. ASSUME NEW r \in Requests, DerivedForRecoveryData(r) PROVE Located'
    BY <1>9 DEF DerivedForRecoveryData, KeyDerived
  <1>10. ASSUME NEW r \in Requests, DerivedForWork(r) PROVE Located'
    <2>1. BeginWork(r, work[r], "key") /\ work[r] \in SUBSET Stages
      BY <1>10 DEF DerivedForWork
    <2>2. WorkEffect(r, work[r])
      BY ONLY TypeOK, r \in Requests, <2>1, BeginWorkEffect
    <2> QED BY <1>10, <2>2 DEF DerivedForWork, KeyDerived, WorkEffect
  <1>11. ASSUME NEW r \in Requests, CryptoFails(r) PROVE Located'
    BY <1>11 DEF CryptoFails, Release, Answer
  <1>12. ASSUME NEW r \in Requests, SeedDerived(r) PROVE Located'
    <2>1. CASE method[r] # "executeBatch"
      <3>1. BeginWork(r, work[r], Key(r)) /\ work[r] \in SUBSET Stages
        BY <1>12, <2>1 DEF SeedDerived
      <3>2. WorkEffect(r, work[r])
        BY ONLY TypeOK, r \in Requests, <3>1, BeginWorkEffect
      <3> QED BY <1>12, <2>1, <3>2 DEF SeedDerived, WorkEffect
    <2>2. CASE method[r] = "executeBatch"
      BY <1>12, <2>2 DEF SeedDerived, Answer
    <2> QED BY <2>1, <2>2
  <1>13. ASSUME NEW r \in Requests, SessionImported(r) PROVE Located'
    BY <1>13 DEF SessionImported, PublicKeys, Answer
  <1>14. ASSUME NEW r \in Requests, PublicKeysForRecoveryData(r) PROVE Located'
    BY <1>14 DEF PublicKeysForRecoveryData, PublicKeys
  <1>15. ASSUME NEW r \in Requests, PublicKeysForBatch(r) PROVE Located'
    <2>1. BeginWork(r, work[r], Key(r)) /\ work[r] \in SUBSET Stages
      BY <1>15 DEF PublicKeysForBatch
    <2>2. WorkEffect(r, work[r])
      BY ONLY TypeOK, r \in Requests, <2>1, BeginWorkEffect
    <2> QED BY <1>15, <2>2 DEF PublicKeysForBatch, PublicKeys, WorkEffect
  <1>16. ASSUME NEW r \in Requests, KeyRecovered(r) PROVE Located'
    BY <1>16
       DEF KeyRecovered, PublicKeys, MayShow, KeyPanel, Read, Release, Answer,
           Assign
  <1>17. ASSUME NEW r \in Requests, RebindStarted(r) PROVE Located'
    BY <1>17, OpenConfirmEffect DEF RebindStarted, PublicKeys
  <1>18. ASSUME NEW r \in Requests, StageDone(r) PROVE Located'
    <2>1. /\ BeginWork(r, (work[r] \ {Stage(work[r])}), Key(r))
          /\ (work[r] \ {Stage(work[r])}) \in SUBSET Stages
      BY <1>18 DEF StageDone
    <2>2. WorkEffect(r, (work[r] \ {Stage(work[r])}))
      BY ONLY TypeOK, r \in Requests, <2>1, BeginWorkEffect
    <2> QED BY <1>18, <2>2 DEF StageDone, WorkEffect
  <1>19. ASSUME NEW r \in Requests, StageFails(r) PROVE Located'
    BY <1>19 DEF StageFails, Return, Zeroize, Release, Answer
  <1>20. ASSUME NEW r \in Requests, Wrapped(r) PROVE Located'
    BY <1>20 DEF Wrapped, Return, Zeroize, Release, Read, Key, Answer
  <1>21. ASSUME NEW r \in Requests, EnvelopeOpened(r) PROVE Located'
    BY <1>21 DEF EnvelopeOpened, InstallSession, Answer
  <1>22. ASSUME NEW r \in Requests, NextDigest(r) PROVE Located'
    BY <1>22 DEF NextDigest, Read
  <1>23. ASSUME NEW r \in Requests, PasskeyDone(r) PROVE Located'
    <2>1. /\ UNCHANGED <<method, source, derived>>
          /\ \/ pc' = pc
             \/ pc' = [pc EXCEPT ![r] = "done"]
             \/ /\ waiter = r /\ pc' = [pc EXCEPT ![r] = "derive"]
                /\ method[r] # "recoverKey.rebind"
      BY <1>23 DEF PasskeyDone, ConfirmSucceeds, Answer
    <2> QED BY <2>1 DEF WaiterInCeremony
  <1>24. ASSUME NEW r \in Requests, FollowUpAssertion(r) PROVE Located'
    BY <1>24 DEF FollowUpAssertion
  <1>25. ASSUME NEW r \in Requests, PasskeyFails(r) PROVE Located'
    BY <1>25 DEF PasskeyFails, Release, Answer
  <1>26. ASSUME NEW r \in Requests, ClickConfirm(r) PROVE Located'
    BY <1>26 DEF ClickConfirm, Shows, NoteClick
  <1>27. ASSUME NEW r \in Requests, ClickDeny(r) PROVE Located'
    BY <1>27 DEF ClickDeny, Shows, Release, Answer
  <1>28. ASSUME NEW r \in Requests, EnterPassphrase(r) PROVE Located'
    <2>1. UNCHANGED <<method, derived>> /\ pc[r] = "passphrase"
      BY <1>28 DEF EnterPassphrase
    <2>2. CASE method[r] # "createRecoveryData"
      BY <1>28, <2>1, <2>2 DEF EnterPassphrase
    <2>3. CASE method[r] = "createRecoveryData" /\ session # NoRequest
      <3>1. /\ source' = [source EXCEPT ![r] = session] /\ session # r
            /\ pc' = [pc EXCEPT ![r] = "pub"] \/ pc' = [pc EXCEPT ![r] = "done"]
        BY <1>28, <2>3 DEF EnterPassphrase, Answer, SessionOwner
      <3> QED BY <2>1, <2>3, <3>1
    <2>4. CASE method[r] = "createRecoveryData" /\ session = NoRequest
      BY <1>28, <2>1, <2>4, OpenConfirmEffect DEF EnterPassphrase
    <2> QED BY <2>2, <2>3, <2>4
  <1>29. ASSUME NEW r \in Requests, EnterShortPassphrase(r) PROVE Located'
    BY <1>29 DEF EnterShortPassphrase, Shows, Answer
  <1>30. ASSUME NEW r \in Requests, ClickStalePassphrase(r) PROVE Located'
    BY <1>30 DEF ClickStalePassphrase, Shows, NoteClick
  <1>31. ASSUME NEW r \in Requests, EnterPrivateKey(r) PROVE Located'
    BY <1>31 DEF EnterPrivateKey, Shows, InstallSession, Answer
  <1>32. ASSUME NEW r \in Requests, ClickDone(r) PROVE Located'
    BY <1>32 DEF ClickDone, Shows, Release, Answer
  <1>33. CASE UNCHANGED vars
    BY <1>33
  <1> QED
    BY <1>1, <1>2, <1>3, <1>4, <1>5, <1>6, <1>7, <1>8, <1>9, <1>10, <1>11, <1>12,
       <1>13, <1>14, <1>15, <1>16, <1>17, <1>18, <1>19, <1>20, <1>21, <1>22, <1>23,
       <1>24, <1>25, <1>26, <1>27, <1>28, <1>29, <1>30, <1>31, <1>32, <1>33
       DEF Next, Resume, Authenticator, User

\* The pending Confirm promise and the handler suspended on it move together.
LEMMA WaiterStep ==
  ASSUME TypeOK, WaiterInCeremony, [Next]_vars
  PROVE  WaiterInCeremony'
  <1> USE RequestsAssumption, SuccessReply, WorkOfStages
          DEF TypeOK, WaiterInCeremony, vars, keyVars, lockVars, Phases, OrNone,
              Denied
  <1>1. ASSUME NEW r \in Requests, NEW m \in Methods, Receive(r, m) PROVE WaiterInCeremony'
    BY <1>1 DEF Receive, Abandon, CancelThen, Assign
  <1>2. CASE Cancel
    BY <1>2 DEF Cancel, Abandon, Assign
  <1>3. ASSUME NEW r \in Requests, StartAnswered(r) PROVE WaiterInCeremony'
    BY <1>3 DEF StartAnswered, Answer
  <1>4. ASSUME NEW r \in Requests, StartClearRecoverySession(r) PROVE WaiterInCeremony'
    BY <1>4 DEF StartClearRecoverySession, Answer
  <1>5. ASSUME NEW r \in Requests, StartCeremony(r) PROVE WaiterInCeremony'
    BY <1>5, OpenConfirmEffect DEF StartCeremony
  <1>6. ASSUME NEW r \in Requests, StartInSession(r) PROVE WaiterInCeremony'
    <2>1. PICK w \in WorkOf(method[r]) :
            IF method[r] \in SeedFirst
            THEN /\ pc' = [pc EXCEPT ![r] = "seed"]
                 /\ work' = [work EXCEPT ![r] = w]
                 /\ UNCHANGED <<reply, tainted>>
            ELSE BeginWork(r, w, buf[session])
      BY <1>6 DEF StartInSession
    <2>2. CASE method[r] \in SeedFirst
      BY <1>6, <2>1, <2>2, WorkOfStages DEF SessionOwner, StartInSession
    <2>3. CASE method[r] \notin SeedFirst
      <3>1. BeginWork(r, w, buf[session]) /\ w \in SUBSET Stages
        BY <2>1, <2>3, WorkOfStages
      <3>2. WorkEffect(r, w)
        BY ONLY TypeOK, r \in Requests, <3>1, BeginWorkEffect
      <3> QED BY <1>6, <3>2 DEF StartInSession, WorkEffect
    <2> QED BY <2>2, <2>3
  <1>7. ASSUME NEW r \in Requests, StartPrompt(r) PROVE WaiterInCeremony'
    <2>1. /\ waiter' = NoRequest
          /\ CancelThen(r, "passphrase") \/ CancelThen(r, "keyEntry")
      BY <1>7 DEF StartPrompt, OpenPrompt
    <2>2. CASE CancelThen(r, "passphrase")
      BY <2>1, <2>2, CancelEffect
    <2>3. CASE CancelThen(r, "keyEntry")
      BY <2>1, <2>3, CancelEffect
    <2> QED BY <2>1, <2>2, <2>3
  <1>8. ASSUME NEW r \in Requests, DerivedForReveal(r) PROVE WaiterInCeremony'
    <2>1. \/ waiter' = NoRequest /\ CancelThen(r, "dismiss")
          \/ waiter' = waiter /\ Answer(r, "InvalidRequest")
      BY <1>8 DEF DerivedForReveal
    <2>2. CASE waiter' = NoRequest /\ CancelThen(r, "dismiss")
      BY <2>2, CancelEffect
    <2>3. CASE waiter' = waiter /\ Answer(r, "InvalidRequest")
      BY <1>8, <2>3 DEF Answer, DerivedForReveal, KeyDerived
    <2> QED BY <2>1, <2>2, <2>3
  <1>9. ASSUME NEW r \in Requests, DerivedForRecoveryData(r) PROVE WaiterInCeremony'
    BY <1>9 DEF DerivedForRecoveryData, KeyDerived
  <1>10. ASSUME NEW r \in Requests, DerivedForWork(r) PROVE WaiterInCeremony'
    <2>1. BeginWork(r, work[r], "key") /\ work[r] \in SUBSET Stages
      BY <1>10 DEF DerivedForWork
    <2>2. WorkEffect(r, work[r])
      BY ONLY TypeOK, r \in Requests, <2>1, BeginWorkEffect
    <2> QED BY <1>10, <2>2 DEF DerivedForWork, KeyDerived, WorkEffect
  <1>11. ASSUME NEW r \in Requests, CryptoFails(r) PROVE WaiterInCeremony'
    BY <1>11 DEF CryptoFails, Release, Answer
  <1>12. ASSUME NEW r \in Requests, SeedDerived(r) PROVE WaiterInCeremony'
    <2>1. CASE method[r] # "executeBatch"
      <3>1. BeginWork(r, work[r], Key(r)) /\ work[r] \in SUBSET Stages
        BY <1>12, <2>1 DEF SeedDerived
      <3>2. WorkEffect(r, work[r])
        BY ONLY TypeOK, r \in Requests, <3>1, BeginWorkEffect
      <3> QED BY <1>12, <2>1, <3>2 DEF SeedDerived, WorkEffect
    <2>2. CASE method[r] = "executeBatch"
      BY <1>12, <2>2 DEF SeedDerived, Answer
    <2> QED BY <2>1, <2>2
  <1>13. ASSUME NEW r \in Requests, SessionImported(r) PROVE WaiterInCeremony'
    BY <1>13 DEF SessionImported, PublicKeys, Answer
  <1>14. ASSUME NEW r \in Requests, PublicKeysForRecoveryData(r) PROVE WaiterInCeremony'
    BY <1>14 DEF PublicKeysForRecoveryData, PublicKeys
  <1>15. ASSUME NEW r \in Requests, PublicKeysForBatch(r) PROVE WaiterInCeremony'
    <2>1. BeginWork(r, work[r], Key(r)) /\ work[r] \in SUBSET Stages
      BY <1>15 DEF PublicKeysForBatch
    <2>2. WorkEffect(r, work[r])
      BY ONLY TypeOK, r \in Requests, <2>1, BeginWorkEffect
    <2> QED BY <1>15, <2>2 DEF PublicKeysForBatch, PublicKeys, WorkEffect
  <1>16. ASSUME NEW r \in Requests, KeyRecovered(r) PROVE WaiterInCeremony'
    BY <1>16
       DEF KeyRecovered, PublicKeys, MayShow, KeyPanel, Read, Release, Answer,
           Assign
  <1>17. ASSUME NEW r \in Requests, RebindStarted(r) PROVE WaiterInCeremony'
    BY <1>17, OpenConfirmEffect DEF RebindStarted, PublicKeys
  <1>18. ASSUME NEW r \in Requests, StageDone(r) PROVE WaiterInCeremony'
    <2>1. /\ BeginWork(r, (work[r] \ {Stage(work[r])}), Key(r))
          /\ (work[r] \ {Stage(work[r])}) \in SUBSET Stages
      BY <1>18 DEF StageDone
    <2>2. WorkEffect(r, (work[r] \ {Stage(work[r])}))
      BY ONLY TypeOK, r \in Requests, <2>1, BeginWorkEffect
    <2> QED BY <1>18, <2>2 DEF StageDone, WorkEffect
  <1>19. ASSUME NEW r \in Requests, StageFails(r) PROVE WaiterInCeremony'
    BY <1>19 DEF StageFails, Return, Zeroize, Release, Answer
  <1>20. ASSUME NEW r \in Requests, Wrapped(r) PROVE WaiterInCeremony'
    BY <1>20 DEF Wrapped, Return, Zeroize, Release, Read, Key, Answer
  <1>21. ASSUME NEW r \in Requests, EnvelopeOpened(r) PROVE WaiterInCeremony'
    BY <1>21 DEF EnvelopeOpened, InstallSession, Answer
  <1>22. ASSUME NEW r \in Requests, NextDigest(r) PROVE WaiterInCeremony'
    BY <1>22 DEF NextDigest, Read
  <1>23. ASSUME NEW r \in Requests, PasskeyDone(r) PROVE WaiterInCeremony'
    BY <1>23 DEF PasskeyDone, ConfirmSucceeds, Release, Answer
  <1>24. ASSUME NEW r \in Requests, FollowUpAssertion(r) PROVE WaiterInCeremony'
    BY <1>24 DEF FollowUpAssertion
  <1>25. ASSUME NEW r \in Requests, PasskeyFails(r) PROVE WaiterInCeremony'
    BY <1>25 DEF PasskeyFails, Release, Answer
  <1>26. ASSUME NEW r \in Requests, ClickConfirm(r) PROVE WaiterInCeremony'
    BY <1>26 DEF ClickConfirm, Shows, NoteClick
  <1>27. ASSUME NEW r \in Requests, ClickDeny(r) PROVE WaiterInCeremony'
    BY <1>27 DEF ClickDeny, Shows, Release, Answer
  <1>28. ASSUME NEW r \in Requests, EnterPassphrase(r) PROVE WaiterInCeremony'
    BY <1>28, OpenConfirmEffect DEF EnterPassphrase, Shows, NoteClick, Answer
  <1>29. ASSUME NEW r \in Requests, EnterShortPassphrase(r) PROVE WaiterInCeremony'
    BY <1>29 DEF EnterShortPassphrase, Shows, Answer
  <1>30. ASSUME NEW r \in Requests, ClickStalePassphrase(r) PROVE WaiterInCeremony'
    BY <1>30 DEF ClickStalePassphrase, Shows, NoteClick
  <1>31. ASSUME NEW r \in Requests, EnterPrivateKey(r) PROVE WaiterInCeremony'
    BY <1>31 DEF EnterPrivateKey, Shows, InstallSession, Answer
  <1>32. ASSUME NEW r \in Requests, ClickDone(r) PROVE WaiterInCeremony'
    BY <1>32 DEF ClickDone, Shows, Release, Answer
  <1>33. CASE UNCHANGED vars
    BY <1>33
  <1> QED
    BY <1>1, <1>2, <1>3, <1>4, <1>5, <1>6, <1>7, <1>8, <1>9, <1>10, <1>11, <1>12,
       <1>13, <1>14, <1>15, <1>16, <1>17, <1>18, <1>19, <1>20, <1>21, <1>22, <1>23,
       <1>24, <1>25, <1>26, <1>27, <1>28, <1>29, <1>30, <1>31, <1>32, <1>33
       DEF Next, Resume, Authenticator, User

\* The lock follows its ceremony: a stale `finally` leaves a newer owner alone.
LEMMA LockStep ==
  ASSUME TypeOK, MethodPhase, SourcePhase, SessionOwner, WaiterInCeremony,
         LockHeldByCeremony, AbortedPhase, [Next]_vars
  PROVE  Locked'
  <1> USE RequestsAssumption, SuccessReply, WorkOfStages
          DEF Locked, TypeOK, MethodPhase, SourcePhase, Starters, WaiterInCeremony,
              LockHeldByCeremony, AbortedPhase, InCeremony, vars, keyVars, lockVars,
              Phases, OrNone, Denied
  <1>1. ASSUME NEW r \in Requests, NEW m \in Methods, Receive(r, m) PROVE Locked'
    BY <1>1 DEF Receive, Abandon, CancelThen, Assign
  <1>2. CASE Cancel
    BY <1>2 DEF Cancel, Abandon, Assign
  <1>3. ASSUME NEW r \in Requests, StartAnswered(r) PROVE Locked'
    BY <1>3 DEF StartAnswered, Answer
  <1>4. ASSUME NEW r \in Requests, StartClearRecoverySession(r) PROVE Locked'
    BY <1>4 DEF StartClearRecoverySession, Answer
  <1>5. ASSUME NEW r \in Requests, StartCeremony(r) PROVE Locked'
    BY <1>5, OpenConfirmEffect DEF StartCeremony
  <1>6. ASSUME NEW r \in Requests, StartInSession(r) PROVE Locked'
    <2>1. /\ source' = [source EXCEPT ![r] = session] /\ session # r /\ pc[r] = "start"
          /\ UNCHANGED lockVars
      BY <1>6 DEF StartInSession, SessionOwner, KeyUse
    <2>2. /\ \A q \in Requests \ {r} : pc'[q] = pc[q]
          /\ pc'[r] \in {"seed", "work", "done"}
      <3>1. PICK w \in WorkOf(method[r]) :
              \/ pc' = [pc EXCEPT ![r] = "seed"]
              \/ BeginWork(r, w, buf[session])
        BY <1>6 DEF StartInSession
      <3>2. w \in SUBSET Stages
        BY WorkOfStages
      <3>3. CASE BeginWork(r, w, buf[session])
        <4>1. WorkEffect(r, w)
          BY ONLY TypeOK, r \in Requests, <3>2, <3>3, BeginWorkEffect
        <4> QED BY <4>1 DEF WorkEffect
      <3> QED BY <3>1, <3>3
    <2> QED BY <2>1, <2>2
  <1>7. ASSUME NEW r \in Requests, StartPrompt(r) PROVE Locked'
    <2>1. /\ waiter' = NoRequest /\ Release(Denied) /\ pc[r] = "start"
          /\ aborted' = aborted /\ source' = source
          /\ CancelThen(r, "passphrase") \/ CancelThen(r, "keyEntry")
      BY <1>7 DEF StartPrompt, OpenPrompt
    <2>2. CASE CancelThen(r, "passphrase")
      BY <2>1, <2>2, CancelEffect DEF Release
    <2>3. CASE CancelThen(r, "keyEntry")
      BY <2>1, <2>3, CancelEffect DEF Release
    <2> QED BY <2>1, <2>2, <2>3
  <1>8. ASSUME NEW r \in Requests, DerivedForReveal(r) PROVE Locked'
    <2>1. /\ pc[r] = "derive" /\ aborted' = aborted /\ source' = source
          /\ \/ waiter' = NoRequest /\ Release(Denied) /\ CancelThen(r, "dismiss")
             \/ waiter' = waiter /\ Release({r}) /\ Answer(r, "InvalidRequest")
      BY <1>8 DEF DerivedForReveal, KeyDerived
    <2>2. CASE waiter' = NoRequest /\ Release(Denied) /\ CancelThen(r, "dismiss")
      BY <2>1, <2>2, CancelEffect DEF Release
    <2>3. CASE waiter' = waiter /\ Release({r}) /\ Answer(r, "InvalidRequest")
      BY <2>1, <2>3 DEF Answer, Release
    <2> QED BY <2>1, <2>2, <2>3
  <1>9. ASSUME NEW r \in Requests, DerivedForRecoveryData(r) PROVE Locked'
    BY <1>9 DEF DerivedForRecoveryData, KeyDerived
  <1>10. ASSUME NEW r \in Requests, DerivedForWork(r) PROVE Locked'
    <2>1. BeginWork(r, work[r], "key") /\ work[r] \in SUBSET Stages
      BY <1>10 DEF DerivedForWork
    <2>2. WorkEffect(r, work[r])
      BY ONLY TypeOK, r \in Requests, <2>1, BeginWorkEffect
    <2> QED BY <1>10, <2>2 DEF DerivedForWork, KeyDerived, Release, WorkEffect
  <1>11. ASSUME NEW r \in Requests, CryptoFails(r) PROVE Locked'
    BY <1>11 DEF CryptoFails, Release, Answer
  <1>12. ASSUME NEW r \in Requests, SeedDerived(r) PROVE Locked'
    <2>1. CASE method[r] # "executeBatch"
      <3>1. BeginWork(r, work[r], Key(r)) /\ work[r] \in SUBSET Stages
        BY <1>12, <2>1 DEF SeedDerived
      <3>2. WorkEffect(r, work[r])
        BY ONLY TypeOK, r \in Requests, <3>1, BeginWorkEffect
      <3> QED BY <1>12, <2>1, <3>2 DEF SeedDerived, WorkEffect
    <2>2. CASE method[r] = "executeBatch"
      BY <1>12, <2>2 DEF SeedDerived, Answer
    <2> QED BY <2>1, <2>2
  <1>13. ASSUME NEW r \in Requests, SessionImported(r) PROVE Locked'
    BY <1>13 DEF SessionImported, PublicKeys, Answer
  <1>14. ASSUME NEW r \in Requests, PublicKeysForRecoveryData(r) PROVE Locked'
    BY <1>14 DEF PublicKeysForRecoveryData, PublicKeys
  <1>15. ASSUME NEW r \in Requests, PublicKeysForBatch(r) PROVE Locked'
    <2>1. BeginWork(r, work[r], Key(r)) /\ work[r] \in SUBSET Stages
      BY <1>15 DEF PublicKeysForBatch
    <2>2. WorkEffect(r, work[r])
      BY ONLY TypeOK, r \in Requests, <2>1, BeginWorkEffect
    <2> QED BY <1>15, <2>2 DEF PublicKeysForBatch, PublicKeys, WorkEffect
  <1>16. ASSUME NEW r \in Requests, KeyRecovered(r) PROVE Locked'
    BY <1>16
       DEF KeyRecovered, PublicKeys, MayShow, KeyPanel, Read, Release, Answer,
           Assign
  <1>17. ASSUME NEW r \in Requests, RebindStarted(r) PROVE Locked'
    BY <1>17, OpenConfirmEffect DEF RebindStarted, PublicKeys
  <1>18. ASSUME NEW r \in Requests, StageDone(r) PROVE Locked'
    <2>1. /\ BeginWork(r, (work[r] \ {Stage(work[r])}), Key(r))
          /\ (work[r] \ {Stage(work[r])}) \in SUBSET Stages
      BY <1>18 DEF StageDone
    <2>2. WorkEffect(r, (work[r] \ {Stage(work[r])}))
      BY ONLY TypeOK, r \in Requests, <2>1, BeginWorkEffect
    <2> QED BY <1>18, <2>2 DEF StageDone, Release, WorkEffect
  <1>19. ASSUME NEW r \in Requests, StageFails(r) PROVE Locked'
    BY <1>19 DEF StageFails, Return, Zeroize, Release, Answer
  <1>20. ASSUME NEW r \in Requests, Wrapped(r) PROVE Locked'
    BY <1>20 DEF Wrapped, Return, Zeroize, Release, Read, Key, Answer
  <1>21. ASSUME NEW r \in Requests, EnvelopeOpened(r) PROVE Locked'
    BY <1>21 DEF EnvelopeOpened, InstallSession, Answer
  <1>22. ASSUME NEW r \in Requests, NextDigest(r) PROVE Locked'
    BY <1>22 DEF NextDigest, Read
  <1>23. ASSUME NEW r \in Requests, PasskeyDone(r) PROVE Locked'
    BY <1>23 DEF PasskeyDone, ConfirmSucceeds, Release, Answer
  <1>24. ASSUME NEW r \in Requests, FollowUpAssertion(r) PROVE Locked'
    BY <1>24 DEF FollowUpAssertion
  <1>25. ASSUME NEW r \in Requests, PasskeyFails(r) PROVE Locked'
    BY <1>25 DEF PasskeyFails, Release, Answer
  <1>26. ASSUME NEW r \in Requests, ClickConfirm(r) PROVE Locked'
    BY <1>26 DEF ClickConfirm, Shows, NoteClick
  <1>27. ASSUME NEW r \in Requests, ClickDeny(r) PROVE Locked'
    BY <1>27 DEF ClickDeny, Shows, Release, Answer
  <1>28. ASSUME NEW r \in Requests, EnterPassphrase(r) PROVE Locked'
    BY <1>28, OpenConfirmEffect DEF EnterPassphrase, Shows, NoteClick, Answer
  <1>29. ASSUME NEW r \in Requests, EnterShortPassphrase(r) PROVE Locked'
    BY <1>29 DEF EnterShortPassphrase, Shows, Answer
  <1>30. ASSUME NEW r \in Requests, ClickStalePassphrase(r) PROVE Locked'
    BY <1>30 DEF ClickStalePassphrase, Shows, NoteClick
  <1>31. ASSUME NEW r \in Requests, EnterPrivateKey(r) PROVE Locked'
    BY <1>31 DEF EnterPrivateKey, Shows, InstallSession, Answer
  <1>32. ASSUME NEW r \in Requests, ClickDone(r) PROVE Locked'
    BY <1>32 DEF ClickDone, Shows, Release, Answer
  <1>33. CASE UNCHANGED vars
    BY <1>33
  <1> QED
    BY <1>1, <1>2, <1>3, <1>4, <1>5, <1>6, <1>7, <1>8, <1>9, <1>10, <1>11, <1>12,
       <1>13, <1>14, <1>15, <1>16, <1>17, <1>18, <1>19, <1>20, <1>21, <1>22, <1>23,
       <1>24, <1>25, <1>26, <1>27, <1>28, <1>29, <1>30, <1>31, <1>32, <1>33
       DEF Next, Resume, Authenticator, User

\* Whatever ends or cancels a Confirm wait takes its panel down.
LEMMA ConfirmPanelStep ==
  ASSUME TypeOK, WaiterInCeremony, ConfirmPanelIsLive, [Next]_vars
  PROVE  ConfirmPanelIsLive'
  <1> USE RequestsAssumption
          DEF TypeOK, ConfirmPanelIsLive, vars, keyVars, lockVars, OrNone, Denied,
              Panel, NoPanel
  <1>1. ASSUME NEW r \in Requests, NEW m \in Methods, Receive(r, m) PROVE ConfirmPanelIsLive'
    BY <1>1 DEF Receive, Abandon, CancelThen, Assign, Shows, KeyPanel, OpenPrompt
  <1>2. CASE Cancel
    BY <1>2 DEF Cancel, Abandon, Assign, Shows, KeyPanel, OpenPrompt
  <1>3. ASSUME NEW r \in Requests, StartAnswered(r) PROVE ConfirmPanelIsLive'
    BY <1>3 DEF StartAnswered, Answer, Shows, KeyPanel, OpenPrompt, Abandon
  <1>4. ASSUME NEW r \in Requests, StartClearRecoverySession(r) PROVE ConfirmPanelIsLive'
    BY <1>4 DEF StartClearRecoverySession, Answer, Shows, KeyPanel, OpenPrompt, Abandon
  <1>5. ASSUME NEW r \in Requests, StartCeremony(r) PROVE ConfirmPanelIsLive'
    BY <1>5, OpenConfirmEffect DEF StartCeremony, Shows, KeyPanel, OpenPrompt, Abandon
  <1>6. ASSUME NEW r \in Requests, StartInSession(r) PROVE ConfirmPanelIsLive'
    BY <1>6 DEF StartInSession, Shows, KeyPanel, OpenPrompt, Abandon
  <1>7. ASSUME NEW r \in Requests, StartPrompt(r) PROVE ConfirmPanelIsLive'
    BY <1>7
       DEF StartPrompt, OpenPrompt, Release, CancelThen, Assign, Shows, KeyPanel,
           Abandon
  <1>8. ASSUME NEW r \in Requests, DerivedForReveal(r) PROVE ConfirmPanelIsLive'
    BY <1>8
       DEF DerivedForReveal, KeyDerived, MayShow, KeyPanel, Release, Zeroize,
           Answer, CancelThen, Assign, Shows, OpenPrompt, Abandon
  <1>9. ASSUME NEW r \in Requests, DerivedForRecoveryData(r) PROVE ConfirmPanelIsLive'
    BY <1>9 DEF DerivedForRecoveryData, KeyDerived, Shows, KeyPanel, OpenPrompt, Abandon
  <1>10. ASSUME NEW r \in Requests, DerivedForWork(r) PROVE ConfirmPanelIsLive'
    BY <1>10 DEF DerivedForWork, KeyDerived, Release, Shows, KeyPanel, OpenPrompt, Abandon
  <1>11. ASSUME NEW r \in Requests, CryptoFails(r) PROVE ConfirmPanelIsLive'
    BY <1>11 DEF CryptoFails, Release, Answer, Shows, KeyPanel, OpenPrompt, Abandon
  <1>12. ASSUME NEW r \in Requests, SeedDerived(r) PROVE ConfirmPanelIsLive'
    BY <1>12 DEF SeedDerived, Answer, Shows, KeyPanel, OpenPrompt, Abandon
  <1>13. ASSUME NEW r \in Requests, SessionImported(r) PROVE ConfirmPanelIsLive'
    BY <1>13 DEF SessionImported, PublicKeys, Answer, Shows, KeyPanel, OpenPrompt, Abandon
  <1>14. ASSUME NEW r \in Requests, PublicKeysForRecoveryData(r) PROVE ConfirmPanelIsLive'
    BY <1>14
       DEF PublicKeysForRecoveryData, PublicKeys, Shows, KeyPanel, OpenPrompt,
           Abandon
  <1>15. ASSUME NEW r \in Requests, PublicKeysForBatch(r) PROVE ConfirmPanelIsLive'
    BY <1>15 DEF PublicKeysForBatch, PublicKeys, Shows, KeyPanel, OpenPrompt, Abandon
  <1>16. ASSUME NEW r \in Requests, KeyRecovered(r) PROVE ConfirmPanelIsLive'
    BY <1>16
       DEF KeyRecovered, PublicKeys, MayShow, KeyPanel, Read, Release, Answer,
           Assign, Shows, OpenPrompt, Abandon
  <1>17. ASSUME NEW r \in Requests, RebindStarted(r) PROVE ConfirmPanelIsLive'
    BY <1>17, OpenConfirmEffect
       DEF RebindStarted, PublicKeys, Shows, KeyPanel, OpenPrompt, Abandon
  <1>18. ASSUME NEW r \in Requests, StageDone(r) PROVE ConfirmPanelIsLive'
    BY <1>18 DEF StageDone, Zeroize, Release, Shows, KeyPanel, OpenPrompt, Abandon
  <1>19. ASSUME NEW r \in Requests, StageFails(r) PROVE ConfirmPanelIsLive'
    BY <1>19
       DEF StageFails, Return, Zeroize, Release, Answer, Shows, KeyPanel,
           OpenPrompt, Abandon
  <1>20. ASSUME NEW r \in Requests, Wrapped(r) PROVE ConfirmPanelIsLive'
    BY <1>20
       DEF Wrapped, Return, Zeroize, Release, Read, Key, Answer, Shows, KeyPanel,
           OpenPrompt, Abandon
  <1>21. ASSUME NEW r \in Requests, EnvelopeOpened(r) PROVE ConfirmPanelIsLive'
    BY <1>21
       DEF EnvelopeOpened, InstallSession, Answer, Shows, KeyPanel, OpenPrompt,
           Abandon
  <1>22. ASSUME NEW r \in Requests, NextDigest(r) PROVE ConfirmPanelIsLive'
    BY <1>22 DEF NextDigest, Read, Shows, KeyPanel, OpenPrompt, Abandon
  <1>23. ASSUME NEW r \in Requests, PasskeyDone(r) PROVE ConfirmPanelIsLive'
    BY <1>23
       DEF PasskeyDone, ConfirmSucceeds, Release, Answer, Shows, KeyPanel,
           OpenPrompt, Abandon
  <1>24. ASSUME NEW r \in Requests, FollowUpAssertion(r) PROVE ConfirmPanelIsLive'
    BY <1>24 DEF FollowUpAssertion, Shows, KeyPanel, OpenPrompt, Abandon
  <1>25. ASSUME NEW r \in Requests, PasskeyFails(r) PROVE ConfirmPanelIsLive'
    BY <1>25 DEF PasskeyFails, Release, Answer, Shows, KeyPanel, OpenPrompt, Abandon
  <1>26. ASSUME NEW r \in Requests, ClickConfirm(r) PROVE ConfirmPanelIsLive'
    BY <1>26 DEF ClickConfirm, Shows, NoteClick, KeyPanel, OpenPrompt, Abandon
  <1>27. ASSUME NEW r \in Requests, ClickDeny(r) PROVE ConfirmPanelIsLive'
    BY <1>27 DEF ClickDeny, Shows, Release, Answer, KeyPanel, OpenPrompt, Abandon
  <1>28. ASSUME NEW r \in Requests, EnterPassphrase(r) PROVE ConfirmPanelIsLive'
    BY <1>28, OpenConfirmEffect
       DEF EnterPassphrase, Shows, NoteClick, Answer, KeyPanel, OpenPrompt, Abandon
  <1>29. ASSUME NEW r \in Requests, EnterShortPassphrase(r) PROVE ConfirmPanelIsLive'
    BY <1>29 DEF EnterShortPassphrase, Shows, Answer, KeyPanel, OpenPrompt, Abandon
  <1>30. ASSUME NEW r \in Requests, ClickStalePassphrase(r) PROVE ConfirmPanelIsLive'
    BY <1>30 DEF ClickStalePassphrase, Shows, NoteClick, KeyPanel, OpenPrompt, Abandon
  <1>31. ASSUME NEW r \in Requests, EnterPrivateKey(r) PROVE ConfirmPanelIsLive'
    BY <1>31
       DEF EnterPrivateKey, Shows, InstallSession, Answer, KeyPanel, OpenPrompt,
           Abandon
  <1>32. ASSUME NEW r \in Requests, ClickDone(r) PROVE ConfirmPanelIsLive'
    BY <1>32 DEF ClickDone, Shows, Release, Answer, KeyPanel, OpenPrompt, Abandon
  <1>33. CASE UNCHANGED vars
    BY <1>33
  <1> QED
    BY <1>1, <1>2, <1>3, <1>4, <1>5, <1>6, <1>7, <1>8, <1>9, <1>10, <1>11, <1>12,
       <1>13, <1>14, <1>15, <1>16, <1>17, <1>18, <1>19, <1>20, <1>21, <1>22, <1>23,
       <1>24, <1>25, <1>26, <1>27, <1>28, <1>29, <1>30, <1>31, <1>32, <1>33
       DEF Next, Resume, Authenticator, User

\* A handler posts its terminal event exactly when it returns.
LEMMA AnsweredStep ==
  ASSUME TypeOK, WaiterInCeremony, Answered, [Next]_vars
  PROVE  Answered'
  <1> USE RequestsAssumption, SuccessReply, WorkOfStages
          DEF TypeOK, WaiterInCeremony, Answered, vars, keyVars, lockVars, Phases,
              Replies, Failures, OrNone, Denied
  <1>1. ASSUME NEW r \in Requests, NEW m \in Methods, Receive(r, m) PROVE Answered'
    BY <1>1 DEF Receive, Abandon, CancelThen, Assign
  <1>2. CASE Cancel
    BY <1>2 DEF Cancel, Abandon, Assign
  <1>3. ASSUME NEW r \in Requests, StartAnswered(r) PROVE Answered'
    BY <1>3 DEF StartAnswered, Answer
  <1>4. ASSUME NEW r \in Requests, StartClearRecoverySession(r) PROVE Answered'
    BY <1>4 DEF StartClearRecoverySession, Answer
  <1>5. ASSUME NEW r \in Requests, StartCeremony(r) PROVE Answered'
    BY <1>5, OpenConfirmEffect DEF StartCeremony
  <1>6. ASSUME NEW r \in Requests, StartInSession(r) PROVE Answered'
    <2>1. PICK w \in WorkOf(method[r]) :
            IF method[r] \in SeedFirst
            THEN /\ pc' = [pc EXCEPT ![r] = "seed"]
                 /\ work' = [work EXCEPT ![r] = w]
                 /\ UNCHANGED <<reply, tainted>>
            ELSE BeginWork(r, w, buf[session])
      BY <1>6 DEF StartInSession
    <2>2. CASE method[r] \in SeedFirst
      BY <1>6, <2>1, <2>2, WorkOfStages DEF StartInSession
    <2>3. CASE method[r] \notin SeedFirst
      <3>1. BeginWork(r, w, buf[session]) /\ w \in SUBSET Stages
        BY <2>1, <2>3, WorkOfStages
      <3>2. WorkEffect(r, w)
        BY ONLY TypeOK, r \in Requests, <3>1, BeginWorkEffect
      <3> QED BY <1>6, <3>2 DEF StartInSession, WorkEffect
    <2> QED BY <2>2, <2>3
  <1>7. ASSUME NEW r \in Requests, StartPrompt(r) PROVE Answered'
    <2>1. CASE CancelThen(r, "passphrase")
      BY <1>7, <2>1, CancelEffect DEF StartPrompt
    <2>2. CASE CancelThen(r, "keyEntry")
      BY <1>7, <2>2, CancelEffect DEF StartPrompt
    <2> QED BY <1>7, <2>1, <2>2 DEF StartPrompt, OpenPrompt
  <1>8. ASSUME NEW r \in Requests, DerivedForReveal(r) PROVE Answered'
    <2>1. CASE CancelThen(r, "dismiss")
      BY <1>8, <2>1, CancelEffect DEF DerivedForReveal, KeyDerived
    <2>2. CASE Answer(r, "InvalidRequest")
      BY <2>2 DEF Answer
    <2> QED BY <1>8, <2>1, <2>2 DEF DerivedForReveal
  <1>9. ASSUME NEW r \in Requests, DerivedForRecoveryData(r) PROVE Answered'
    BY <1>9 DEF DerivedForRecoveryData, KeyDerived
  <1>10. ASSUME NEW r \in Requests, DerivedForWork(r) PROVE Answered'
    <2>1. BeginWork(r, work[r], "key") /\ work[r] \in SUBSET Stages
      BY <1>10 DEF DerivedForWork
    <2>2. WorkEffect(r, work[r])
      BY ONLY TypeOK, r \in Requests, <2>1, BeginWorkEffect
    <2> QED BY <1>10, <2>2 DEF DerivedForWork, KeyDerived, WorkEffect
  <1>11. ASSUME NEW r \in Requests, CryptoFails(r) PROVE Answered'
    BY <1>11 DEF CryptoFails, Release, Answer
  <1>12. ASSUME NEW r \in Requests, SeedDerived(r) PROVE Answered'
    <2>1. CASE method[r] # "executeBatch"
      <3>1. BeginWork(r, work[r], Key(r)) /\ work[r] \in SUBSET Stages
        BY <1>12, <2>1 DEF SeedDerived
      <3>2. WorkEffect(r, work[r])
        BY ONLY TypeOK, r \in Requests, <3>1, BeginWorkEffect
      <3> QED BY <1>12, <2>1, <3>2 DEF SeedDerived, WorkEffect
    <2>2. CASE method[r] = "executeBatch"
      BY <1>12, <2>2 DEF SeedDerived, Answer
    <2> QED BY <2>1, <2>2
  <1>13. ASSUME NEW r \in Requests, SessionImported(r) PROVE Answered'
    BY <1>13 DEF SessionImported, PublicKeys, Answer
  <1>14. ASSUME NEW r \in Requests, PublicKeysForRecoveryData(r) PROVE Answered'
    BY <1>14 DEF PublicKeysForRecoveryData, PublicKeys
  <1>15. ASSUME NEW r \in Requests, PublicKeysForBatch(r) PROVE Answered'
    <2>1. BeginWork(r, work[r], Key(r)) /\ work[r] \in SUBSET Stages
      BY <1>15 DEF PublicKeysForBatch
    <2>2. WorkEffect(r, work[r])
      BY ONLY TypeOK, r \in Requests, <2>1, BeginWorkEffect
    <2> QED BY <1>15, <2>2 DEF PublicKeysForBatch, PublicKeys, WorkEffect
  <1>16. ASSUME NEW r \in Requests, KeyRecovered(r) PROVE Answered'
    <2> DEFINE Shown == /\ pc' = Assign(pc, Denied \cup {r}, "done")
                        /\ reply' = [Assign(reply, Denied, "SignDenied")
                                       EXCEPT ![r] = "RecoverySessionStarted"]
    <2>1. Answer(r, "RecoverySessionStarted") \/ Shown
      BY <1>16 DEF KeyRecovered
    <2>2. CASE Answer(r, "RecoverySessionStarted")
      BY <2>2 DEF Answer
    <2>3. CASE Shown
      <3>1. /\ pc'[r] = "done" /\ reply'[r] = "RecoverySessionStarted"
            /\ \A q \in Requests \ {r} :
                 IF q = waiter THEN pc'[q] = "done" /\ reply'[q] = "SignDenied"
                 ELSE pc'[q] = pc[q] /\ reply'[q] = reply[q]
        BY ONLY TypeOK, r \in Requests, <2>3, ShownEffect
      <3> QED BY <3>1
    <2> QED BY <2>1, <2>2, <2>3
  <1>17. ASSUME NEW r \in Requests, RebindStarted(r) PROVE Answered'
    BY <1>17, OpenConfirmEffect DEF RebindStarted, PublicKeys
  <1>18. ASSUME NEW r \in Requests, StageDone(r) PROVE Answered'
    <2>1. /\ BeginWork(r, (work[r] \ {Stage(work[r])}), Key(r))
          /\ (work[r] \ {Stage(work[r])}) \in SUBSET Stages
      BY <1>18 DEF StageDone
    <2>2. WorkEffect(r, (work[r] \ {Stage(work[r])}))
      BY ONLY TypeOK, r \in Requests, <2>1, BeginWorkEffect
    <2> QED BY <1>18, <2>2 DEF StageDone, WorkEffect
  <1>19. ASSUME NEW r \in Requests, StageFails(r) PROVE Answered'
    BY <1>19 DEF StageFails, Return, Zeroize, Release, Answer
  <1>20. ASSUME NEW r \in Requests, Wrapped(r) PROVE Answered'
    BY <1>20 DEF Wrapped, Return, Zeroize, Release, Read, Key, Answer
  <1>21. ASSUME NEW r \in Requests, EnvelopeOpened(r) PROVE Answered'
    BY <1>21 DEF EnvelopeOpened, InstallSession, Answer
  <1>22. ASSUME NEW r \in Requests, NextDigest(r) PROVE Answered'
    BY <1>22 DEF NextDigest, Read
  <1>23. ASSUME NEW r \in Requests, PasskeyDone(r) PROVE Answered'
    BY <1>23 DEF PasskeyDone, ConfirmSucceeds, Release, Answer
  <1>24. ASSUME NEW r \in Requests, FollowUpAssertion(r) PROVE Answered'
    BY <1>24 DEF FollowUpAssertion
  <1>25. ASSUME NEW r \in Requests, PasskeyFails(r) PROVE Answered'
    BY <1>25 DEF PasskeyFails, Release, Answer
  <1>26. ASSUME NEW r \in Requests, ClickConfirm(r) PROVE Answered'
    BY <1>26 DEF ClickConfirm, Shows, NoteClick
  <1>27. ASSUME NEW r \in Requests, ClickDeny(r) PROVE Answered'
    BY <1>27 DEF ClickDeny, Shows, Release, Answer
  <1>28. ASSUME NEW r \in Requests, EnterPassphrase(r) PROVE Answered'
    BY <1>28, OpenConfirmEffect DEF EnterPassphrase, Shows, NoteClick, Answer
  <1>29. ASSUME NEW r \in Requests, EnterShortPassphrase(r) PROVE Answered'
    BY <1>29 DEF EnterShortPassphrase, Shows, Answer
  <1>30. ASSUME NEW r \in Requests, ClickStalePassphrase(r) PROVE Answered'
    BY <1>30 DEF ClickStalePassphrase, Shows, NoteClick
  <1>31. ASSUME NEW r \in Requests, EnterPrivateKey(r) PROVE Answered'
    BY <1>31 DEF EnterPrivateKey, Shows, InstallSession, Answer
  <1>32. ASSUME NEW r \in Requests, ClickDone(r) PROVE Answered'
    BY <1>32 DEF ClickDone, Shows, Release, Answer
  <1>33. CASE UNCHANGED vars
    BY <1>33
  <1> QED
    BY <1>1, <1>2, <1>3, <1>4, <1>5, <1>6, <1>7, <1>8, <1>9, <1>10, <1>11, <1>12,
       <1>13, <1>14, <1>15, <1>16, <1>17, <1>18, <1>19, <1>20, <1>21, <1>22, <1>23,
       <1>24, <1>25, <1>26, <1>27, <1>28, <1>29, <1>30, <1>31, <1>32, <1>33
       DEF Next, Resume, Authenticator, User

\* Only the importing and recovering handlers install a session.
LEMMA SessionOwnerStep ==
  ASSUME TypeOK, MethodPhase, SessionOwner, [Next]_vars
  PROVE  SessionOwner'
  <1> USE RequestsAssumption
          DEF TypeOK, MethodPhase, Starters, SessionOwner, vars, keyVars, lockVars,
              OrNone
  <1>1. ASSUME NEW r \in Requests, NEW m \in Methods, Receive(r, m) PROVE SessionOwner'
    BY <1>1 DEF Receive, Abandon, CancelThen, Assign
  <1>2. CASE Cancel
    BY <1>2 DEF Cancel, Abandon, Assign
  <1>3. ASSUME NEW r \in Requests, StartAnswered(r) PROVE SessionOwner'
    BY <1>3 DEF StartAnswered, Answer
  <1>4. ASSUME NEW r \in Requests, StartClearRecoverySession(r) PROVE SessionOwner'
    BY <1>4 DEF StartClearRecoverySession, Answer
  <1>5. ASSUME NEW r \in Requests, StartCeremony(r) PROVE SessionOwner'
    BY <1>5, OpenConfirmEffect DEF StartCeremony
  <1>6. ASSUME NEW r \in Requests, StartInSession(r) PROVE SessionOwner'
    BY <1>6 DEF StartInSession
  <1>7. ASSUME NEW r \in Requests, StartPrompt(r) PROVE SessionOwner'
    BY <1>7 DEF StartPrompt
  <1>8. ASSUME NEW r \in Requests, DerivedForReveal(r) PROVE SessionOwner'
    BY <1>8 DEF DerivedForReveal, KeyDerived, Zeroize
  <1>9. ASSUME NEW r \in Requests, DerivedForRecoveryData(r) PROVE SessionOwner'
    BY <1>9 DEF DerivedForRecoveryData, KeyDerived
  <1>10. ASSUME NEW r \in Requests, DerivedForWork(r) PROVE SessionOwner'
    BY <1>10 DEF DerivedForWork, KeyDerived, Release
  <1>11. ASSUME NEW r \in Requests, CryptoFails(r) PROVE SessionOwner'
    BY <1>11 DEF CryptoFails, Release, Answer
  <1>12. ASSUME NEW r \in Requests, SeedDerived(r) PROVE SessionOwner'
    BY <1>12 DEF SeedDerived, Answer
  <1>13. ASSUME NEW r \in Requests, SessionImported(r) PROVE SessionOwner'
    BY <1>13 DEF SessionImported, PublicKeys, Answer
  <1>14. ASSUME NEW r \in Requests, PublicKeysForRecoveryData(r) PROVE SessionOwner'
    BY <1>14 DEF PublicKeysForRecoveryData, PublicKeys
  <1>15. ASSUME NEW r \in Requests, PublicKeysForBatch(r) PROVE SessionOwner'
    BY <1>15 DEF PublicKeysForBatch, PublicKeys
  <1>16. ASSUME NEW r \in Requests, KeyRecovered(r) PROVE SessionOwner'
    BY <1>16
       DEF KeyRecovered, PublicKeys, MayShow, KeyPanel, Read, Release, Answer,
           Assign
  <1>17. ASSUME NEW r \in Requests, RebindStarted(r) PROVE SessionOwner'
    BY <1>17, OpenConfirmEffect DEF RebindStarted, PublicKeys
  <1>18. ASSUME NEW r \in Requests, StageDone(r) PROVE SessionOwner'
    BY <1>18 DEF StageDone, Zeroize, Release
  <1>19. ASSUME NEW r \in Requests, StageFails(r) PROVE SessionOwner'
    BY <1>19 DEF StageFails, Return, Zeroize, Release, Answer
  <1>20. ASSUME NEW r \in Requests, Wrapped(r) PROVE SessionOwner'
    BY <1>20 DEF Wrapped, Return, Zeroize, Release, Read, Key, Answer
  <1>21. ASSUME NEW r \in Requests, EnvelopeOpened(r) PROVE SessionOwner'
    BY <1>21 DEF EnvelopeOpened, InstallSession, Answer
  <1>22. ASSUME NEW r \in Requests, NextDigest(r) PROVE SessionOwner'
    BY <1>22 DEF NextDigest, Read
  <1>23. ASSUME NEW r \in Requests, PasskeyDone(r) PROVE SessionOwner'
    BY <1>23 DEF PasskeyDone, ConfirmSucceeds, Release, Answer
  <1>24. ASSUME NEW r \in Requests, FollowUpAssertion(r) PROVE SessionOwner'
    BY <1>24 DEF FollowUpAssertion
  <1>25. ASSUME NEW r \in Requests, PasskeyFails(r) PROVE SessionOwner'
    BY <1>25 DEF PasskeyFails, Release, Answer
  <1>26. ASSUME NEW r \in Requests, ClickConfirm(r) PROVE SessionOwner'
    BY <1>26 DEF ClickConfirm, Shows, NoteClick
  <1>27. ASSUME NEW r \in Requests, ClickDeny(r) PROVE SessionOwner'
    BY <1>27 DEF ClickDeny, Shows, Release, Answer
  <1>28. ASSUME NEW r \in Requests, EnterPassphrase(r) PROVE SessionOwner'
    BY <1>28, OpenConfirmEffect DEF EnterPassphrase, Shows, NoteClick, Answer
  <1>29. ASSUME NEW r \in Requests, EnterShortPassphrase(r) PROVE SessionOwner'
    BY <1>29 DEF EnterShortPassphrase, Shows, Answer
  <1>30. ASSUME NEW r \in Requests, ClickStalePassphrase(r) PROVE SessionOwner'
    BY <1>30 DEF ClickStalePassphrase, Shows, NoteClick
  <1>31. ASSUME NEW r \in Requests, EnterPrivateKey(r) PROVE SessionOwner'
    BY <1>31 DEF EnterPrivateKey, Shows, InstallSession, Answer
  <1>32. ASSUME NEW r \in Requests, ClickDone(r) PROVE SessionOwner'
    BY <1>32 DEF ClickDone, Shows, Release, Answer
  <1>33. CASE UNCHANGED vars
    BY <1>33
  <1> QED
    BY <1>1, <1>2, <1>3, <1>4, <1>5, <1>6, <1>7, <1>8, <1>9, <1>10, <1>11, <1>12,
       <1>13, <1>14, <1>15, <1>16, <1>17, <1>18, <1>19, <1>20, <1>21, <1>22, <1>23,
       <1>24, <1>25, <1>26, <1>27, <1>28, <1>29, <1>30, <1>31, <1>32, <1>33
       DEF Next, Resume, Authenticator, User

\* The action ReplyIsLast requires of every step.
ReplyKept == \A q \in Requests : reply[q] # "none" =>
               reply'[q] = reply[q] /\ (q \in derived' => q \in derived)

\* Only a handler that has not answered posts, and each answers as it returns.
LEMMA ReplyStep ==
  ASSUME TypeOK, WaiterInCeremony, Answered, [Next]_vars
  PROVE  ReplyKept
  <1> USE RequestsAssumption, SuccessReply, WorkOfStages
          DEF TypeOK, WaiterInCeremony, Answered, ReplyKept, vars, keyVars,
              lockVars, Phases, Replies, Failures, OrNone, Denied
  <1>1. ASSUME NEW r \in Requests, NEW m \in Methods, Receive(r, m) PROVE ReplyKept
    BY <1>1 DEF Receive, Abandon, CancelThen, Assign
  <1>2. CASE Cancel
    BY <1>2 DEF Cancel, Abandon, Assign
  <1>3. ASSUME NEW r \in Requests, StartAnswered(r) PROVE ReplyKept
    BY <1>3 DEF StartAnswered, Answer
  <1>4. ASSUME NEW r \in Requests, StartClearRecoverySession(r) PROVE ReplyKept
    BY <1>4 DEF StartClearRecoverySession, Answer
  <1>5. ASSUME NEW r \in Requests, StartCeremony(r) PROVE ReplyKept
    BY <1>5, OpenConfirmEffect DEF StartCeremony
  <1>6. ASSUME NEW r \in Requests, StartInSession(r) PROVE ReplyKept
    <2>1. PICK w \in WorkOf(method[r]) :
            IF method[r] \in SeedFirst
            THEN /\ pc' = [pc EXCEPT ![r] = "seed"]
                 /\ work' = [work EXCEPT ![r] = w]
                 /\ UNCHANGED <<reply, tainted>>
            ELSE BeginWork(r, w, buf[session])
      BY <1>6 DEF StartInSession
    <2>2. CASE method[r] \in SeedFirst
      BY <1>6, <2>1, <2>2, WorkOfStages DEF StartInSession
    <2>3. CASE method[r] \notin SeedFirst
      <3>1. BeginWork(r, w, buf[session]) /\ w \in SUBSET Stages
        BY <2>1, <2>3, WorkOfStages
      <3>2. WorkEffect(r, w)
        BY ONLY TypeOK, r \in Requests, <3>1, BeginWorkEffect
      <3> QED BY <1>6, <3>2 DEF StartInSession, WorkEffect
    <2> QED BY <2>2, <2>3
  <1>7. ASSUME NEW r \in Requests, StartPrompt(r) PROVE ReplyKept
    <2>1. CASE CancelThen(r, "passphrase")
      BY <1>7, <2>1, CancelEffect DEF StartPrompt
    <2>2. CASE CancelThen(r, "keyEntry")
      BY <1>7, <2>2, CancelEffect DEF StartPrompt
    <2> QED BY <1>7, <2>1, <2>2 DEF StartPrompt, OpenPrompt
  <1>8. ASSUME NEW r \in Requests, DerivedForReveal(r) PROVE ReplyKept
    <2>1. CASE CancelThen(r, "dismiss")
      BY <1>8, <2>1, CancelEffect DEF DerivedForReveal, KeyDerived
    <2>2. CASE Answer(r, "InvalidRequest")
      BY <1>8, <2>2 DEF Answer, DerivedForReveal, KeyDerived
    <2> QED BY <1>8, <2>1, <2>2 DEF DerivedForReveal
  <1>9. ASSUME NEW r \in Requests, DerivedForRecoveryData(r) PROVE ReplyKept
    BY <1>9 DEF DerivedForRecoveryData, KeyDerived
  <1>10. ASSUME NEW r \in Requests, DerivedForWork(r) PROVE ReplyKept
    <2>1. BeginWork(r, work[r], "key") /\ work[r] \in SUBSET Stages
      BY <1>10 DEF DerivedForWork
    <2>2. WorkEffect(r, work[r])
      BY ONLY TypeOK, r \in Requests, <2>1, BeginWorkEffect
    <2> QED BY <1>10, <2>2 DEF DerivedForWork, KeyDerived, WorkEffect
  <1>11. ASSUME NEW r \in Requests, CryptoFails(r) PROVE ReplyKept
    BY <1>11 DEF CryptoFails, Release, Answer
  <1>12. ASSUME NEW r \in Requests, SeedDerived(r) PROVE ReplyKept
    <2>1. CASE method[r] # "executeBatch"
      <3>1. BeginWork(r, work[r], Key(r)) /\ work[r] \in SUBSET Stages
        BY <1>12, <2>1 DEF SeedDerived
      <3>2. WorkEffect(r, work[r])
        BY ONLY TypeOK, r \in Requests, <3>1, BeginWorkEffect
      <3> QED BY <1>12, <2>1, <3>2 DEF SeedDerived, WorkEffect
    <2>2. CASE method[r] = "executeBatch"
      BY <1>12, <2>2 DEF SeedDerived, Answer
    <2> QED BY <2>1, <2>2
  <1>13. ASSUME NEW r \in Requests, SessionImported(r) PROVE ReplyKept
    BY <1>13 DEF SessionImported, PublicKeys, Answer
  <1>14. ASSUME NEW r \in Requests, PublicKeysForRecoveryData(r) PROVE ReplyKept
    BY <1>14 DEF PublicKeysForRecoveryData, PublicKeys
  <1>15. ASSUME NEW r \in Requests, PublicKeysForBatch(r) PROVE ReplyKept
    <2>1. BeginWork(r, work[r], Key(r)) /\ work[r] \in SUBSET Stages
      BY <1>15 DEF PublicKeysForBatch
    <2>2. WorkEffect(r, work[r])
      BY ONLY TypeOK, r \in Requests, <2>1, BeginWorkEffect
    <2> QED BY <1>15, <2>2 DEF PublicKeysForBatch, PublicKeys, WorkEffect
  <1>16. ASSUME NEW r \in Requests, KeyRecovered(r) PROVE ReplyKept
    <2> DEFINE Shown == /\ pc' = Assign(pc, Denied \cup {r}, "done")
                        /\ reply' = [Assign(reply, Denied, "SignDenied")
                                       EXCEPT ![r] = "RecoverySessionStarted"]
    <2>1. Answer(r, "RecoverySessionStarted") \/ Shown
      BY <1>16 DEF KeyRecovered
    <2>2. CASE Answer(r, "RecoverySessionStarted")
      BY <1>16, <2>2 DEF Answer, KeyRecovered, PublicKeys
    <2>3. CASE Shown
      <3>1. /\ pc'[r] = "done" /\ reply'[r] = "RecoverySessionStarted"
            /\ \A q \in Requests \ {r} :
                 IF q = waiter THEN pc'[q] = "done" /\ reply'[q] = "SignDenied"
                 ELSE pc'[q] = pc[q] /\ reply'[q] = reply[q]
        BY ONLY TypeOK, r \in Requests, <2>3, ShownEffect
      <3>2. derived' = derived \cup {r} /\ pc[r] = "pub"
        BY <1>16 DEF KeyRecovered, PublicKeys
      <3> QED BY <3>1, <3>2
    <2> QED BY <2>1, <2>2, <2>3
  <1>17. ASSUME NEW r \in Requests, RebindStarted(r) PROVE ReplyKept
    BY <1>17, OpenConfirmEffect DEF RebindStarted, PublicKeys
  <1>18. ASSUME NEW r \in Requests, StageDone(r) PROVE ReplyKept
    <2>1. /\ BeginWork(r, (work[r] \ {Stage(work[r])}), Key(r))
          /\ (work[r] \ {Stage(work[r])}) \in SUBSET Stages
      BY <1>18 DEF StageDone
    <2>2. WorkEffect(r, (work[r] \ {Stage(work[r])}))
      BY ONLY TypeOK, r \in Requests, <2>1, BeginWorkEffect
    <2> QED BY <1>18, <2>2 DEF StageDone, WorkEffect
  <1>19. ASSUME NEW r \in Requests, StageFails(r) PROVE ReplyKept
    BY <1>19 DEF StageFails, Return, Zeroize, Release, Answer
  <1>20. ASSUME NEW r \in Requests, Wrapped(r) PROVE ReplyKept
    BY <1>20 DEF Wrapped, Return, Zeroize, Release, Read, Key, Answer
  <1>21. ASSUME NEW r \in Requests, EnvelopeOpened(r) PROVE ReplyKept
    BY <1>21 DEF EnvelopeOpened, InstallSession, Answer
  <1>22. ASSUME NEW r \in Requests, NextDigest(r) PROVE ReplyKept
    BY <1>22 DEF NextDigest, Read
  <1>23. ASSUME NEW r \in Requests, PasskeyDone(r) PROVE ReplyKept
    BY <1>23 DEF PasskeyDone, ConfirmSucceeds, Release, Answer
  <1>24. ASSUME NEW r \in Requests, FollowUpAssertion(r) PROVE ReplyKept
    BY <1>24 DEF FollowUpAssertion
  <1>25. ASSUME NEW r \in Requests, PasskeyFails(r) PROVE ReplyKept
    BY <1>25 DEF PasskeyFails, Release, Answer
  <1>26. ASSUME NEW r \in Requests, ClickConfirm(r) PROVE ReplyKept
    BY <1>26 DEF ClickConfirm, Shows, NoteClick
  <1>27. ASSUME NEW r \in Requests, ClickDeny(r) PROVE ReplyKept
    BY <1>27 DEF ClickDeny, Shows, Release, Answer
  <1>28. ASSUME NEW r \in Requests, EnterPassphrase(r) PROVE ReplyKept
    BY <1>28, OpenConfirmEffect DEF EnterPassphrase, Shows, NoteClick, Answer
  <1>29. ASSUME NEW r \in Requests, EnterShortPassphrase(r) PROVE ReplyKept
    BY <1>29 DEF EnterShortPassphrase, Shows, Answer
  <1>30. ASSUME NEW r \in Requests, ClickStalePassphrase(r) PROVE ReplyKept
    BY <1>30 DEF ClickStalePassphrase, Shows, NoteClick
  <1>31. ASSUME NEW r \in Requests, EnterPrivateKey(r) PROVE ReplyKept
    BY <1>31 DEF EnterPrivateKey, Shows, InstallSession, Answer
  <1>32. ASSUME NEW r \in Requests, ClickDone(r) PROVE ReplyKept
    BY <1>32 DEF ClickDone, Shows, Release, Answer
  <1>33. CASE UNCHANGED vars
    BY <1>33
  <1> QED
    BY <1>1, <1>2, <1>3, <1>4, <1>5, <1>6, <1>7, <1>8, <1>9, <1>10, <1>11, <1>12,
       <1>13, <1>14, <1>15, <1>16, <1>17, <1>18, <1>19, <1>20, <1>21, <1>22, <1>23,
       <1>24, <1>25, <1>26, <1>27, <1>28, <1>29, <1>30, <1>31, <1>32, <1>33
       DEF Next, Resume, Authenticator, User

\* The method of a request that was received stays as it is.
LEMMA MethodKept ==
  ASSUME TypeOK, [Next]_vars, NEW r \in Requests, pc[r] # "idle"
  PROVE  method'[r] = method[r]
  <1>1. CASE \E q \in Requests, m \in Methods : Receive(q, m)
    BY <1>1 DEF Receive, TypeOK
  <1>2. ASSUME NEW q \in Requests, Resume(q) PROVE method' = method
    BY <1>2 DEF Resume, StartAnswered, StartClearRecoverySession, StartCeremony,
       StartInSession, StartPrompt, DerivedForReveal, DerivedForRecoveryData,
       DerivedForWork, KeyDerived, CryptoFails, SeedDerived, SessionImported,
       PublicKeysForRecoveryData, PublicKeysForBatch, KeyRecovered, RebindStarted,
       PublicKeys, StageDone, StageFails, Wrapped, EnvelopeOpened
  <1>3. ASSUME NEW q \in Requests, NextDigest(q) \/ Authenticator(q) \/ User(q)
        PROVE  method' = method
    BY <1>3 DEF NextDigest, Authenticator, PasskeyDone, ConfirmSucceeds,
       FollowUpAssertion, PasskeyFails, User, ClickConfirm, ClickDeny, EnterPassphrase,
       EnterShortPassphrase, ClickStalePassphrase, EnterPrivateKey, ClickDone
  <1>4. CASE Cancel \/ UNCHANGED vars
    BY <1>4 DEF Cancel, vars
  <1> QED BY <1>1, <1>2, <1>3, <1>4 DEF Next

\* A handler that has returned, and what it answered, stays as it is.
LEMMA LeftoverKept ==
  ASSUME TypeOK, WaiterInCeremony, Answered, [Next]_vars, NEW r \in Requests, Leftover(r)
  PROVE  Leftover(r)'
  <1>1. ReplyKept
    BY ReplyStep
  <1>2. Answered'
    BY AnsweredStep
  <1>3. method'[r] = method[r]
    BY MethodKept DEF Leftover
  <1> QED BY <1>1, <1>2, <1>3 DEF Leftover, ReplyKept, Answered

\* Installing a session zero-fills the buffer of the one it replaces.
LEMMA InstallEffect ==
  ASSUME TypeOK, NEW r \in Requests, NEW c \in Contents, InstallSession(r, c)
  PROVE  /\ session' = r /\ buf'[r] = c
         /\ \A q \in Requests \ {r} : buf'[q] = IF q = session THEN "zero" ELSE buf[q]
  BY DEF TypeOK, InstallSession, WipeSession

\* No scalar outlives its handler, and no live buffer is zero-filled, the
\* session's own buffer being wiped only when the session ends or changes hands.
LEMMA BuffersStep ==
  ASSUME TypeOK, MethodPhase, SourcePhase, SessionOwner, WaiterInCeremony,
         SessionIsLive, BuffersFilled, KeysAccounted, Answered, [Next]_vars
  PROVE  Buffers'
  <1>0. \A q \in Requests : Leftover(q) => Leftover(q)'
    BY LeftoverKept
  <1> USE <1>0, RequestsAssumption, SuccessReply, WorkOfStages
          DEF Buffers, TypeOK, MethodPhase, SourcePhase, Starters, SessionOwner,
              WaiterInCeremony, SessionIsLive, BuffersFilled, KeysAccounted, Key,
              vars, keyVars, lockVars, Phases, OrNone, Denied, Contents
  <1>1. ASSUME NEW r \in Requests, NEW m \in Methods, Receive(r, m) PROVE Buffers'
    BY <1>1 DEF Receive, Abandon, CancelThen, Assign
  <1>2. CASE Cancel
    BY <1>2 DEF Cancel, Abandon, Assign
  <1>3. ASSUME NEW r \in Requests, StartAnswered(r) PROVE Buffers'
    BY <1>3 DEF StartAnswered, Answer
  <1>4. ASSUME NEW r \in Requests, StartClearRecoverySession(r) PROVE Buffers'
    BY <1>4 DEF StartClearRecoverySession, Answer, WipeSession
  <1>5. ASSUME NEW r \in Requests, StartCeremony(r) PROVE Buffers'
    BY <1>5, OpenConfirmEffect DEF StartCeremony
  <1>6. ASSUME NEW r \in Requests, StartInSession(r) PROVE Buffers'
    <2>1. /\ source' = [source EXCEPT ![r] = session] /\ session # r
          /\ pc[r] = "start" /\ session # NoRequest
          /\ UNCHANGED <<session, buf, envelopes>>
      BY <1>6 DEF StartInSession, KeyUse
    <2>2. \A q \in Requests \ {r} : pc'[q] = pc[q]
      <3>1. PICK w \in WorkOf(method[r]) :
              \/ pc' = [pc EXCEPT ![r] = "seed"]
              \/ BeginWork(r, w, buf[session])
        BY <1>6 DEF StartInSession
      <3>2. w \in SUBSET Stages
        BY WorkOfStages
      <3>3. CASE BeginWork(r, w, buf[session])
        <4>1. WorkEffect(r, w)
          BY ONLY TypeOK, r \in Requests, <3>2, <3>3, BeginWorkEffect
        <4> QED BY <4>1 DEF WorkEffect
      <3> QED BY <3>1, <3>3
    <2>3. BuffersFilled'
      BY <2>1, <2>2
    <2> QED BY <2>1, <2>2, <2>3
  <1>7. ASSUME NEW r \in Requests, StartPrompt(r) PROVE Buffers'
    <2>1. UNCHANGED <<session, buf, source, envelopes>> /\ pc[r] = "start"
      BY <1>7 DEF StartPrompt
    <2>2. CASE CancelThen(r, "passphrase")
      BY <2>1, <2>2, CancelEffect
    <2>3. CASE CancelThen(r, "keyEntry")
      BY <2>1, <2>3, CancelEffect
    <2> QED BY <1>7, <2>2, <2>3 DEF StartPrompt, OpenPrompt
  <1>8. ASSUME NEW r \in Requests, DerivedForReveal(r) PROVE Buffers'
    <2>1. /\ UNCHANGED <<session, source, envelopes>> /\ pc[r] = "derive"
          /\ buf' = [buf EXCEPT ![r] = "zero"]
      BY <1>8 DEF DerivedForReveal, KeyDerived, Zeroize
    <2>2. CASE CancelThen(r, "dismiss")
      BY <2>1, <2>2, CancelEffect
    <2>3. CASE Answer(r, "InvalidRequest")
      BY <2>1, <2>3 DEF Answer
    <2> QED BY <1>8, <2>2, <2>3 DEF DerivedForReveal
  <1>9. ASSUME NEW r \in Requests, DerivedForRecoveryData(r) PROVE Buffers'
    BY <1>9 DEF DerivedForRecoveryData, KeyDerived
  <1>10. ASSUME NEW r \in Requests, DerivedForWork(r) PROVE Buffers'
    <2>1. BeginWork(r, work[r], "key") /\ work[r] \in SUBSET Stages
      BY <1>10 DEF DerivedForWork
    <2>2. WorkEffect(r, work[r])
      BY ONLY TypeOK, r \in Requests, <2>1, BeginWorkEffect
    <2> QED BY <1>10, <2>2 DEF DerivedForWork, KeyDerived, WorkEffect
  <1>11. ASSUME NEW r \in Requests, CryptoFails(r) PROVE Buffers'
    <2>1. /\ UNCHANGED <<method, derived, session, source, envelopes>>
          /\ pc[r] \in {"derive", "seed", "pub", "wrap"}
          /\ pc'[r] = "done" /\ reply'[r] = "InvalidRequest"
          /\ \A q \in Requests \ {r} : pc'[q] = pc[q]
      BY <1>11 DEF CryptoFails, Answer
    <2>2. \/ buf' = buf
          \/ pc[r] = "derive" /\ buf' = [buf EXCEPT ![r] = "key"]
      BY <1>11 DEF CryptoFails
    <2>3. pc[r] \in {"derive", "wrap"} => Leftover(r)'
      BY <2>1 DEF Leftover
    <2>4. pc[r] = "derive" => session # r
      BY <2>1
    <2> QED BY <2>1, <2>2, <2>3, <2>4
  <1>12. ASSUME NEW r \in Requests, SeedDerived(r) PROVE Buffers'
    <2>1. CASE method[r] # "executeBatch"
      <3>1. BeginWork(r, work[r], Key(r)) /\ work[r] \in SUBSET Stages
        BY <1>12, <2>1 DEF SeedDerived
      <3>2. WorkEffect(r, work[r])
        BY ONLY TypeOK, r \in Requests, <3>1, BeginWorkEffect
      <3> QED BY <1>12, <2>1, <3>2 DEF SeedDerived, WorkEffect
    <2>2. CASE method[r] = "executeBatch"
      BY <1>12, <2>2 DEF SeedDerived, Answer
    <2> QED BY <2>1, <2>2
  <1>13. ASSUME NEW r \in Requests, SessionImported(r) PROVE Buffers'
    BY <1>13 DEF SessionImported, PublicKeys, Answer
  <1>14. ASSUME NEW r \in Requests, PublicKeysForRecoveryData(r) PROVE Buffers'
    BY <1>14 DEF PublicKeysForRecoveryData, PublicKeys
  <1>15. ASSUME NEW r \in Requests, PublicKeysForBatch(r) PROVE Buffers'
    <2>1. BeginWork(r, work[r], Key(r)) /\ work[r] \in SUBSET Stages
      BY <1>15 DEF PublicKeysForBatch
    <2>2. WorkEffect(r, work[r])
      BY ONLY TypeOK, r \in Requests, <2>1, BeginWorkEffect
    <2> QED BY <1>15, <2>2 DEF PublicKeysForBatch, PublicKeys, WorkEffect
  <1>16. ASSUME NEW r \in Requests, KeyRecovered(r) PROVE Buffers'
    BY <1>16
       DEF KeyRecovered, PublicKeys, MayShow, KeyPanel, Read, Release, Answer,
           Assign
  <1>17. ASSUME NEW r \in Requests, RebindStarted(r) PROVE Buffers'
    BY <1>17, OpenConfirmEffect DEF RebindStarted, PublicKeys
  <1>18. ASSUME NEW r \in Requests, StageDone(r) PROVE Buffers'
    <2>1. /\ BeginWork(r, (work[r] \ {Stage(work[r])}), Key(r))
          /\ (work[r] \ {Stage(work[r])}) \in SUBSET Stages
      BY <1>18 DEF StageDone
    <2>2. WorkEffect(r, (work[r] \ {Stage(work[r])}))
      BY ONLY TypeOK, r \in Requests, <2>1, BeginWorkEffect
    <2> QED BY <1>18, <2>2 DEF StageDone, Zeroize, WorkEffect
  <1>19. ASSUME NEW r \in Requests, StageFails(r) PROVE Buffers'
    BY <1>19 DEF StageFails, Return, Zeroize, Release, Answer
  <1>20. ASSUME NEW r \in Requests, Wrapped(r) PROVE Buffers'
    BY <1>20 DEF Wrapped, Return, Zeroize, Release, Read, Answer
  <1>21. ASSUME NEW r \in Requests, EnvelopeOpened(r) PROVE Buffers'
    <2>1. UNCHANGED <<source, envelopes>> /\ pc[r] = "decrypt"
      BY <1>21 DEF EnvelopeOpened
    <2>2. CASE UNCHANGED <<buf, session>>
      BY <1>21, <2>1, <2>2 DEF EnvelopeOpened, Answer
    <2>3. ASSUME NEW content \in envelopes, InstallSession(r, content),
                 \/ pc' = [pc EXCEPT ![r] = "pub"]
                 \/ pc' = [pc EXCEPT ![r] = "done"]
          PROVE  Buffers'
      <3>1. /\ session' = r /\ buf'[r] = content
            /\ \A q \in Requests \ {r} : buf'[q] = IF q = session THEN "zero" ELSE buf[q]
        BY ONLY TypeOK, r \in Requests, content \in envelopes, <2>3, InstallEffect
           DEF TypeOK
      <3>2. content \in Contents /\ content # "empty"
        OBVIOUS
      <3> QED BY <2>1, <2>3, <3>1, <3>2
    <2> QED BY <1>21, <2>2, <2>3 DEF EnvelopeOpened, Answer
  <1>22. ASSUME NEW r \in Requests, NextDigest(r) PROVE Buffers'
    BY <1>22 DEF NextDigest, Read
  <1>23. ASSUME NEW r \in Requests, PasskeyDone(r) PROVE Buffers'
    BY <1>23 DEF PasskeyDone, ConfirmSucceeds, Release, Answer, WipeSession
  <1>24. ASSUME NEW r \in Requests, FollowUpAssertion(r) PROVE Buffers'
    BY <1>24 DEF FollowUpAssertion
  <1>25. ASSUME NEW r \in Requests, PasskeyFails(r) PROVE Buffers'
    BY <1>25 DEF PasskeyFails, Release, Answer
  <1>26. ASSUME NEW r \in Requests, ClickConfirm(r) PROVE Buffers'
    BY <1>26 DEF ClickConfirm, Shows, NoteClick
  <1>27. ASSUME NEW r \in Requests, ClickDeny(r) PROVE Buffers'
    BY <1>27 DEF ClickDeny, Shows, Release, Answer
  <1>28. ASSUME NEW r \in Requests, EnterPassphrase(r) PROVE Buffers'
    BY <1>28, OpenConfirmEffect DEF EnterPassphrase, Shows, NoteClick, Answer
  <1>29. ASSUME NEW r \in Requests, EnterShortPassphrase(r) PROVE Buffers'
    BY <1>29 DEF EnterShortPassphrase, Shows, Answer
  <1>30. ASSUME NEW r \in Requests, ClickStalePassphrase(r) PROVE Buffers'
    BY <1>30 DEF ClickStalePassphrase, Shows, NoteClick
  <1>31. ASSUME NEW r \in Requests, EnterPrivateKey(r) PROVE Buffers'
    <2>1. UNCHANGED <<source, envelopes>> /\ pc[r] = "keyEntry"
      BY <1>31 DEF EnterPrivateKey
    <2>2. CASE UNCHANGED <<buf, session>>
      BY <1>31, <2>1, <2>2 DEF EnterPrivateKey, Answer
    <2>3. CASE InstallSession(r, "key") /\ pc' = [pc EXCEPT ![r] = "pub"]
      <3>1. /\ session' = r /\ buf'[r] = "key"
            /\ \A q \in Requests \ {r} : buf'[q] = IF q = session THEN "zero" ELSE buf[q]
        BY ONLY TypeOK, r \in Requests, <2>3, InstallEffect DEF Contents
      <3> QED BY <2>1, <2>3, <3>1
    <2> QED BY <1>31, <2>2, <2>3 DEF EnterPrivateKey
  <1>32. ASSUME NEW r \in Requests, ClickDone(r) PROVE Buffers'
    BY <1>32 DEF ClickDone, Shows, Release, Answer
  <1>33. CASE UNCHANGED vars
    BY <1>33
  <1> QED
    BY <1>1, <1>2, <1>3, <1>4, <1>5, <1>6, <1>7, <1>8, <1>9, <1>10, <1>11, <1>12,
       <1>13, <1>14, <1>15, <1>16, <1>17, <1>18, <1>19, <1>20, <1>21, <1>22, <1>23,
       <1>24, <1>25, <1>26, <1>27, <1>28, <1>29, <1>30, <1>31, <1>32, <1>33
       DEF Next, Resume, Authenticator, User

-----------------------------------------------------------------------------
\* The inductive invariant holds initially: nothing has been received.
LEMMA InvInit == Init => IInv
  <1> SUFFICES ASSUME Init PROVE IInv
    OBVIOUS
  <1>1. TypeOK
    BY TypeInit
  <1>2. Located /\ WaiterInCeremony /\ SessionOwner /\ Answered
    BY RequestsAssumption DEF Init, Located, MethodPhase, SourcePhase, WaiterInCeremony,
       SessionOwner, Answered
  <1>3. Locked /\ ConfirmPanelIsLive
    BY RequestsAssumption DEF Init, Locked, LockHeldByCeremony, InCeremony, AbortedPhase,
       ConfirmPanelIsLive, NoPanel, Panel
  <1>4. Buffers
    BY RequestsAssumption DEF Init, Buffers, SessionIsLive, BuffersFilled, KeysAccounted
  <1> QED BY <1>1, <1>2, <1>3, <1>4 DEF IInv

\* Every step keeps it.
LEMMA InvStep == IInv /\ [Next]_vars => IInv'
  <1> SUFFICES ASSUME IInv, [Next]_vars PROVE IInv'
    OBVIOUS
  <1> USE DEF IInv, Located, Locked, Buffers
  <1>1. TypeOK'
    BY TypeStep
  <1>2. Located' /\ WaiterInCeremony'
    BY PhaseStep, WaiterStep
  <1>3. Locked' /\ ConfirmPanelIsLive'
    BY LockStep, ConfirmPanelStep
  <1>4. SessionOwner' /\ Buffers'
    BY SessionOwnerStep, BuffersStep
  <1>5. Answered'
    BY AnsweredStep
  <1> QED BY <1>1, <1>2, <1>3, <1>4, <1>5

\* Hence it holds throughout every behaviour.
LEMMA Invariance == Spec => []IInv
  BY InvInit, InvStep, PTL DEF Spec

\* Every state of the Signing Layer is well typed.
THEOREM TypeCorrect == Spec => []TypeOK
  <1>1. IInv => TypeOK
    BY DEF IInv
  <1> QED BY <1>1, Invariance, PTL

\* The ceremony lock belongs to the one ceremony that runs and was not
\* abandoned, however many stale handlers are still unwinding.
THEOREM LockCorrect == Spec => []LockHeldByCeremony
  <1>1. IInv => LockHeldByCeremony
    BY DEF IInv, Locked
  <1> QED BY <1>1, Invariance, PTL

\* The pending Confirm promise always has a handler suspended on it, and no other
\* handler is suspended there: a settled Confirm never strands its request.
THEOREM WaiterCorrect == Spec => []WaiterInCeremony
  <1>1. IInv => WaiterInCeremony
    BY DEF IInv
  <1> QED BY <1>1, Invariance, PTL

\* A Confirm panel on the screen reaches the handler that waits.
THEOREM ConfirmCorrect == Spec => []ConfirmPanelIsLive
  <1>1. IInv => ConfirmPanelIsLive
    BY DEF IInv
  <1> QED BY <1>1, Invariance, PTL

\* The recovery session's buffer is never a zero-filled one.
THEOREM SessionCorrect == Spec => []SessionIsLive
  <1>1. IInv => SessionIsLive
    BY DEF IInv, Buffers
  <1> QED BY <1>1, Invariance, PTL

\* A handler that has returned leaves no scalar behind but the session's, where
\* WebCrypto does not fail before its keys are reported or in createRecoveryData.
THEOREM ZeroizeCorrect == Spec => []ScalarsZeroized
  <1>1. IInv => ScalarsZeroized
    BY DEF IInv, Buffers, KeysAccounted, Leftover, ScalarsZeroized
  <1> QED BY <1>1, Invariance, PTL

\* Nothing is posted for a request after its terminal event.
THEOREM ReplyCorrect == Spec => ReplyIsLast
  <1>1. IInv /\ [Next]_vars => [ReplyKept]_vars
    BY ReplyStep DEF IInv
  <1>2. IInv /\ [Next]_vars => [\A r \in Requests : reply[r] # "none" =>
            reply'[r] = reply[r] /\ (r \in derived' => r \in derived)]_vars
    BY <1>1 DEF ReplyKept
  <1> QED BY <1>2, Invariance, PTL DEF Spec, ReplyIsLast

-----------------------------------------------------------------------------
(* Four properties fail for some methods and hold for all the others.  Each *)
(* is proved below for any set of methods without those; every exclusion is *)
(* necessary, as TLC shows with up to three requests.                       *)

\* How a request came to be where it is: who called it, what it has to run, and
\* that a message handler runs alone up to its first await.
Flow ==
  \A r \in Requests :
    /\ method[r] \in Methods \cup {"none"}
    /\ work[r] \subseteq UNION WorkOf(method[r])
    /\ pc[r] = "start" => /\ waiter = NoRequest
                          /\ \A q \in Requests : pc[q] = "start" => q = r
    /\ pc[r] = "wrap" => method[r] = "createRecoveryData"
    /\ pc[r] = "seed" => method[r] \in SeedFirst
    /\ source[r] # r => method[r] \in KeyUse \cup {"createRecoveryData"}
    /\ passkey[r] # "none" => pc[r] \in {"passkey", "done"}

\* BeginWork leaves r the stages w to run.
LEMMA BeginWorkStages ==
  ASSUME NEW r, NEW w, NEW k, BeginWork(r, w, k)
  PROVE  work' = [work EXCEPT ![r] = w]
  BY DEF BeginWork

\* BeginWork reads the scalar only to enter a stage.
LEMMA BeginWorkReads ==
  ASSUME NEW r, NEW w, NEW k, BeginWork(r, w, k)
  PROVE  /\ w = {} \/ k # "zero" => tainted' = tainted
         /\ tainted' \in {tainted, tainted \cup {r}}
  BY DEF BeginWork

\* Only executeBatch has more than one stage to run.
LEMMA OneStage ==
  ASSUME TypeOK, NEW r \in Requests, work[r] \subseteq UNION WorkOf(method[r]),
         method[r] \notin {"executeBatch", "executeBatch.challenge"}
  PROVE  /\ work[r] \ {Stage(work[r])} = {}
         /\ "sign" \in work[r] => method[r] = "signDigest"
         /\ method[r] = "signDigest" => Stage(work[r]) # "seal"
  <1>1. CASE method[r] = "signDigest"
    BY <1>1 DEF WorkOf, Stage
  <1>2. CASE method[r] = "encryptAES256"
    BY <1>2 DEF WorkOf, Stage
  <1>3. CASE method[r] = "decryptAES256"
    BY <1>3 DEF WorkOf, Stage
  <1>4. CASE method[r] \notin {"signDigest", "encryptAES256", "decryptAES256"}
    BY <1>4 DEF WorkOf, Stage
  <1> QED BY <1>1, <1>2, <1>3, <1>4

\* Every step keeps Flow, one step per action of Next.
LEMMA FlowStep ==
  ASSUME TypeOK, MethodPhase, WaiterInCeremony, Flow, [Next]_vars
  PROVE  Flow'
  <1> USE RequestsAssumption, SuccessReply, WorkOfStages
          DEF TypeOK, MethodPhase, WaiterInCeremony, Flow, vars, keyVars, lockVars, Phases, OrNone,
              Denied, KeyUse, SeedFirst, Quiet
  <1>1. ASSUME NEW r \in Requests, NEW m \in Methods, Receive(r, m) PROVE Flow'
    <2>1. /\ pc[r] = "idle" /\ method' = [method EXCEPT ![r] = m]
          /\ UNCHANGED <<work, passkey, source>> /\ waiter' = NoRequest
          /\ CancelThen(r, "start") /\ \A q \in Requests : pc[q] # "start"
      BY <1>1 DEF Receive, Abandon
    <2>2. work[r] = {}
      BY <2>1 DEF WorkOf, KeyUse
    <2> QED BY <2>1, <2>2, CancelEffect
  <1>2. CASE Cancel
    BY <1>2 DEF Cancel, Abandon, Assign
  <1>3. ASSUME NEW r \in Requests, StartAnswered(r) PROVE Flow'
    BY <1>3 DEF StartAnswered, Answer
  <1>4. ASSUME NEW r \in Requests, StartClearRecoverySession(r) PROVE Flow'
    BY <1>4 DEF StartClearRecoverySession, Answer
  <1>5. ASSUME NEW r \in Requests, StartCeremony(r) PROVE Flow'
    BY <1>5, OpenConfirmEffect DEF StartCeremony
  <1>6. ASSUME NEW r \in Requests, StartInSession(r) PROVE Flow'
    <2>1. PICK w \in WorkOf(method[r]) :
            IF method[r] \in SeedFirst
            THEN /\ pc' = [pc EXCEPT ![r] = "seed"]
                 /\ work' = [work EXCEPT ![r] = w]
                 /\ UNCHANGED <<reply, tainted>>
            ELSE BeginWork(r, w, buf[session])
      BY <1>6 DEF StartInSession
    <2>2. CASE method[r] \in SeedFirst
      BY <1>6, <2>1, <2>2, WorkOfStages DEF SessionOwner, StartInSession
    <2>3. CASE method[r] \notin SeedFirst
      <3>1. BeginWork(r, w, buf[session]) /\ w \in SUBSET Stages
        BY <2>1, <2>3, WorkOfStages
      <3>2. WorkEffect(r, w)
        BY ONLY TypeOK, r \in Requests, <3>1, BeginWorkEffect
      <3>3. work' = [work EXCEPT ![r] = w]
        BY <3>1, BeginWorkStages
      <3> QED BY <1>6, <3>2, <3>3 DEF StartInSession, WorkEffect
    <2> QED BY <2>2, <2>3
  <1>7. ASSUME NEW r \in Requests, StartPrompt(r) PROVE Flow'
    <2>1. /\ waiter' = NoRequest
          /\ CancelThen(r, "passphrase") \/ CancelThen(r, "keyEntry")
      BY <1>7 DEF StartPrompt, OpenPrompt
    <2>2. CASE CancelThen(r, "passphrase")
      BY <1>7, <2>1, <2>2, CancelEffect DEF StartPrompt
    <2>3. CASE CancelThen(r, "keyEntry")
      BY <1>7, <2>1, <2>3, CancelEffect DEF StartPrompt
    <2> QED BY <2>1, <2>2, <2>3
  <1>8. ASSUME NEW r \in Requests, DerivedForReveal(r) PROVE Flow'
    <2>1. \/ waiter' = NoRequest /\ CancelThen(r, "dismiss")
          \/ waiter' = waiter /\ Answer(r, "InvalidRequest")
      BY <1>8 DEF DerivedForReveal
    <2>2. CASE waiter' = NoRequest /\ CancelThen(r, "dismiss")
      BY <1>8, <2>2, CancelEffect DEF DerivedForReveal, KeyDerived
    <2>3. CASE waiter' = waiter /\ Answer(r, "InvalidRequest")
      BY <1>8, <2>3 DEF Answer, DerivedForReveal, KeyDerived
    <2> QED BY <2>1, <2>2, <2>3
  <1>9. ASSUME NEW r \in Requests, DerivedForRecoveryData(r) PROVE Flow'
    BY <1>9 DEF DerivedForRecoveryData, KeyDerived
  <1>10. ASSUME NEW r \in Requests, DerivedForWork(r) PROVE Flow'
    <2>1. BeginWork(r, work[r], "key") /\ work[r] \in SUBSET Stages
      BY <1>10 DEF DerivedForWork
    <2>2. WorkEffect(r, work[r])
      BY ONLY TypeOK, r \in Requests, <2>1, BeginWorkEffect
    <2>3. work' = [work EXCEPT ![r] = work[r]]
      BY <2>1, BeginWorkStages
    <2> QED BY <1>10, <2>2, <2>3 DEF DerivedForWork, KeyDerived, WorkEffect
  <1>11. ASSUME NEW r \in Requests, CryptoFails(r) PROVE Flow'
    BY <1>11 DEF CryptoFails, Release, Answer
  <1>12. ASSUME NEW r \in Requests, SeedDerived(r) PROVE Flow'
    <2>1. CASE method[r] # "executeBatch"
      <3>1. BeginWork(r, work[r], Key(r)) /\ work[r] \in SUBSET Stages
        BY <1>12, <2>1 DEF SeedDerived
      <3>2. WorkEffect(r, work[r])
        BY ONLY TypeOK, r \in Requests, <3>1, BeginWorkEffect
      <3>3. work' = [work EXCEPT ![r] = work[r]]
        BY <3>1, BeginWorkStages
      <3> QED BY <1>12, <2>1, <3>2, <3>3 DEF SeedDerived, WorkEffect
    <2>2. CASE method[r] = "executeBatch"
      BY <1>12, <2>2 DEF SeedDerived, Answer
    <2> QED BY <2>1, <2>2
  <1>13. ASSUME NEW r \in Requests, SessionImported(r) PROVE Flow'
    BY <1>13 DEF SessionImported, PublicKeys, Answer
  <1>14. ASSUME NEW r \in Requests, PublicKeysForRecoveryData(r) PROVE Flow'
    BY <1>14 DEF PublicKeysForRecoveryData, PublicKeys
  <1>15. ASSUME NEW r \in Requests, PublicKeysForBatch(r) PROVE Flow'
    <2>1. BeginWork(r, work[r], Key(r)) /\ work[r] \in SUBSET Stages
      BY <1>15 DEF PublicKeysForBatch
    <2>2. WorkEffect(r, work[r])
      BY ONLY TypeOK, r \in Requests, <2>1, BeginWorkEffect
    <2>3. work' = [work EXCEPT ![r] = work[r]]
      BY <2>1, BeginWorkStages
    <2> QED BY <1>15, <2>2, <2>3 DEF PublicKeysForBatch, PublicKeys, WorkEffect
  <1>16. ASSUME NEW r \in Requests, KeyRecovered(r) PROVE Flow'
    BY <1>16
       DEF KeyRecovered, PublicKeys, MayShow, KeyPanel, Read, Release, Answer,
           Assign
  <1>17. ASSUME NEW r \in Requests, RebindStarted(r) PROVE Flow'
    BY <1>17, OpenConfirmEffect DEF RebindStarted, PublicKeys
  <1>18. ASSUME NEW r \in Requests, StageDone(r) PROVE Flow'
    <2>1. /\ BeginWork(r, (work[r] \ {Stage(work[r])}), Key(r))
          /\ (work[r] \ {Stage(work[r])}) \in SUBSET Stages
      BY <1>18 DEF StageDone
    <2>2. WorkEffect(r, (work[r] \ {Stage(work[r])}))
      BY ONLY TypeOK, r \in Requests, <2>1, BeginWorkEffect
    <2>3. work' = [work EXCEPT ![r] = work[r] \ {Stage(work[r])}]
      BY <2>1, BeginWorkStages
    <2> QED BY <1>18, <2>2, <2>3 DEF StageDone, WorkEffect
  <1>19. ASSUME NEW r \in Requests, StageFails(r) PROVE Flow'
    BY <1>19 DEF StageFails, Return, Zeroize, Release, Answer
  <1>20. ASSUME NEW r \in Requests, Wrapped(r) PROVE Flow'
    BY <1>20 DEF Wrapped, Return, Zeroize, Release, Read, Key, Answer
  <1>21. ASSUME NEW r \in Requests, EnvelopeOpened(r) PROVE Flow'
    BY <1>21 DEF EnvelopeOpened, InstallSession, Answer
  <1>22. ASSUME NEW r \in Requests, NextDigest(r) PROVE Flow'
    BY <1>22 DEF NextDigest, Read
  <1>23. ASSUME NEW r \in Requests, PasskeyDone(r) PROVE Flow'
    BY <1>23 DEF PasskeyDone, ConfirmSucceeds, Release, Answer
  <1>24. ASSUME NEW r \in Requests, FollowUpAssertion(r) PROVE Flow'
    BY <1>24 DEF FollowUpAssertion
  <1>25. ASSUME NEW r \in Requests, PasskeyFails(r) PROVE Flow'
    BY <1>25 DEF PasskeyFails, Release, Answer
  <1>26. ASSUME NEW r \in Requests, ClickConfirm(r) PROVE Flow'
    BY <1>26 DEF ClickConfirm, Shows, NoteClick
  <1>27. ASSUME NEW r \in Requests, ClickDeny(r) PROVE Flow'
    BY <1>27 DEF ClickDeny, Shows, Release, Answer
  <1>28. ASSUME NEW r \in Requests, EnterPassphrase(r) PROVE Flow'
    BY <1>28, OpenConfirmEffect DEF EnterPassphrase, Shows, NoteClick, Answer
  <1>29. ASSUME NEW r \in Requests, EnterShortPassphrase(r) PROVE Flow'
    BY <1>29 DEF EnterShortPassphrase, Shows, Answer
  <1>30. ASSUME NEW r \in Requests, ClickStalePassphrase(r) PROVE Flow'
    BY <1>30 DEF ClickStalePassphrase, Shows, NoteClick
  <1>31. ASSUME NEW r \in Requests, EnterPrivateKey(r) PROVE Flow'
    BY <1>31 DEF EnterPrivateKey, Shows, InstallSession, Answer
  <1>32. ASSUME NEW r \in Requests, ClickDone(r) PROVE Flow'
    BY <1>32 DEF ClickDone, Shows, Release, Answer
  <1>33. CASE UNCHANGED vars
    BY <1>33
  <1> QED
    BY <1>1, <1>2, <1>3, <1>4, <1>5, <1>6, <1>7, <1>8, <1>9, <1>10, <1>11, <1>12,
       <1>13, <1>14, <1>15, <1>16, <1>17, <1>18, <1>19, <1>20, <1>21, <1>22, <1>23,
       <1>24, <1>25, <1>26, <1>27, <1>28, <1>29, <1>30, <1>31, <1>32, <1>33
       DEF Next, Resume, Authenticator, User

\* A second invariant beside IInv, still for every set of methods.
FInv == IInv /\ Flow

\* No request has been received initially.
LEMMA FlowInit == Init => Flow
  BY RequestsAssumption DEF Init, Flow

\* FInv holds throughout every behaviour.
LEMMA FlowInvariance == Spec => []FInv
  <1>1. Init => FInv
    BY InvInit, FlowInit DEF FInv
  <1>2. FInv /\ [Next]_vars => FInv'
    BY InvStep, FlowStep DEF FInv, IInv, Located
  <1> QED BY <1>1, <1>2, PTL DEF Spec

\* A request that clearRecoverySession overtook is past the panels that would let
\* it install a key, or its key-entry panel is gone.
Cleared ==
  \A q \in outdated : /\ pc[q] \notin {"idle", "start"} /\ session # q
                      /\ pc[q] = "keyEntry" => ~Shows("keyEntry", q)

\* Without recoverKey, which leaves its prompt to install a key later, every
\* step keeps Cleared.
LEMMA ClearedStep ==
  ASSUME IInv, Flow, Cleared, [Next]_vars,
         Methods \cap {"recoverKey", "recoverKey.rebind"} = {}
  PROVE  Cleared'
  <1> USE RequestsAssumption, SuccessReply, WorkOfStages
          DEF TypeOK, MethodPhase, WaiterInCeremony, Flow, vars, keyVars, lockVars, Phases, OrNone,
              Denied, KeyUse, Quiet, Panel, NoPanel, IInv, Located, Cleared, Shows
  <1>1. ASSUME NEW r \in Requests, NEW m \in Methods, Receive(r, m) PROVE Cleared'
    BY <1>1 DEF Receive, Abandon, CancelThen, Assign
  <1>2. CASE Cancel
    BY <1>2 DEF Cancel, Abandon, Assign
  <1>3. ASSUME NEW r \in Requests, StartAnswered(r) PROVE Cleared'
    BY <1>3 DEF StartAnswered, Answer
  <1>4. ASSUME NEW r \in Requests, StartClearRecoverySession(r) PROVE Cleared'
    BY <1>4 DEF StartClearRecoverySession, Answer
  <1>5. ASSUME NEW r \in Requests, StartCeremony(r) PROVE Cleared'
    BY <1>5, OpenConfirmEffect DEF StartCeremony
  <1>6. ASSUME NEW r \in Requests, StartInSession(r) PROVE Cleared'
    <2>1. PICK w \in WorkOf(method[r]) :
            IF method[r] \in SeedFirst
            THEN /\ pc' = [pc EXCEPT ![r] = "seed"]
                 /\ work' = [work EXCEPT ![r] = w]
                 /\ UNCHANGED <<reply, tainted>>
            ELSE BeginWork(r, w, buf[session])
      BY <1>6 DEF StartInSession
    <2>2. CASE method[r] \in SeedFirst
      BY <1>6, <2>1, <2>2, WorkOfStages DEF SessionOwner, StartInSession
    <2>3. CASE method[r] \notin SeedFirst
      <3>1. BeginWork(r, w, buf[session]) /\ w \in SUBSET Stages
        BY <2>1, <2>3, WorkOfStages
      <3>2. WorkEffect(r, w)
        BY ONLY TypeOK, r \in Requests, <3>1, BeginWorkEffect
      <3> QED BY <1>6, <3>2 DEF StartInSession, WorkEffect
    <2> QED BY <2>2, <2>3
  <1>7. ASSUME NEW r \in Requests, StartPrompt(r) PROVE Cleared'
    <2>1. /\ waiter' = NoRequest
          /\ CancelThen(r, "passphrase") \/ CancelThen(r, "keyEntry")
      BY <1>7 DEF StartPrompt, OpenPrompt, Shows
    <2>2. CASE CancelThen(r, "passphrase")
      BY <1>7, <2>1, <2>2, CancelEffect DEF StartPrompt, OpenPrompt
    <2>3. CASE CancelThen(r, "keyEntry")
      BY <1>7, <2>1, <2>3, CancelEffect DEF StartPrompt, OpenPrompt
    <2> QED BY <2>1, <2>2, <2>3
  <1>8. ASSUME NEW r \in Requests, DerivedForReveal(r) PROVE Cleared'
    <2>1. \/ waiter' = NoRequest /\ CancelThen(r, "dismiss")
          \/ waiter' = waiter /\ Answer(r, "InvalidRequest")
      BY <1>8 DEF DerivedForReveal
    <2>2. CASE waiter' = NoRequest /\ CancelThen(r, "dismiss")
      BY <1>8, <2>2, CancelEffect DEF DerivedForReveal, KeyDerived, KeyPanel
    <2>3. CASE waiter' = waiter /\ Answer(r, "InvalidRequest")
      BY <1>8, <2>3 DEF Answer, DerivedForReveal, KeyDerived, KeyPanel
    <2> QED BY <2>1, <2>2, <2>3
  <1>9. ASSUME NEW r \in Requests, DerivedForRecoveryData(r) PROVE Cleared'
    BY <1>9 DEF DerivedForRecoveryData, KeyDerived
  <1>10. ASSUME NEW r \in Requests, DerivedForWork(r) PROVE Cleared'
    <2>1. BeginWork(r, work[r], "key") /\ work[r] \in SUBSET Stages
      BY <1>10 DEF DerivedForWork
    <2>2. WorkEffect(r, work[r])
      BY ONLY TypeOK, r \in Requests, <2>1, BeginWorkEffect
    <2> QED BY <1>10, <2>2 DEF DerivedForWork, KeyDerived, WorkEffect
  <1>11. ASSUME NEW r \in Requests, CryptoFails(r) PROVE Cleared'
    BY <1>11 DEF CryptoFails, Release, Answer
  <1>12. ASSUME NEW r \in Requests, SeedDerived(r) PROVE Cleared'
    <2>1. CASE method[r] # "executeBatch"
      <3>1. BeginWork(r, work[r], Key(r)) /\ work[r] \in SUBSET Stages
        BY <1>12, <2>1 DEF SeedDerived
      <3>2. WorkEffect(r, work[r])
        BY ONLY TypeOK, r \in Requests, <3>1, BeginWorkEffect
      <3> QED BY <1>12, <2>1, <3>2 DEF SeedDerived, WorkEffect
    <2>2. CASE method[r] = "executeBatch"
      BY <1>12, <2>2 DEF SeedDerived, Answer
    <2> QED BY <2>1, <2>2
  <1>13. ASSUME NEW r \in Requests, SessionImported(r) PROVE Cleared'
    BY <1>13 DEF SessionImported, PublicKeys, Answer
  <1>14. ASSUME NEW r \in Requests, PublicKeysForRecoveryData(r) PROVE Cleared'
    BY <1>14 DEF PublicKeysForRecoveryData, PublicKeys
  <1>15. ASSUME NEW r \in Requests, PublicKeysForBatch(r) PROVE Cleared'
    <2>1. BeginWork(r, work[r], Key(r)) /\ work[r] \in SUBSET Stages
      BY <1>15 DEF PublicKeysForBatch
    <2>2. WorkEffect(r, work[r])
      BY ONLY TypeOK, r \in Requests, <2>1, BeginWorkEffect
    <2> QED BY <1>15, <2>2 DEF PublicKeysForBatch, PublicKeys, WorkEffect
  <1>16. ASSUME NEW r \in Requests, KeyRecovered(r) PROVE Cleared'
    BY <1>16
       DEF KeyRecovered, PublicKeys, MayShow, KeyPanel, Read, Release, Answer,
           Assign
  <1>17. ASSUME NEW r \in Requests, RebindStarted(r) PROVE Cleared'
    BY <1>17, OpenConfirmEffect DEF RebindStarted, PublicKeys
  <1>18. ASSUME NEW r \in Requests, StageDone(r) PROVE Cleared'
    <2>1. /\ BeginWork(r, (work[r] \ {Stage(work[r])}), Key(r))
          /\ (work[r] \ {Stage(work[r])}) \in SUBSET Stages
      BY <1>18 DEF StageDone
    <2>2. WorkEffect(r, (work[r] \ {Stage(work[r])}))
      BY ONLY TypeOK, r \in Requests, <2>1, BeginWorkEffect
    <2> QED BY <1>18, <2>2 DEF StageDone, WorkEffect
  <1>19. ASSUME NEW r \in Requests, StageFails(r) PROVE Cleared'
    BY <1>19 DEF StageFails, Return, Zeroize, Release, Answer
  <1>20. ASSUME NEW r \in Requests, Wrapped(r) PROVE Cleared'
    BY <1>20 DEF Wrapped, Return, Zeroize, Release, Read, Key, Answer
  <1>21. ASSUME NEW r \in Requests, EnvelopeOpened(r) PROVE Cleared'
    BY <1>21 DEF EnvelopeOpened, InstallSession, Answer
  <1>22. ASSUME NEW r \in Requests, NextDigest(r) PROVE Cleared'
    BY <1>22 DEF NextDigest, Read
  <1>23. ASSUME NEW r \in Requests, PasskeyDone(r) PROVE Cleared'
    BY <1>23 DEF PasskeyDone, ConfirmSucceeds, Release, Answer
  <1>24. ASSUME NEW r \in Requests, FollowUpAssertion(r) PROVE Cleared'
    BY <1>24 DEF FollowUpAssertion
  <1>25. ASSUME NEW r \in Requests, PasskeyFails(r) PROVE Cleared'
    BY <1>25 DEF PasskeyFails, Release, Answer
  <1>26. ASSUME NEW r \in Requests, ClickConfirm(r) PROVE Cleared'
    BY <1>26 DEF ClickConfirm, Shows, NoteClick
  <1>27. ASSUME NEW r \in Requests, ClickDeny(r) PROVE Cleared'
    BY <1>27 DEF ClickDeny, Shows, Release, Answer
  <1>28. ASSUME NEW r \in Requests, EnterPassphrase(r) PROVE Cleared'
    BY <1>28, OpenConfirmEffect DEF EnterPassphrase, Shows, NoteClick, Answer
  <1>29. ASSUME NEW r \in Requests, EnterShortPassphrase(r) PROVE Cleared'
    BY <1>29 DEF EnterShortPassphrase, Shows, Answer
  <1>30. ASSUME NEW r \in Requests, ClickStalePassphrase(r) PROVE Cleared'
    BY <1>30 DEF ClickStalePassphrase, Shows, NoteClick
  <1>31. ASSUME NEW r \in Requests, EnterPrivateKey(r) PROVE Cleared'
    BY <1>31 DEF EnterPrivateKey, Shows, InstallSession, Answer
  <1>32. ASSUME NEW r \in Requests, ClickDone(r) PROVE Cleared'
    BY <1>32 DEF ClickDone, Shows, Release, Answer
  <1>33. CASE UNCHANGED vars
    BY <1>33
  <1> QED
    BY <1>1, <1>2, <1>3, <1>4, <1>5, <1>6, <1>7, <1>8, <1>9, <1>10, <1>11, <1>12,
       <1>13, <1>14, <1>15, <1>16, <1>17, <1>18, <1>19, <1>20, <1>21, <1>22, <1>23,
       <1>24, <1>25, <1>26, <1>27, <1>28, <1>29, <1>30, <1>31, <1>32, <1>33
       DEF Next, Resume, Authenticator, User

\* A recovery session that was cleared stays cleared, unless recoverKey is called.
THEOREM ClearedCorrect ==
  ASSUME Methods \cap {"recoverKey", "recoverKey.rebind"} = {}
  PROVE  Spec => []ClearedStaysCleared
  <1>1. Init => Cleared
    BY RequestsAssumption DEF Init, Cleared, ClearedStaysCleared
  <1>2. FInv /\ Cleared /\ [Next]_vars => Cleared'
    BY ClearedStep DEF FInv
  <1>3. FInv /\ Cleared => ClearedStaysCleared
    BY RequestsAssumption DEF FInv, IInv, TypeOK, OrNone, Cleared, ClearedStaysCleared
  <1> QED BY <1>1, <1>2, <1>3, FlowInvariance, PTL DEF Spec

\* Only createRecoveryData under a session takes down another request's panel.
LEMMA ShownStep ==
  ASSUME IInv, Flow, WaiterIsShown, [Next]_vars,
         "createRecoveryData" \notin Methods
  PROVE  WaiterIsShown'
  <1> USE RequestsAssumption, SuccessReply, WorkOfStages
          DEF TypeOK, MethodPhase, WaiterInCeremony, Flow, vars, keyVars, lockVars, Phases, OrNone,
              Denied, KeyUse, Quiet, Panel, NoPanel, IInv, Located, WaiterIsShown, Shows, ConfirmPanelIsLive
  <1>1. ASSUME NEW r \in Requests, NEW m \in Methods, Receive(r, m) PROVE WaiterIsShown'
    BY <1>1 DEF Receive, Abandon, CancelThen, Assign
  <1>2. CASE Cancel
    BY <1>2 DEF Cancel, Abandon, Assign
  <1>3. ASSUME NEW r \in Requests, StartAnswered(r) PROVE WaiterIsShown'
    BY <1>3 DEF StartAnswered, Answer
  <1>4. ASSUME NEW r \in Requests, StartClearRecoverySession(r) PROVE WaiterIsShown'
    BY <1>4 DEF StartClearRecoverySession, Answer
  <1>5. ASSUME NEW r \in Requests, StartCeremony(r) PROVE WaiterIsShown'
    BY <1>5, OpenConfirmEffect DEF StartCeremony
  <1>6. ASSUME NEW r \in Requests, StartInSession(r) PROVE WaiterIsShown'
    <2>1. PICK w \in WorkOf(method[r]) :
            IF method[r] \in SeedFirst
            THEN /\ pc' = [pc EXCEPT ![r] = "seed"]
                 /\ work' = [work EXCEPT ![r] = w]
                 /\ UNCHANGED <<reply, tainted>>
            ELSE BeginWork(r, w, buf[session])
      BY <1>6 DEF StartInSession
    <2>2. CASE method[r] \in SeedFirst
      BY <1>6, <2>1, <2>2, WorkOfStages DEF SessionOwner, StartInSession
    <2>3. CASE method[r] \notin SeedFirst
      <3>1. BeginWork(r, w, buf[session]) /\ w \in SUBSET Stages
        BY <2>1, <2>3, WorkOfStages
      <3>2. WorkEffect(r, w)
        BY ONLY TypeOK, r \in Requests, <3>1, BeginWorkEffect
      <3> QED BY <1>6, <3>2 DEF StartInSession, WorkEffect
    <2> QED BY <2>2, <2>3
  <1>7. ASSUME NEW r \in Requests, StartPrompt(r) PROVE WaiterIsShown'
    <2>1. /\ waiter' = NoRequest
          /\ CancelThen(r, "passphrase") \/ CancelThen(r, "keyEntry")
      BY <1>7 DEF StartPrompt, OpenPrompt
    <2>2. CASE CancelThen(r, "passphrase")
      BY <2>1, <2>2, CancelEffect
    <2>3. CASE CancelThen(r, "keyEntry")
      BY <2>1, <2>3, CancelEffect
    <2> QED BY <2>1, <2>2, <2>3
  <1>8. ASSUME NEW r \in Requests, DerivedForReveal(r) PROVE WaiterIsShown'
    <2>1. \/ waiter' = NoRequest /\ CancelThen(r, "dismiss")
          \/ waiter' = waiter /\ Answer(r, "InvalidRequest")
      BY <1>8 DEF DerivedForReveal
    <2>2. CASE waiter' = NoRequest /\ CancelThen(r, "dismiss")
      BY <2>2, CancelEffect
    <2>3. CASE waiter' = waiter /\ Answer(r, "InvalidRequest")
      BY <1>8, <2>3 DEF Answer, DerivedForReveal, KeyDerived
    <2> QED BY <2>1, <2>2, <2>3
  <1>9. ASSUME NEW r \in Requests, DerivedForRecoveryData(r) PROVE WaiterIsShown'
    BY <1>9 DEF DerivedForRecoveryData, KeyDerived
  <1>10. ASSUME NEW r \in Requests, DerivedForWork(r) PROVE WaiterIsShown'
    <2>1. BeginWork(r, work[r], "key") /\ work[r] \in SUBSET Stages
      BY <1>10 DEF DerivedForWork
    <2>2. WorkEffect(r, work[r])
      BY ONLY TypeOK, r \in Requests, <2>1, BeginWorkEffect
    <2> QED BY <1>10, <2>2 DEF DerivedForWork, KeyDerived, WorkEffect
  <1>11. ASSUME NEW r \in Requests, CryptoFails(r) PROVE WaiterIsShown'
    BY <1>11 DEF CryptoFails, Release, Answer
  <1>12. ASSUME NEW r \in Requests, SeedDerived(r) PROVE WaiterIsShown'
    <2>1. CASE method[r] # "executeBatch"
      <3>1. BeginWork(r, work[r], Key(r)) /\ work[r] \in SUBSET Stages
        BY <1>12, <2>1 DEF SeedDerived
      <3>2. WorkEffect(r, work[r])
        BY ONLY TypeOK, r \in Requests, <3>1, BeginWorkEffect
      <3> QED BY <1>12, <2>1, <3>2 DEF SeedDerived, WorkEffect
    <2>2. CASE method[r] = "executeBatch"
      BY <1>12, <2>2 DEF SeedDerived, Answer
    <2> QED BY <2>1, <2>2
  <1>13. ASSUME NEW r \in Requests, SessionImported(r) PROVE WaiterIsShown'
    BY <1>13 DEF SessionImported, PublicKeys, Answer
  <1>14. ASSUME NEW r \in Requests, PublicKeysForRecoveryData(r) PROVE WaiterIsShown'
    BY <1>14 DEF PublicKeysForRecoveryData, PublicKeys
  <1>15. ASSUME NEW r \in Requests, PublicKeysForBatch(r) PROVE WaiterIsShown'
    <2>1. BeginWork(r, work[r], Key(r)) /\ work[r] \in SUBSET Stages
      BY <1>15 DEF PublicKeysForBatch
    <2>2. WorkEffect(r, work[r])
      BY ONLY TypeOK, r \in Requests, <2>1, BeginWorkEffect
    <2> QED BY <1>15, <2>2 DEF PublicKeysForBatch, PublicKeys, WorkEffect
  <1>16. ASSUME NEW r \in Requests, KeyRecovered(r) PROVE WaiterIsShown'
    BY <1>16
       DEF KeyRecovered, PublicKeys, MayShow, KeyPanel, Read, Release, Answer,
           Assign
  <1>17. ASSUME NEW r \in Requests, RebindStarted(r) PROVE WaiterIsShown'
    BY <1>17, OpenConfirmEffect DEF RebindStarted, PublicKeys
  <1>18. ASSUME NEW r \in Requests, StageDone(r) PROVE WaiterIsShown'
    <2>1. /\ BeginWork(r, (work[r] \ {Stage(work[r])}), Key(r))
          /\ (work[r] \ {Stage(work[r])}) \in SUBSET Stages
      BY <1>18 DEF StageDone
    <2>2. WorkEffect(r, (work[r] \ {Stage(work[r])}))
      BY ONLY TypeOK, r \in Requests, <2>1, BeginWorkEffect
    <2> QED BY <1>18, <2>2 DEF StageDone, WorkEffect
  <1>19. ASSUME NEW r \in Requests, StageFails(r) PROVE WaiterIsShown'
    BY <1>19 DEF StageFails, Return, Zeroize, Release, Answer
  <1>20. ASSUME NEW r \in Requests, Wrapped(r) PROVE WaiterIsShown'
    BY <1>20 DEF Wrapped, Return, Zeroize, Release, Read, Key, Answer
  <1>21. ASSUME NEW r \in Requests, EnvelopeOpened(r) PROVE WaiterIsShown'
    BY <1>21 DEF EnvelopeOpened, InstallSession, Answer
  <1>22. ASSUME NEW r \in Requests, NextDigest(r) PROVE WaiterIsShown'
    BY <1>22 DEF NextDigest, Read
  <1>23. ASSUME NEW r \in Requests, PasskeyDone(r) PROVE WaiterIsShown'
    BY <1>23 DEF PasskeyDone, ConfirmSucceeds, Release, Answer
  <1>24. ASSUME NEW r \in Requests, FollowUpAssertion(r) PROVE WaiterIsShown'
    BY <1>24 DEF FollowUpAssertion
  <1>25. ASSUME NEW r \in Requests, PasskeyFails(r) PROVE WaiterIsShown'
    BY <1>25 DEF PasskeyFails, Release, Answer
  <1>26. ASSUME NEW r \in Requests, ClickConfirm(r) PROVE WaiterIsShown'
    BY <1>26 DEF ClickConfirm, Shows, NoteClick
  <1>27. ASSUME NEW r \in Requests, ClickDeny(r) PROVE WaiterIsShown'
    BY <1>27 DEF ClickDeny, Shows, Release, Answer
  <1>28. ASSUME NEW r \in Requests, EnterPassphrase(r) PROVE WaiterIsShown'
    BY <1>28, OpenConfirmEffect DEF EnterPassphrase, Shows, NoteClick, Answer
  <1>29. ASSUME NEW r \in Requests, EnterShortPassphrase(r) PROVE WaiterIsShown'
    BY <1>29 DEF EnterShortPassphrase, Shows, Answer
  <1>30. ASSUME NEW r \in Requests, ClickStalePassphrase(r) PROVE WaiterIsShown'
    BY <1>30 DEF ClickStalePassphrase, Shows, NoteClick
  <1>31. ASSUME NEW r \in Requests, EnterPrivateKey(r) PROVE WaiterIsShown'
    BY <1>31 DEF EnterPrivateKey, Shows, InstallSession, Answer
  <1>32. ASSUME NEW r \in Requests, ClickDone(r) PROVE WaiterIsShown'
    BY <1>32 DEF ClickDone, Shows, Release, Answer
  <1>33. CASE UNCHANGED vars
    BY <1>33
  <1> QED
    BY <1>1, <1>2, <1>3, <1>4, <1>5, <1>6, <1>7, <1>8, <1>9, <1>10, <1>11, <1>12,
       <1>13, <1>14, <1>15, <1>16, <1>17, <1>18, <1>19, <1>20, <1>21, <1>22, <1>23,
       <1>24, <1>25, <1>26, <1>27, <1>28, <1>29, <1>30, <1>31, <1>32, <1>33
       DEF Next, Resume, Authenticator, User

\* A Confirm that waits is on the screen, unless createRecoveryData is called.
THEOREM ShownCorrect ==
  ASSUME "createRecoveryData" \notin Methods
  PROVE  Spec => []WaiterIsShown
  <1>1. Init => WaiterIsShown
    BY RequestsAssumption DEF Init, WaiterIsShown
  <1>2. FInv /\ WaiterIsShown /\ [Next]_vars => WaiterIsShown'
    BY ShownStep DEF FInv
  <1> QED BY <1>1, <1>2, FlowInvariance, PTL DEF Spec

\* An operation in flight has its own ceremony's signal, and that ceremony was
\* aborted if its Confirm no longer waits.
PasskeyFollows ==
  \A r \in Requests :
    passkey[r] # "none" => signal[r] = r /\ (waiter # r => r \in aborted)

\* Without the three methods that leave an operation behind, every step keeps
\* PasskeyFollows.
LEMMA OrphanStep ==
  ASSUME IInv, Flow, PasskeyFollows, [Next]_vars,
         Methods \cap {"createCredential", "recoverKey", "revealPrivateKey"} = {}
  PROVE  PasskeyFollows'
  <1> USE RequestsAssumption, SuccessReply, WorkOfStages
          DEF TypeOK, MethodPhase, WaiterInCeremony, Flow, vars, keyVars, lockVars, Phases, OrNone,
              Denied, KeyUse, Quiet, Panel, NoPanel, IInv, Located, PasskeyFollows, Locked, LockHeldByCeremony, AbortedPhase, InCeremony
  <1>1. ASSUME NEW r \in Requests, NEW m \in Methods, Receive(r, m) PROVE PasskeyFollows'
    BY <1>1 DEF Receive, Abandon, CancelThen, Assign
  <1>2. CASE Cancel
    BY <1>2 DEF Cancel, Abandon, Assign
  <1>3. ASSUME NEW r \in Requests, StartAnswered(r) PROVE PasskeyFollows'
    BY <1>3 DEF StartAnswered, Answer
  <1>4. ASSUME NEW r \in Requests, StartClearRecoverySession(r) PROVE PasskeyFollows'
    BY <1>4 DEF StartClearRecoverySession, Answer
  <1>5. ASSUME NEW r \in Requests, StartCeremony(r) PROVE PasskeyFollows'
    BY <1>5, OpenConfirmEffect DEF StartCeremony
  <1>6. ASSUME NEW r \in Requests, StartInSession(r) PROVE PasskeyFollows'
    <2>1. PICK w \in WorkOf(method[r]) :
            IF method[r] \in SeedFirst
            THEN /\ pc' = [pc EXCEPT ![r] = "seed"]
                 /\ work' = [work EXCEPT ![r] = w]
                 /\ UNCHANGED <<reply, tainted>>
            ELSE BeginWork(r, w, buf[session])
      BY <1>6 DEF StartInSession
    <2>2. CASE method[r] \in SeedFirst
      BY <1>6, <2>1, <2>2, WorkOfStages DEF SessionOwner, StartInSession
    <2>3. CASE method[r] \notin SeedFirst
      <3>1. BeginWork(r, w, buf[session]) /\ w \in SUBSET Stages
        BY <2>1, <2>3, WorkOfStages
      <3>2. WorkEffect(r, w)
        BY ONLY TypeOK, r \in Requests, <3>1, BeginWorkEffect
      <3> QED BY <1>6, <3>2 DEF StartInSession, WorkEffect
    <2> QED BY <2>2, <2>3
  <1>7. ASSUME NEW r \in Requests, StartPrompt(r) PROVE PasskeyFollows'
    <2>1. /\ waiter' = NoRequest
          /\ CancelThen(r, "passphrase") \/ CancelThen(r, "keyEntry")
      BY <1>7 DEF StartPrompt, OpenPrompt
    <2>2. CASE CancelThen(r, "passphrase")
      BY <1>7, <2>1, <2>2, CancelEffect DEF StartPrompt, OpenPrompt
    <2>3. CASE CancelThen(r, "keyEntry")
      BY <1>7, <2>1, <2>3, CancelEffect DEF StartPrompt, OpenPrompt
    <2> QED BY <2>1, <2>2, <2>3
  <1>8. ASSUME NEW r \in Requests, DerivedForReveal(r) PROVE PasskeyFollows'
    <2>1. \/ waiter' = NoRequest /\ CancelThen(r, "dismiss")
          \/ waiter' = waiter /\ Answer(r, "InvalidRequest")
      BY <1>8 DEF DerivedForReveal
    <2>2. CASE waiter' = NoRequest /\ CancelThen(r, "dismiss")
      BY <1>8, <2>2, CancelEffect DEF DerivedForReveal, KeyDerived, KeyPanel
    <2>3. CASE waiter' = waiter /\ Answer(r, "InvalidRequest")
      BY <1>8, <2>3 DEF Answer, DerivedForReveal, KeyDerived, KeyPanel
    <2> QED BY <2>1, <2>2, <2>3
  <1>9. ASSUME NEW r \in Requests, DerivedForRecoveryData(r) PROVE PasskeyFollows'
    BY <1>9 DEF DerivedForRecoveryData, KeyDerived
  <1>10. ASSUME NEW r \in Requests, DerivedForWork(r) PROVE PasskeyFollows'
    <2>1. BeginWork(r, work[r], "key") /\ work[r] \in SUBSET Stages
      BY <1>10 DEF DerivedForWork
    <2>2. WorkEffect(r, work[r])
      BY ONLY TypeOK, r \in Requests, <2>1, BeginWorkEffect
    <2> QED BY <1>10, <2>2 DEF DerivedForWork, KeyDerived, WorkEffect
  <1>11. ASSUME NEW r \in Requests, CryptoFails(r) PROVE PasskeyFollows'
    BY <1>11 DEF CryptoFails, Release, Answer
  <1>12. ASSUME NEW r \in Requests, SeedDerived(r) PROVE PasskeyFollows'
    <2>1. CASE method[r] # "executeBatch"
      <3>1. BeginWork(r, work[r], Key(r)) /\ work[r] \in SUBSET Stages
        BY <1>12, <2>1 DEF SeedDerived
      <3>2. WorkEffect(r, work[r])
        BY ONLY TypeOK, r \in Requests, <3>1, BeginWorkEffect
      <3> QED BY <1>12, <2>1, <3>2 DEF SeedDerived, WorkEffect
    <2>2. CASE method[r] = "executeBatch"
      BY <1>12, <2>2 DEF SeedDerived, Answer
    <2> QED BY <2>1, <2>2
  <1>13. ASSUME NEW r \in Requests, SessionImported(r) PROVE PasskeyFollows'
    BY <1>13 DEF SessionImported, PublicKeys, Answer
  <1>14. ASSUME NEW r \in Requests, PublicKeysForRecoveryData(r) PROVE PasskeyFollows'
    BY <1>14 DEF PublicKeysForRecoveryData, PublicKeys
  <1>15. ASSUME NEW r \in Requests, PublicKeysForBatch(r) PROVE PasskeyFollows'
    <2>1. BeginWork(r, work[r], Key(r)) /\ work[r] \in SUBSET Stages
      BY <1>15 DEF PublicKeysForBatch
    <2>2. WorkEffect(r, work[r])
      BY ONLY TypeOK, r \in Requests, <2>1, BeginWorkEffect
    <2> QED BY <1>15, <2>2 DEF PublicKeysForBatch, PublicKeys, WorkEffect
  <1>16. ASSUME NEW r \in Requests, KeyRecovered(r) PROVE PasskeyFollows'
    BY <1>16
       DEF KeyRecovered, PublicKeys, MayShow, KeyPanel, Read, Release, Answer,
           Assign
  <1>17. ASSUME NEW r \in Requests, RebindStarted(r) PROVE PasskeyFollows'
    BY <1>17, OpenConfirmEffect DEF RebindStarted, PublicKeys
  <1>18. ASSUME NEW r \in Requests, StageDone(r) PROVE PasskeyFollows'
    <2>1. /\ BeginWork(r, (work[r] \ {Stage(work[r])}), Key(r))
          /\ (work[r] \ {Stage(work[r])}) \in SUBSET Stages
      BY <1>18 DEF StageDone
    <2>2. WorkEffect(r, (work[r] \ {Stage(work[r])}))
      BY ONLY TypeOK, r \in Requests, <2>1, BeginWorkEffect
    <2> QED BY <1>18, <2>2 DEF StageDone, WorkEffect
  <1>19. ASSUME NEW r \in Requests, StageFails(r) PROVE PasskeyFollows'
    BY <1>19 DEF StageFails, Return, Zeroize, Release, Answer
  <1>20. ASSUME NEW r \in Requests, Wrapped(r) PROVE PasskeyFollows'
    BY <1>20 DEF Wrapped, Return, Zeroize, Release, Read, Key, Answer
  <1>21. ASSUME NEW r \in Requests, EnvelopeOpened(r) PROVE PasskeyFollows'
    BY <1>21 DEF EnvelopeOpened, InstallSession, Answer
  <1>22. ASSUME NEW r \in Requests, NextDigest(r) PROVE PasskeyFollows'
    BY <1>22 DEF NextDigest, Read
  <1>23. ASSUME NEW r \in Requests, PasskeyDone(r) PROVE PasskeyFollows'
    BY <1>23 DEF PasskeyDone, ConfirmSucceeds, Release, Answer
  <1>24. ASSUME NEW r \in Requests, FollowUpAssertion(r) PROVE PasskeyFollows'
    BY <1>24 DEF FollowUpAssertion
  <1>25. ASSUME NEW r \in Requests, PasskeyFails(r) PROVE PasskeyFollows'
    BY <1>25 DEF PasskeyFails, Release, Answer
  <1>26. ASSUME NEW r \in Requests, ClickConfirm(r) PROVE PasskeyFollows'
    BY <1>26 DEF ClickConfirm, Shows, NoteClick
  <1>27. ASSUME NEW r \in Requests, ClickDeny(r) PROVE PasskeyFollows'
    BY <1>27 DEF ClickDeny, Shows, Release, Answer
  <1>28. ASSUME NEW r \in Requests, EnterPassphrase(r) PROVE PasskeyFollows'
    BY <1>28, OpenConfirmEffect DEF EnterPassphrase, Shows, NoteClick, Answer
  <1>29. ASSUME NEW r \in Requests, EnterShortPassphrase(r) PROVE PasskeyFollows'
    BY <1>29 DEF EnterShortPassphrase, Shows, Answer
  <1>30. ASSUME NEW r \in Requests, ClickStalePassphrase(r) PROVE PasskeyFollows'
    BY <1>30 DEF ClickStalePassphrase, Shows, NoteClick
  <1>31. ASSUME NEW r \in Requests, EnterPrivateKey(r) PROVE PasskeyFollows'
    BY <1>31 DEF EnterPrivateKey, Shows, InstallSession, Answer
  <1>32. ASSUME NEW r \in Requests, ClickDone(r) PROVE PasskeyFollows'
    BY <1>32 DEF ClickDone, Shows, Release, Answer
  <1>33. CASE UNCHANGED vars
    BY <1>33
  <1> QED
    BY <1>1, <1>2, <1>3, <1>4, <1>5, <1>6, <1>7, <1>8, <1>9, <1>10, <1>11, <1>12,
       <1>13, <1>14, <1>15, <1>16, <1>17, <1>18, <1>19, <1>20, <1>21, <1>22, <1>23,
       <1>24, <1>25, <1>26, <1>27, <1>28, <1>29, <1>30, <1>31, <1>32, <1>33
       DEF Next, Resume, Authenticator, User

\* No authenticator prompt outlives its Confirm without having been aborted, unless
\* one of three methods is called.
THEOREM OrphanCorrect ==
  ASSUME Methods \cap {"createCredential", "recoverKey", "revealPrivateKey"} = {}
  PROVE  Spec => []NoOrphanPasskey
  <1>1. Init => PasskeyFollows
    BY RequestsAssumption DEF Init, PasskeyFollows
  <1>2. FInv /\ PasskeyFollows /\ [Next]_vars => PasskeyFollows'
    BY OrphanStep DEF FInv
  <1>3. FInv /\ PasskeyFollows => NoOrphanPasskey
    BY RequestsAssumption DEF PasskeyFollows, NoOrphanPasskey
  <1> QED BY <1>1, <1>2, <1>3, FlowInvariance, PTL DEF Spec

\* Only signDigest under a session meets a zero-filled scalar, and then it fails.
LiveKeys ==
  /\ envelopes = {"key"}
  /\ \A r \in Requests : pc[r] = "work" /\ source[r] = r => buf[r] = "key"
  /\ \A r \in tainted : /\ pc[r] \in {"work", "done"} /\ source[r] # r
                        /\ method[r] = "signDigest"
                        /\ reply[r] \in {"none"} \cup Failures

\* Zero-filling the session's buffer disturbs no handler at work on its own key.
LEMMA SessionBuffer ==
  ASSUME TypeOK, MethodPhase, SessionOwner, NEW r \in Requests, pc[r] = "work"
  PROVE  WipeSession[r] = buf[r] /\ session # r
  BY RequestsAssumption DEF TypeOK, MethodPhase, SessionOwner, WipeSession, Starters

\* Without the three methods that read a session's buffer after an await and
\* go on with what they read, every step keeps LiveKeys.
LEMMA LiveKeysStep ==
  ASSUME IInv, Flow, LiveKeys, [Next]_vars,
         Methods \cap {"createRecoveryData", "recoverKey", "executeBatch"} = {}
  PROVE  LiveKeys'
  <1> USE RequestsAssumption, SuccessReply, WorkOfStages
          DEF TypeOK, MethodPhase, WaiterInCeremony, vars, keyVars, lockVars, Phases, OrNone,
              Denied, KeyUse, Quiet, Panel, NoPanel, IInv, Located, Flow, LiveKeys,
              Buffers, SessionIsLive, SessionOwner, Starters, SourcePhase, Answered, Failures
  <1>1. ASSUME NEW r \in Requests, NEW m \in Methods, Receive(r, m) PROVE LiveKeys'
    <2>1. /\ pc[r] = "idle" /\ method' = [method EXCEPT ![r] = m]
          /\ UNCHANGED <<work, passkey, source>> /\ waiter' = NoRequest
          /\ CancelThen(r, "start") /\ \A q \in Requests : pc[q] # "start"
      BY <1>1 DEF Receive, Abandon
    <2>2. work[r] = {}
      BY <2>1 DEF WorkOf, KeyUse
    <2>3. UNCHANGED <<envelopes, tainted, buf>>
      BY <1>1 DEF Receive
    <2> QED BY <2>1, <2>2, <2>3, CancelEffect
  <1>2. CASE Cancel
    BY <1>2 DEF Cancel, Abandon, Assign
  <1>3. ASSUME NEW r \in Requests, StartAnswered(r) PROVE LiveKeys'
    BY <1>3 DEF StartAnswered, Answer
  <1>4. ASSUME NEW r \in Requests, StartClearRecoverySession(r) PROVE LiveKeys'
    BY <1>4, SessionBuffer DEF StartClearRecoverySession, Answer
  <1>5. ASSUME NEW r \in Requests, StartCeremony(r) PROVE LiveKeys'
    BY <1>5, OpenConfirmEffect DEF StartCeremony
  <1>6. ASSUME NEW r \in Requests, StartInSession(r) PROVE LiveKeys'
    <2>1. PICK w \in WorkOf(method[r]) :
            IF method[r] \in SeedFirst
            THEN /\ pc' = [pc EXCEPT ![r] = "seed"]
                 /\ work' = [work EXCEPT ![r] = w]
                 /\ UNCHANGED <<reply, tainted>>
            ELSE BeginWork(r, w, buf[session])
      BY <1>6 DEF StartInSession
    <2>2. CASE method[r] \in SeedFirst
      BY <1>6, <2>1, <2>2, WorkOfStages DEF SessionOwner, StartInSession
    <2>3. CASE method[r] \notin SeedFirst
      <3>1. BeginWork(r, w, buf[session]) /\ w \in SUBSET Stages
        BY <2>1, <2>3, WorkOfStages
      <3>2. WorkEffect(r, w)
        BY ONLY TypeOK, r \in Requests, <3>1, BeginWorkEffect
      <3>3. work' = [work EXCEPT ![r] = w]
        BY <3>1, BeginWorkStages
      <3>4. buf[session] = "key" /\ source' = [source EXCEPT ![r] = session] /\ session # r
        BY <1>6 DEF StartInSession
      <3>5. tainted' = tainted
        BY <3>1, <3>4, BeginWorkReads
      <3> QED BY <1>6, <3>2, <3>4, <3>5 DEF StartInSession, WorkEffect
    <2> QED BY <2>2, <2>3
  <1>7. ASSUME NEW r \in Requests, StartPrompt(r) PROVE LiveKeys'
    <2>1. /\ waiter' = NoRequest
          /\ CancelThen(r, "passphrase") \/ CancelThen(r, "keyEntry")
      BY <1>7 DEF StartPrompt, OpenPrompt
    <2>2. CASE CancelThen(r, "passphrase")
      BY <1>7, <2>1, <2>2, CancelEffect DEF StartPrompt
    <2>3. CASE CancelThen(r, "keyEntry")
      BY <1>7, <2>1, <2>3, CancelEffect DEF StartPrompt
    <2> QED BY <2>1, <2>2, <2>3
  <1>8. ASSUME NEW r \in Requests, DerivedForReveal(r) PROVE LiveKeys'
    <2>1. \/ waiter' = NoRequest /\ CancelThen(r, "dismiss")
          \/ waiter' = waiter /\ Answer(r, "InvalidRequest")
      BY <1>8 DEF DerivedForReveal
    <2>2. CASE waiter' = NoRequest /\ CancelThen(r, "dismiss")
      BY <1>8, <2>2, CancelEffect DEF DerivedForReveal, KeyDerived, Zeroize
    <2>3. CASE waiter' = waiter /\ Answer(r, "InvalidRequest")
      BY <1>8, <2>3 DEF Answer, DerivedForReveal, KeyDerived, Zeroize
    <2> QED BY <2>1, <2>2, <2>3
  <1>9. ASSUME NEW r \in Requests, DerivedForRecoveryData(r) PROVE LiveKeys'
    BY <1>9 DEF DerivedForRecoveryData, KeyDerived
  <1>10. ASSUME NEW r \in Requests, DerivedForWork(r) PROVE LiveKeys'
    <2>1. BeginWork(r, work[r], "key") /\ work[r] \in SUBSET Stages
      BY <1>10 DEF DerivedForWork
    <2>2. WorkEffect(r, work[r])
      BY ONLY TypeOK, r \in Requests, <2>1, BeginWorkEffect
    <2>3. tainted' = tainted
      BY <2>1, BeginWorkReads
    <2> QED BY <1>10, <2>2, <2>3 DEF DerivedForWork, KeyDerived, WorkEffect
  <1>11. ASSUME NEW r \in Requests, CryptoFails(r) PROVE LiveKeys'
    BY <1>11 DEF CryptoFails, Release, Answer
  <1>12. ASSUME NEW r \in Requests, SeedDerived(r) PROVE LiveKeys'
    <2>1. CASE method[r] # "executeBatch"
      <3>1. BeginWork(r, work[r], Key(r)) /\ work[r] \in SUBSET Stages
        BY <1>12, <2>1 DEF SeedDerived
      <3>2. WorkEffect(r, work[r])
        BY ONLY TypeOK, r \in Requests, <3>1, BeginWorkEffect
      <3>3. tainted' \in {tainted, tainted \cup {r}} /\ (work[r] = {} => tainted' = tainted)
        BY <3>1, BeginWorkReads
      <3>4. pc[r] = "seed" /\ source[r] # r /\ UNCHANGED <<method, source, buf, envelopes>>
        BY <1>12 DEF SeedDerived
      <3>5. method[r] = "signDigest" /\ r \notin tainted /\ reply[r] = "none"
        BY <2>1, <3>4 DEF SeedFirst
      <3> QED BY <3>2, <3>3, <3>4, <3>5 DEF WorkEffect
    <2>2. CASE method[r] = "executeBatch"
      BY <1>12, <2>2 DEF SeedDerived, Answer
    <2> QED BY <2>1, <2>2
  <1>13. ASSUME NEW r \in Requests, SessionImported(r) PROVE LiveKeys'
    BY <1>13 DEF SessionImported, PublicKeys, Answer
  <1>14. ASSUME NEW r \in Requests, PublicKeysForRecoveryData(r) PROVE LiveKeys'
    BY <1>14 DEF PublicKeysForRecoveryData, PublicKeys
  <1>15. ASSUME NEW r \in Requests, PublicKeysForBatch(r) PROVE LiveKeys'
    <2>1. BeginWork(r, work[r], Key(r)) /\ work[r] \in SUBSET Stages
      BY <1>15 DEF PublicKeysForBatch
    <2>2. WorkEffect(r, work[r])
      BY ONLY TypeOK, r \in Requests, <2>1, BeginWorkEffect
    <2>3. work' = [work EXCEPT ![r] = work[r]]
      BY <2>1, BeginWorkStages
    <2> QED BY <1>15, <2>2, <2>3 DEF PublicKeysForBatch, PublicKeys, WorkEffect
  <1>16. ASSUME NEW r \in Requests, KeyRecovered(r) PROVE LiveKeys'
    BY <1>16
       DEF KeyRecovered, PublicKeys, MayShow, KeyPanel, Read, Release, Answer,
           Assign
  <1>17. ASSUME NEW r \in Requests, RebindStarted(r) PROVE LiveKeys'
    BY <1>17, OpenConfirmEffect DEF RebindStarted, PublicKeys
  <1>18. ASSUME NEW r \in Requests, StageDone(r) PROVE LiveKeys'
    <2>1. /\ BeginWork(r, (work[r] \ {Stage(work[r])}), Key(r))
          /\ (work[r] \ {Stage(work[r])}) \in SUBSET Stages
      BY <1>18 DEF StageDone
    <2>2. WorkEffect(r, (work[r] \ {Stage(work[r])}))
      BY ONLY TypeOK, r \in Requests, <2>1, BeginWorkEffect
    <2> DEFINE rest == work[r] \ {Stage(work[r])}
    <2>3. /\ pc[r] = "work" /\ UNCHANGED <<method, source, envelopes>>
          /\ Stage(work[r]) # "seal" => r \notin tainted
          /\ buf' = buf \/ (rest = {} /\ buf' = [buf EXCEPT ![r] = "zero"])
      BY <1>18 DEF StageDone, Zeroize
    <2>4. CASE method[r] \notin {"executeBatch", "executeBatch.challenge"}
      <3>1. rest = {} /\ r \notin tainted
        BY <2>3, <2>4, OneStage
      <3>2. tainted' = tainted
        BY <2>1, <3>1, BeginWorkReads
      <3> QED BY <2>2, <2>3, <3>1, <3>2 DEF WorkEffect
    <2>5. CASE method[r] \in {"executeBatch", "executeBatch.challenge"}
      <3>1. Key(r) = "key" /\ r \notin tainted
        BY <2>3, <2>5 DEF Key
      <3>2. tainted' = tainted
        BY <2>1, <3>1, BeginWorkReads
      <3> HIDE DEF rest
      <3> QED BY <2>2, <2>3, <3>1, <3>2 DEF WorkEffect, rest
    <2> QED BY <2>4, <2>5
  <1>19. ASSUME NEW r \in Requests, StageFails(r) PROVE LiveKeys'
    BY <1>19 DEF StageFails, Return, Zeroize, Release, Answer
  <1>20. ASSUME NEW r \in Requests, Wrapped(r) PROVE LiveKeys'
    BY <1>20 DEF Wrapped, Return, Zeroize, Release, Read, Key, Answer
  <1>21. ASSUME NEW r \in Requests, EnvelopeOpened(r) PROVE LiveKeys'
    BY <1>21, SessionBuffer, WipeType DEF EnvelopeOpened, InstallSession, Answer
  <1>22. ASSUME NEW r \in Requests, NextDigest(r) PROVE LiveKeys'
    <2>1. /\ pc[r] = "work" /\ Stage(work[r]) = "sign"
          /\ tainted' = tainted \/ (tainted' = tainted \cup {r} /\ Key(r) = "zero")
          /\ UNCHANGED <<method, pc, reply, source, buf, envelopes>>
      BY <1>22 DEF NextDigest, Read
    <2>2. "sign" \in work[r] /\ reply[r] = "none"
      BY <2>1 DEF Stage
    <2>3. Key(r) = "zero" => source[r] # r /\ method[r] = "signDigest"
      BY <2>1, <2>2, OneStage DEF Key
    <2> QED BY <2>1, <2>2, <2>3
  <1>23. ASSUME NEW r \in Requests, PasskeyDone(r) PROVE LiveKeys'
    BY <1>23, SessionBuffer DEF PasskeyDone, ConfirmSucceeds, Release, Answer
  <1>24. ASSUME NEW r \in Requests, FollowUpAssertion(r) PROVE LiveKeys'
    BY <1>24 DEF FollowUpAssertion
  <1>25. ASSUME NEW r \in Requests, PasskeyFails(r) PROVE LiveKeys'
    BY <1>25 DEF PasskeyFails, Release, Answer
  <1>26. ASSUME NEW r \in Requests, ClickConfirm(r) PROVE LiveKeys'
    BY <1>26 DEF ClickConfirm, Shows, NoteClick
  <1>27. ASSUME NEW r \in Requests, ClickDeny(r) PROVE LiveKeys'
    BY <1>27 DEF ClickDeny, Shows, Release, Answer
  <1>28. ASSUME NEW r \in Requests, EnterPassphrase(r) PROVE LiveKeys'
    BY <1>28, OpenConfirmEffect DEF EnterPassphrase, Shows, NoteClick, Answer
  <1>29. ASSUME NEW r \in Requests, EnterShortPassphrase(r) PROVE LiveKeys'
    BY <1>29 DEF EnterShortPassphrase, Shows, Answer
  <1>30. ASSUME NEW r \in Requests, ClickStalePassphrase(r) PROVE LiveKeys'
    BY <1>30 DEF ClickStalePassphrase, Shows, NoteClick
  <1>31. ASSUME NEW r \in Requests, EnterPrivateKey(r) PROVE LiveKeys'
    BY <1>31, SessionBuffer, WipeType DEF EnterPrivateKey, Shows, InstallSession, Answer
  <1>32. ASSUME NEW r \in Requests, ClickDone(r) PROVE LiveKeys'
    BY <1>32 DEF ClickDone, Shows, Release, Answer
  <1>33. CASE UNCHANGED vars
    BY <1>33
  <1> QED
    BY <1>1, <1>2, <1>3, <1>4, <1>5, <1>6, <1>7, <1>8, <1>9, <1>10, <1>11, <1>12,
       <1>13, <1>14, <1>15, <1>16, <1>17, <1>18, <1>19, <1>20, <1>21, <1>22, <1>23,
       <1>24, <1>25, <1>26, <1>27, <1>28, <1>29, <1>30, <1>31, <1>32, <1>33
       DEF Next, Resume, Authenticator, User

\* Nothing is sealed or wrapped under a zero-filled scalar and reported as a success,
\* unless one of three methods is called.
THEOREM LiveKeysCorrect ==
  ASSUME Methods \cap {"createRecoveryData", "recoverKey", "executeBatch"} = {}
  PROVE  Spec => []ResultsUnderLiveKey
  <1>1. Init => LiveKeys
    BY RequestsAssumption DEF Init, LiveKeys
  <1>2. FInv /\ LiveKeys /\ [Next]_vars => LiveKeys'
    BY LiveKeysStep DEF FInv
  <1>3. FInv /\ LiveKeys => ResultsUnderLiveKey
    BY RequestsAssumption DEF LiveKeys, ResultsUnderLiveKey
  <1> QED BY <1>1, <1>2, <1>3, FlowInvariance, PTL DEF Spec

-----------------------------------------------------------------------------
(* SigningLayer implements SigningContract.  On top of IInv the proof needs to  *)
(* know at which phases of which methods the key has been reported already      *)
(* (ReportedOf).                                                                *)

\* Which methods can be at a phase, and what they still have to do there.
PhaseOf(r) ==
  /\ method[r] = "none" <=> pc[r] = "idle"
  /\ pc[r] \in {"confirm", "passkey"} =>
       method[r] \in MayDerive \cup {"createCredential.defer"}
  /\ pc[r] = "derive"  => method[r] \in MayDerive \ {"recoverKey.rebind"}
  /\ pc[r] = "seed"    => method[r] \in SeedFirst
  /\ pc[r] = "dismiss" => method[r] = "revealPrivateKey"
  /\ pc[r] = "wrap"    => method[r] = "createRecoveryData"
  /\ pc[r] \in {"idle", "start"} => work[r] = {}
  /\ method[r] \in AtOnce => work[r] = {}

\* Where r's key has been reported, and where it has not.
KeyReportedOf(r) ==
  /\ pc[r] \in {"idle", "start", "passphrase", "keyEntry", "decrypt", "seed",
                "derive", "pub"} => r \notin derived
  /\ pc[r] \in {"confirm", "passkey"} => (r \in derived <=> method[r] = "recoverKey.rebind")
  /\ pc[r] \in {"work", "wrap", "dismiss"} /\ method[r] \in AlwaysDerive => r \in derived

ReportedOf(r) == PhaseOf(r) /\ KeyReportedOf(r)
Reported == \A r \in Requests : ReportedOf(r)

\* What a step of r does to the other requests: at most the one whose Confirm
\* was waiting is denied.
Others(r) ==
  /\ method' = method
  /\ \A q \in Requests \ {r} :
       /\ q \in derived' <=> q \in derived
       /\ work'[q] = work[q]
       /\ \/ pc'[q] = pc[q] /\ reply'[q] = reply[q]
          \/ q = waiter /\ pc'[q] = "done" /\ reply'[q] = "SignDenied"

\* What a step of r may post for r.
Posts(r) ==
  \/ reply'[r] = reply[r] /\ (r \in derived' <=> r \in derived)
  \/ /\ reply[r] = "none" /\ method[r] # "none"
     /\ reply'[r] \in Failures \cup {"none", Success(method[r])}
     /\ r \in derived => r \in derived'
     /\ r \in derived' \ derived =>
          method[r] \in MayDerive /\ (method[r] \in AtOnce => reply'[r] # "none")
     /\ reply'[r] = Success(method[r]) /\ method[r] \in AlwaysDerive => r \in derived'

StepOf(r) == Others(r) /\ ReportedOf(r)' /\ Posts(r)

-----------------------------------------------------------------------------
\* BeginWork leaves the stages it was given.
LEMMA BeginWorkKeeps ==
  ASSUME NEW r \in Requests, NEW w, NEW k, BeginWork(r, w, k)
  PROVE  work' = [work EXCEPT ![r] = w]
  BY DEF BeginWork

\* The shared pieces, as steps of r.
LEMMA BeginWorkStep ==
  ASSUME TypeOK, NEW r \in Requests, NEW w \in SUBSET Stages, NEW k,
         BeginWork(r, w, k), method' = method,
         derived' \in {derived, derived \cup {r}}
  PROVE  /\ Others(r)
         /\ work'[r] = w
         /\ \/ w = {} /\ pc'[r] = "done" /\ reply'[r] = Success(method[r])
            \/ w # {} /\ pc'[r] = "work" /\ reply'[r] = reply[r]
  <1>1. WorkEffect(r, w)
    BY BeginWorkEffect
  <1>2. work' = [work EXCEPT ![r] = w]
    BY BeginWorkKeeps
  <1> QED BY <1>1, <1>2 DEF WorkEffect, Others, TypeOK

LEMMA AnswerStep ==
  ASSUME TypeOK, NEW r \in Requests, NEW e \in Replies, Answer(r, e),
         method' = method, work' = work, derived' \in {derived, derived \cup {r}}
  PROVE  Others(r) /\ pc'[r] = "done" /\ reply'[r] = e
  BY AnswerEffect DEF Others

LEMMA CancelStep ==
  ASSUME TypeOK, NEW r \in Requests, NEW p \in Phases, CancelThen(r, p), r # waiter,
         method' = method, work' = work, derived' \in {derived, derived \cup {r}}
  PROVE  Others(r) /\ pc'[r] = p /\ reply'[r] = reply[r]
  BY CancelEffect DEF Others

LEMMA MoveStep ==
  ASSUME TypeOK, NEW r \in Requests, NEW p, pc' = [pc EXCEPT ![r] = p], reply' = reply,
         method' = method, work' = work, derived' \in {derived, derived \cup {r}}
  PROVE  Others(r) /\ pc'[r] = p /\ reply'[r] = reply[r]
  BY DEF Others, TypeOK

\* A method that needs its key does not fail with its success event.
LEMMA SuccessIsNoFailure == \A m \in AlwaysDerive : Success(m) \notin Failures
  BY DEF AlwaysDerive, AllMethods, Success, Failures, Creations

\* Success as the contract reads it.
LEMMA SameWords ==
  /\ \A m : Contract!Success(m) = Success(m)
  /\ Contract!Failures = Failures
  /\ Contract!MayDerive = MayDerive
  /\ Contract!AlwaysDerive = AlwaysDerive
  /\ Contract!AtOnce = AtOnce
  BY DEF Contract!Success, Contract!Failures, Contract!MayDerive, Contract!AlwaysDerive,
         Contract!AtOnce, Contract!AllMethods, Contract!Creations,
         Success, Failures, MayDerive, AlwaysDerive, AtOnce, AllMethods, Creations

\* A request whose Confirm waits was accepted and has not been answered.
LEMMA WaiterIsOpen ==
  ASSUME IInv, Reported, waiter # NoRequest
  PROVE  waiter \in Requests /\ waiter \in Contract!Open
  BY DEF IInv, TypeOK, WaiterInCeremony, Answered, Reported, ReportedOf, PhaseOf,
         Contract!Open, OrNone

-----------------------------------------------------------------------------
\* A step of r as the contract sees it.
LEMMA StepIsContract ==
  ASSUME IInv, TypeOK', Reported, NEW r \in Requests, StepOf(r)
  PROVE  Contract!ContractNext
  <1> DEFINE S == {q \in Requests \ {r} : reply'[q] # reply[q]}
  <1>1. S \in Contract!Deniable /\ r \notin S
    <2>1. S = {} \/ (waiter \in Requests /\ S = {waiter})
      BY DEF StepOf, Others
    <2>2. CASE S = {}
      BY <2>2 DEF Contract!Deniable
    <2>3. CASE waiter \in Requests /\ S = {waiter}
      <3>1. waiter \in Contract!Open
        BY <2>3, WaiterIsOpen, RequestsAssumption
      <3> QED BY <2>3, <3>1 DEF Contract!Deniable
    <2> QED BY <2>1, <2>2, <2>3
  <1>2. /\ reply \in [Requests -> Replies \cup {"none"}]
        /\ reply' \in [Requests -> Replies \cup {"none"}]
        /\ derived \in SUBSET Requests /\ derived' \in SUBSET Requests
    BY DEF IInv, TypeOK
  <1>3. \A q \in Requests \ {r} : reply'[q] = Contract!Deny(S)[q]
    BY DEF StepOf, Others, Contract!Deny
  <1>4. method' = method
    BY DEF StepOf, Others
  <1>5. CASE reply'[r] = reply[r] /\ (r \in derived' <=> r \in derived)
    <2>1. reply' = Contract!Deny(S)
      BY <1>2, <1>3, <1>5 DEF Contract!Deny
    <2>2. derived' = derived
      BY <1>2, <1>5 DEF StepOf, Others
    <2> QED BY <1>1, <1>4, <2>1, <2>2 DEF Contract!ContractNext, Contract!Drop
  <1>6. CASE ~(reply'[r] = reply[r] /\ (r \in derived' <=> r \in derived))
    <2> DEFINE e == reply'[r]
    <2> DEFINE derives == r \in derived' \ derived
    <2>1. /\ reply[r] = "none" /\ method[r] # "none"
          /\ e \in Failures \cup {"none", Success(method[r])}
          /\ r \in derived => r \in derived'
          /\ derives => method[r] \in MayDerive /\ (method[r] \in AtOnce => e # "none")
          /\ e = Success(method[r]) /\ method[r] \in AlwaysDerive => r \in derived'
      BY <1>6 DEF StepOf, Posts
    <2>2. reply' = [Contract!Deny(S) EXCEPT ![r] = e]
      BY <1>2, <1>3 DEF Contract!Deny
    <2>3. derived' = IF derives THEN derived \cup {r} ELSE derived
      BY <1>2, <2>1 DEF StepOf, Others
    <2>4. r \in Contract!Open
      BY <2>1 DEF Contract!Open
    <2>5. Contract!Post(r, derives, e)
      BY <1>1, <1>4, <2>1, <2>2, <2>3, <2>4, SameWords DEF Contract!Post
    <2>6. derives \in BOOLEAN /\ e \in Contract!Failures \cup {"none", Contract!Success(method[r])}
      BY <2>1, SameWords
    <2> QED BY <2>5, <2>6 DEF Contract!ContractNext
  <1> QED BY <1>5, <1>6

\* A step of r keeps what is known of the other requests.
LEMMA StepIsReported ==
  ASSUME IInv, Reported, NEW r \in Requests, StepOf(r)
  PROVE  Reported'
  <1> SUFFICES ASSUME NEW q \in Requests, q # r PROVE ReportedOf(q)'
    BY DEF StepOf, Reported
  <1>1. /\ method' = method /\ work'[q] = work[q] /\ (q \in derived' <=> q \in derived)
        /\ \/ pc'[q] = pc[q]
           \/ q = waiter /\ pc'[q] = "done"
    BY DEF StepOf, Others
  <1>2. ReportedOf(q)
    BY DEF Reported
  <1>3. CASE pc'[q] = pc[q]
    BY <1>1, <1>2, <1>3 DEF ReportedOf, PhaseOf, KeyReportedOf
  <1>4. CASE q = waiter /\ pc'[q] = "done"
    <2>1. pc[q] \in {"confirm", "passkey"}
      BY <1>4 DEF IInv, WaiterInCeremony
    <2> QED BY <1>1, <1>2, <1>4, <2>1 DEF ReportedOf, PhaseOf, KeyReportedOf
  <1> QED BY <1>1, <1>3, <1>4

-----------------------------------------------------------------------------
\* What the handlers do from a phase before the key is known.
LEMMA StartSteps ==
  ASSUME IInv, Reported, NEW r \in Requests,
         \/ StartAnswered(r) \/ StartClearRecoverySession(r) \/ StartCeremony(r)
         \/ StartInSession(r) \/ StartPrompt(r)
  PROVE  StepOf(r)
  <1> USE SuccessReply, SuccessIsNoFailure DEF Replies, Failures
  <1>1. TypeOK /\ ReportedOf(r) /\ Answered /\ WaiterInCeremony
    BY DEF IInv, Reported
  <1>2. pc[r] = "start"
    BY DEF StartAnswered, StartClearRecoverySession, StartCeremony, StartInSession, StartPrompt
  <1>3. reply[r] = "none" /\ r # waiter /\ r \notin derived /\ work[r] = {} /\ method[r] # "none"
    BY <1>1, <1>2 DEF Answered, WaiterInCeremony, ReportedOf, PhaseOf, KeyReportedOf
  <1>4. CASE StartAnswered(r)
    <2>1. PICK e \in Replies : /\ Answer(r, e)
                               /\ \/ e = "InvalidRequest"
                                  \/ e = Success(method[r]) /\ method[r] \notin AlwaysDerive
      BY <1>4 DEF StartAnswered, MayBeEmpty, AlwaysDerive
    <2>2. UNCHANGED <<method, work, derived>>
      BY <1>4 DEF StartAnswered
    <2>3. Others(r) /\ pc'[r] = "done" /\ reply'[r] = e
      BY <1>1, <2>1, <2>2, AnswerStep
    <2> QED BY <1>1, <1>2, <1>3, <2>1, <2>2, <2>3
            DEF StepOf, Posts, ReportedOf, PhaseOf, KeyReportedOf
  <1>5. CASE StartClearRecoverySession(r)
    <2>1. /\ Answer(r, "RecoverySessionCleared") /\ method[r] = "clearRecoverySession"
          /\ UNCHANGED <<method, work, derived>>
      BY <1>5 DEF StartClearRecoverySession
    <2>2. Others(r) /\ pc'[r] = "done" /\ reply'[r] = "RecoverySessionCleared"
      BY <1>1, <2>1, AnswerStep
    <2>3. method[r] \notin AlwaysDerive /\ Success(method[r]) = "RecoverySessionCleared"
      BY <2>1 DEF AlwaysDerive, Success, Creations
    <2> QED BY <1>1, <1>2, <1>3, <2>1, <2>2, <2>3
            DEF StepOf, Posts, ReportedOf, PhaseOf, KeyReportedOf
  <1>6. CASE StartCeremony(r)
    <2>1. PICK w \in WorkOf(method[r]) : work' = [work EXCEPT ![r] = w]
      BY <1>6 DEF StartCeremony
    <2>2. /\ CancelThen(r, "confirm") /\ UNCHANGED <<method, derived>>
          /\ method[r] \in WithAssertion \cup KeyUse
      BY <1>6 DEF StartCeremony, OpenConfirm
    <2>3. /\ pc'[r] = "confirm" /\ reply'[r] = reply[r]
          /\ \A q \in Requests \ {r} :
               IF q = waiter THEN pc'[q] = "done" /\ reply'[q] = "SignDenied"
               ELSE pc'[q] = pc[q] /\ reply'[q] = reply[q]
      BY <1>1, <1>3, <2>2, CancelEffect DEF Phases
    <2>4. work'[r] = w /\ \A q \in Requests \ {r} : work'[q] = work[q]
      BY <1>1, <2>1 DEF TypeOK
    <2>5. /\ method[r] \in MayDerive \cup {"createCredential.defer"}
          /\ method[r] # "recoverKey.rebind"
          /\ method[r] \in AtOnce => w = {}
      BY <2>1, <2>2 DEF WithAssertion, KeyUse, Creations, MayDerive, AlwaysDerive, AllMethods,
                        AtOnce, WorkOf
    <2> QED BY <1>3, <2>2, <2>3, <2>4, <2>5
            DEF StepOf, Others, Posts, ReportedOf, PhaseOf, KeyReportedOf
  <1>7. CASE StartInSession(r)
    <2>1. PICK w \in WorkOf(method[r]) :
            IF method[r] \in SeedFirst
            THEN /\ pc' = [pc EXCEPT ![r] = "seed"]
                 /\ work' = [work EXCEPT ![r] = w]
                 /\ UNCHANGED <<reply, tainted>>
            ELSE BeginWork(r, w, buf[session])
      BY <1>7 DEF StartInSession
    <2>2. /\ UNCHANGED <<method, derived>> /\ method[r] \in KeyUse
          /\ method[r] \notin AtOnce
      BY <1>7 DEF StartInSession, KeyUse, AtOnce
    <2>3. CASE method[r] \in SeedFirst
      <3>1. /\ pc' = [pc EXCEPT ![r] = "seed"] /\ reply' = reply
            /\ work' = [work EXCEPT ![r] = w]
        BY <2>1, <2>3
      <3> QED BY <1>1, <1>3, <2>2, <2>3, <3>1
              DEF StepOf, Others, Posts, ReportedOf, PhaseOf, KeyReportedOf, TypeOK
    <2>4. CASE method[r] \notin SeedFirst
      <3>1. BeginWork(r, w, buf[session]) /\ w \in SUBSET Stages
        BY <2>1, <2>4, WorkOfStages
      <3>2. /\ Others(r)
            /\ \/ w = {} /\ pc'[r] = "done" /\ reply'[r] = Success(method[r])
               \/ w # {} /\ pc'[r] = "work" /\ reply'[r] = reply[r]
        BY <1>1, <2>2, <3>1, BeginWorkStep
      <3>3. method[r] \notin AlwaysDerive
        BY <2>2, <2>4 DEF KeyUse, SeedFirst, AlwaysDerive
      <3> QED BY <1>3, <2>2, <3>2, <3>3
              DEF StepOf, Posts, ReportedOf, PhaseOf, KeyReportedOf
    <2> QED BY <2>3, <2>4
  <1>8. CASE StartPrompt(r)
    <2>1. PICK p \in {"passphrase", "keyEntry"} : CancelThen(r, p)
      BY <1>8 DEF StartPrompt, OpenPrompt
    <2>2. UNCHANGED <<method, work, derived>>
      BY <1>8 DEF StartPrompt
    <2>3. Others(r) /\ pc'[r] = p /\ reply'[r] = reply[r]
      BY <1>1, <1>3, <2>1, <2>2, CancelStep DEF Phases
    <2> QED BY <1>1, <1>3, <2>1, <2>2, <2>3
            DEF StepOf, Posts, ReportedOf, PhaseOf, KeyReportedOf
  <1> QED BY <1>4, <1>5, <1>6, <1>7, <1>8

\* What the user's clicks do.
LEMMA UserSteps ==
  ASSUME IInv, Reported, NEW r \in Requests, User(r)
  PROVE  StepOf(r)
  <1> USE SuccessReply, SuccessIsNoFailure DEF Replies, Failures
  <1>1. TypeOK /\ ReportedOf(r) /\ Answered /\ WaiterInCeremony /\ MethodPhase
    BY DEF IInv, Reported, Located
  <1>2. CASE ClickConfirm(r)
    <2>1. /\ pc[r] = "confirm" /\ pc' = [pc EXCEPT ![r] = "passkey"]
          /\ UNCHANGED <<method, work, reply, derived>>
      BY <1>2 DEF ClickConfirm
    <2>2. Others(r) /\ pc'[r] = "passkey" /\ reply'[r] = reply[r]
      BY <1>1, <2>1, MoveStep
    <2> QED BY <1>1, <2>1, <2>2 DEF StepOf, Posts, ReportedOf, PhaseOf, KeyReportedOf
  <1>3. CASE ClickDeny(r)
    <2>1. /\ pc[r] = "confirm" /\ Answer(r, "SignDenied")
          /\ UNCHANGED <<method, work, derived>>
      BY <1>3 DEF ClickDeny
    <2>2. Others(r) /\ pc'[r] = "done" /\ reply'[r] = "SignDenied"
      BY <1>1, <2>1, AnswerStep
    <2> QED BY <1>1, <2>1, <2>2
            DEF StepOf, Posts, ReportedOf, PhaseOf, KeyReportedOf, Answered
  <1>4. CASE EnterPassphrase(r)
    <2>1. /\ pc[r] = "passphrase" /\ UNCHANGED <<method, work, derived>>
          /\ r # waiter /\ reply[r] = "none" /\ r \notin derived /\ method[r] # "none"
          /\ method[r] \in Passphrased
      BY <1>1, <1>4 DEF EnterPassphrase, WaiterInCeremony, Answered, ReportedOf, PhaseOf,
                        KeyReportedOf, MethodPhase
    <2>2. \/ \E p \in {"decrypt", "pub"} : pc' = [pc EXCEPT ![r] = p] /\ reply' = reply
          \/ Answer(r, "InvalidRequest")
          \/ method[r] = "createRecoveryData" /\ CancelThen(r, "confirm")
      BY <1>4 DEF EnterPassphrase, OpenConfirm
    <2>3. ASSUME NEW p \in {"decrypt", "pub"}, pc' = [pc EXCEPT ![r] = p], reply' = reply
          PROVE  StepOf(r)
      <3>1. Others(r) /\ pc'[r] = p /\ reply'[r] = reply[r]
        BY <1>1, <2>1, <2>3, MoveStep
      <3> QED BY <1>1, <2>1, <3>1 DEF StepOf, Posts, ReportedOf, PhaseOf, KeyReportedOf
    <2>4. CASE Answer(r, "InvalidRequest")
      <3>1. Others(r) /\ pc'[r] = "done" /\ reply'[r] = "InvalidRequest"
        BY <1>1, <2>1, <2>4, AnswerStep
      <3> QED BY <1>1, <2>1, <3>1 DEF StepOf, Posts, ReportedOf, PhaseOf, KeyReportedOf
    <2>5. CASE method[r] = "createRecoveryData" /\ CancelThen(r, "confirm")
      <3>1. Others(r) /\ pc'[r] = "confirm" /\ reply'[r] = reply[r]
        BY <1>1, <2>1, <2>5, CancelStep DEF Phases
      <3>2. method[r] \in MayDerive \ {"recoverKey.rebind"} /\ method[r] \notin AtOnce
        BY <2>5 DEF MayDerive, AlwaysDerive, AllMethods, AtOnce
      <3> QED BY <1>1, <2>1, <3>1, <3>2
              DEF StepOf, Posts, ReportedOf, PhaseOf, KeyReportedOf
    <2> QED BY <2>2, <2>3, <2>4, <2>5
  <1>5. CASE EnterShortPassphrase(r)
    <2>1. /\ pc[r] = "passphrase" /\ Answer(r, "InvalidRequest")
          /\ UNCHANGED <<method, work, derived>>
      BY <1>5 DEF EnterShortPassphrase
    <2>2. Others(r) /\ pc'[r] = "done" /\ reply'[r] = "InvalidRequest"
      BY <1>1, <2>1, AnswerStep
    <2> QED BY <1>1, <2>1, <2>2
            DEF StepOf, Posts, ReportedOf, PhaseOf, KeyReportedOf, Answered
  <1>6. CASE ClickStalePassphrase(r)
    <2>1. UNCHANGED <<method, pc, work, reply, derived>>
      BY <1>6 DEF ClickStalePassphrase
    <2> QED BY <1>1, <2>1 DEF StepOf, Others, Posts, ReportedOf, PhaseOf, KeyReportedOf
  <1>7. CASE EnterPrivateKey(r)
    <2>1. pc[r] = "keyEntry" /\ UNCHANGED <<method, work, derived>>
      BY <1>7 DEF EnterPrivateKey
    <2>2. \/ \E e \in {"SignDenied", "InvalidRequest"} : Answer(r, e)
          \/ pc' = [pc EXCEPT ![r] = "pub"] /\ reply' = reply
      BY <1>7 DEF EnterPrivateKey
    <2>3. ASSUME NEW e \in {"SignDenied", "InvalidRequest"}, Answer(r, e) PROVE StepOf(r)
      <3>1. Others(r) /\ pc'[r] = "done" /\ reply'[r] = e
        BY <1>1, <2>1, <2>3, AnswerStep
      <3> QED BY <1>1, <2>1, <3>1
              DEF StepOf, Posts, ReportedOf, PhaseOf, KeyReportedOf, Answered
    <2>4. CASE pc' = [pc EXCEPT ![r] = "pub"] /\ reply' = reply
      <3>1. Others(r) /\ pc'[r] = "pub" /\ reply'[r] = reply[r]
        BY <1>1, <2>1, <2>4, MoveStep
      <3> QED BY <1>1, <2>1, <3>1 DEF StepOf, Posts, ReportedOf, PhaseOf, KeyReportedOf
    <2> QED BY <2>2, <2>3, <2>4
  <1>8. CASE ClickDone(r)
    <2>1. UNCHANGED <<method, work, derived>>
      BY <1>8 DEF ClickDone
    <2>2. CASE pc[r] = "dismiss"
      <3>1. Answer(r, "PrivateKeyRevealed")
        BY <1>8, <2>2 DEF ClickDone
      <3>2. Others(r) /\ pc'[r] = "done" /\ reply'[r] = "PrivateKeyRevealed"
        BY <1>1, <2>1, <3>1, AnswerStep
      <3>3. method[r] = "revealPrivateKey" /\ Success(method[r]) = "PrivateKeyRevealed"
        BY <1>1, <2>2 DEF ReportedOf, PhaseOf, Success, Creations
      <3> QED BY <1>1, <2>1, <2>2, <3>2, <3>3
              DEF StepOf, Posts, ReportedOf, PhaseOf, KeyReportedOf, Answered
    <2>3. CASE pc[r] # "dismiss"
      <3>1. UNCHANGED <<pc, reply>>
        BY <1>8, <2>3 DEF ClickDone
      <3> QED BY <1>1, <2>1, <3>1 DEF StepOf, Others, Posts, ReportedOf, PhaseOf, KeyReportedOf
    <2> QED BY <2>2, <2>3
  <1> QED BY <1>2, <1>3, <1>4, <1>5, <1>6, <1>7, <1>8 DEF User

\* What the authenticator's answers do.
LEMMA AuthenticatorSteps ==
  ASSUME IInv, Reported, NEW r \in Requests, Authenticator(r)
  PROVE  StepOf(r)
  <1> USE SuccessReply, SuccessIsNoFailure DEF Replies, Failures
  <1>1. TypeOK /\ ReportedOf(r) /\ Answered /\ WaiterInCeremony
    BY DEF IInv, Reported
  <1>2. UNCHANGED <<method, work, derived>>
    BY DEF Authenticator, PasskeyDone, ConfirmSucceeds, FollowUpAssertion, PasskeyFails
  <1>3. CASE UNCHANGED <<pc, reply>>
    BY <1>1, <1>2, <1>3 DEF StepOf, Others, Posts, ReportedOf, PhaseOf, KeyReportedOf
  <1>4. CASE waiter = r
    <2>1. pc[r] \in {"confirm", "passkey"} /\ reply[r] = "none" /\ method[r] # "none"
      BY <1>1, <1>4 DEF WaiterInCeremony, Answered, ReportedOf, PhaseOf
    <2>2. \/ UNCHANGED <<pc, reply>>
          \/ \E e \in {"NotAllowed", "InvalidRequest"} : Answer(r, e)
          \/ /\ method[r] \in {"createCredential.defer", "recoverKey.rebind"}
             /\ Answer(r, Success(method[r]))
          \/ /\ method[r] \notin {"createCredential.defer", "recoverKey.rebind"}
             /\ pc' = [pc EXCEPT ![r] = "derive"] /\ reply' = reply
      BY <1>4 DEF Authenticator, PasskeyDone, ConfirmSucceeds, FollowUpAssertion, PasskeyFails
    <2>3. ASSUME NEW e \in {"NotAllowed", "InvalidRequest"}, Answer(r, e) PROVE StepOf(r)
      <3>1. Others(r) /\ pc'[r] = "done" /\ reply'[r] = e
        BY <1>1, <1>2, <2>3, AnswerStep
      <3> QED BY <1>1, <1>2, <2>1, <3>1 DEF StepOf, Posts, ReportedOf, PhaseOf, KeyReportedOf
    <2>4. CASE /\ method[r] \in {"createCredential.defer", "recoverKey.rebind"}
               /\ Answer(r, Success(method[r]))
      <3>1. Others(r) /\ pc'[r] = "done" /\ reply'[r] = Success(method[r])
        BY <1>1, <1>2, <2>4, AnswerStep
      <3>2. method[r] = "createCredential.defer" => method[r] \notin AlwaysDerive
        BY DEF AlwaysDerive
      <3> QED BY <1>1, <1>2, <2>1, <2>4, <3>1, <3>2
              DEF StepOf, Posts, ReportedOf, PhaseOf, KeyReportedOf
    <2>5. CASE /\ method[r] \notin {"createCredential.defer", "recoverKey.rebind"}
               /\ pc' = [pc EXCEPT ![r] = "derive"] /\ reply' = reply
      <3>1. Others(r) /\ pc'[r] = "derive" /\ reply'[r] = reply[r]
        BY <1>1, <1>2, <2>5, MoveStep
      <3> QED BY <1>1, <1>2, <2>1, <2>5, <3>1
              DEF StepOf, Posts, ReportedOf, PhaseOf, KeyReportedOf
    <2> QED BY <1>3, <2>2, <2>3, <2>4, <2>5
  <1>5. CASE waiter # r
    BY <1>3, <1>5 DEF Authenticator, PasskeyDone, ConfirmSucceeds, FollowUpAssertion, PasskeyFails
  <1> QED BY <1>4, <1>5

\* Handlers whose keys were just derived in a ceremony.
LEMMA DerivedSteps ==
  ASSUME IInv, Reported, NEW r \in Requests,
         \/ DerivedForReveal(r) \/ DerivedForRecoveryData(r) \/ DerivedForWork(r)
         \/ CryptoFails(r)
  PROVE  StepOf(r)
  <1> USE SuccessReply, SuccessIsNoFailure DEF Replies, Failures
  <1>1. TypeOK /\ ReportedOf(r) /\ Answered /\ WaiterInCeremony
    BY DEF IInv, Reported
  <1>2. /\ method' = method
        /\ pc[r] \in {"derive", "seed", "pub", "wrap"}
        /\ CryptoFails(r) \/ pc[r] = "derive"
    BY DEF DerivedForReveal, DerivedForRecoveryData, DerivedForWork, CryptoFails, KeyDerived
  <1>3. /\ reply[r] = "none" /\ r # waiter /\ method[r] # "none"
        /\ (method[r] \in AtOnce => work[r] = {})
        /\ pc[r] = "derive" => r \notin derived /\ method[r] \in MayDerive
    BY <1>1, <1>2 DEF Answered, WaiterInCeremony, ReportedOf, PhaseOf, KeyReportedOf
  <1>4. CASE DerivedForReveal(r)
    <2>1. /\ work' = work /\ derived' = derived \cup {r} /\ method[r] = "revealPrivateKey"
          /\ pc[r] = "derive" /\ method[r] \in MayDerive
          /\ CancelThen(r, "dismiss") \/ Answer(r, "InvalidRequest")
      BY <1>3, <1>4 DEF DerivedForReveal, KeyDerived
    <2>2. method[r] \notin AtOnce
      BY <2>1 DEF AtOnce
    <2>3. CASE CancelThen(r, "dismiss")
      <3>1. Others(r) /\ pc'[r] = "dismiss" /\ reply'[r] = reply[r]
        BY <1>1, <1>2, <1>3, <2>1, <2>3, CancelStep DEF Phases
      <3> QED BY <1>1, <1>2, <1>3, <2>1, <2>2, <3>1 DEF StepOf, Posts, ReportedOf, PhaseOf, KeyReportedOf
    <2>4. CASE Answer(r, "InvalidRequest")
      <3>1. Others(r) /\ pc'[r] = "done" /\ reply'[r] = "InvalidRequest"
        BY <1>1, <1>2, <2>1, <2>4, AnswerStep
      <3> QED BY <1>1, <1>2, <1>3, <2>1, <2>2, <3>1 DEF StepOf, Posts, ReportedOf, PhaseOf, KeyReportedOf
    <2> QED BY <2>1, <2>3, <2>4
  <1>5. CASE DerivedForRecoveryData(r)
    <2>1. /\ work' = work /\ derived' = derived \cup {r} /\ method[r] = "createRecoveryData"
          /\ pc[r] = "derive" /\ method[r] \in MayDerive
          /\ pc' = [pc EXCEPT ![r] = "wrap"] /\ reply' = reply
      BY <1>3, <1>5 DEF DerivedForRecoveryData, KeyDerived
    <2>2. method[r] \notin AtOnce
      BY <2>1 DEF AtOnce
    <2>3. Others(r) /\ pc'[r] = "wrap" /\ reply'[r] = reply[r]
      BY <1>1, <1>2, <2>1, MoveStep
    <2> QED BY <1>1, <1>2, <1>3, <2>1, <2>2, <2>3 DEF StepOf, Posts, ReportedOf, PhaseOf, KeyReportedOf
  <1>6. CASE DerivedForWork(r)
    <2>1. /\ BeginWork(r, work[r], "key") /\ derived' = derived \cup {r}
          /\ work[r] \in SUBSET Stages
          /\ pc[r] = "derive" /\ method[r] \in MayDerive
      BY <1>1, <1>3, <1>6 DEF DerivedForWork, KeyDerived, TypeOK
    <2>2. /\ Others(r) /\ work'[r] = work[r]
          /\ \/ work[r] = {} /\ pc'[r] = "done" /\ reply'[r] = Success(method[r])
             \/ work[r] # {} /\ pc'[r] = "work" /\ reply'[r] = reply[r]
      BY <1>1, <1>2, <2>1, BeginWorkStep
    <2> QED BY <1>1, <1>2, <1>3, <2>1, <2>2 DEF StepOf, Posts, ReportedOf, PhaseOf, KeyReportedOf
  <1>7. CASE CryptoFails(r)
    <2>1. UNCHANGED <<work, derived>> /\ Answer(r, "InvalidRequest")
      BY <1>7 DEF CryptoFails
    <2>2. Others(r) /\ pc'[r] = "done" /\ reply'[r] = "InvalidRequest"
      BY <1>1, <1>2, <2>1, AnswerStep
    <2> QED BY <1>1, <1>2, <1>3, <2>1, <2>2 DEF StepOf, Posts, ReportedOf, PhaseOf, KeyReportedOf
  <1> QED BY <1>4, <1>5, <1>6, <1>7

\* Handlers whose public keys were just computed outside a ceremony.
LEMMA PublicKeysSteps ==
  ASSUME IInv, Reported, NEW r \in Requests,
         \/ SessionImported(r) \/ PublicKeysForRecoveryData(r) \/ PublicKeysForBatch(r)
         \/ KeyRecovered(r) \/ RebindStarted(r)
  PROVE  StepOf(r)
  <1> USE SuccessReply, SuccessIsNoFailure DEF Replies, Failures
  <1>1. TypeOK /\ ReportedOf(r) /\ Answered /\ WaiterInCeremony
    BY DEF IInv, Reported
  <1>2. pc[r] = "pub" /\ method' = method /\ derived' = derived \cup {r}
    BY DEF SessionImported, PublicKeysForRecoveryData, PublicKeysForBatch, KeyRecovered,
           RebindStarted, PublicKeys
  <1>3. /\ reply[r] = "none" /\ r # waiter /\ method[r] # "none" /\ r \notin derived
        /\ (method[r] \in AtOnce => work[r] = {})
    BY <1>1, <1>2 DEF Answered, WaiterInCeremony, ReportedOf, PhaseOf, KeyReportedOf
  <1>4. CASE SessionImported(r)
    <2>1. /\ work' = work /\ method[r] = "importPrivateKey"
          /\ Answer(r, "RecoverySessionStarted")
      BY <1>4 DEF SessionImported
    <2>2. /\ Success(method[r]) = "RecoverySessionStarted"
          /\ method[r] \in MayDerive
      BY <2>1 DEF Success, Creations, MayDerive, AlwaysDerive, AllMethods
    <2>3. Others(r) /\ pc'[r] = "done" /\ reply'[r] = "RecoverySessionStarted"
      BY <1>1, <1>2, <2>1, AnswerStep
    <2> QED BY <1>1, <1>2, <1>3, <2>1, <2>2, <2>3 DEF StepOf, Posts, ReportedOf, PhaseOf, KeyReportedOf
  <1>5. CASE PublicKeysForRecoveryData(r)
    <2>1. /\ work' = work /\ method[r] = "createRecoveryData"
          /\ pc' = [pc EXCEPT ![r] = "wrap"] /\ reply' = reply
      BY <1>5 DEF PublicKeysForRecoveryData
    <2>2. method[r] \in MayDerive \ AtOnce
      BY <2>1 DEF AtOnce, MayDerive, AlwaysDerive, AllMethods
    <2>3. Others(r) /\ pc'[r] = "wrap" /\ reply'[r] = reply[r]
      BY <1>1, <1>2, <2>1, MoveStep
    <2> QED BY <1>1, <1>2, <1>3, <2>1, <2>2, <2>3 DEF StepOf, Posts, ReportedOf, PhaseOf, KeyReportedOf
  <1>6. CASE PublicKeysForBatch(r)
    <2>1. /\ BeginWork(r, work[r], Key(r)) /\ method[r] = "executeBatch"
          /\ work[r] \in SUBSET Stages
      BY <1>1, <1>6 DEF PublicKeysForBatch, TypeOK
    <2>2. method[r] \in MayDerive \ AtOnce
      BY <2>1 DEF AtOnce, MayDerive, AlwaysDerive, AllMethods
    <2>3. /\ Others(r) /\ work'[r] = work[r]
          /\ \/ work[r] = {} /\ pc'[r] = "done" /\ reply'[r] = Success(method[r])
             \/ work[r] # {} /\ pc'[r] = "work" /\ reply'[r] = reply[r]
      BY <1>1, <1>2, <2>1, BeginWorkStep
    <2> QED BY <1>1, <1>2, <1>3, <2>1, <2>2, <2>3 DEF StepOf, Posts, ReportedOf, PhaseOf, KeyReportedOf
  <1>7. CASE KeyRecovered(r)
    <2> DEFINE Shown == /\ pc' = Assign(pc, Denied \cup {r}, "done")
                        /\ reply' = [Assign(reply, Denied, "SignDenied")
                                       EXCEPT ![r] = "RecoverySessionStarted"]
    <2>1. /\ work' = work /\ method[r] = "recoverKey"
          /\ Answer(r, "RecoverySessionStarted") \/ Shown
      BY <1>7 DEF KeyRecovered
    <2>2. /\ Success(method[r]) = "RecoverySessionStarted"
          /\ method[r] \in MayDerive
      BY <2>1 DEF Success, Creations, MayDerive, AlwaysDerive, AllMethods
    <2>3. Others(r) /\ pc'[r] = "done" /\ reply'[r] = "RecoverySessionStarted"
      <3>1. CASE Answer(r, "RecoverySessionStarted")
        BY <1>1, <1>2, <2>1, <3>1, AnswerStep
      <3>2. CASE Shown
        <4>1. /\ pc'[r] = "done" /\ reply'[r] = "RecoverySessionStarted"
              /\ \A q \in Requests \ {r} :
                   IF q = waiter THEN pc'[q] = "done" /\ reply'[q] = "SignDenied"
                   ELSE pc'[q] = pc[q] /\ reply'[q] = reply[q]
          BY <1>1, <3>2, ShownEffect
        <4> QED BY <1>2, <2>1, <4>1 DEF Others
      <3> QED BY <2>1, <3>1, <3>2
    <2> QED BY <1>1, <1>2, <1>3, <2>1, <2>2, <2>3 DEF StepOf, Posts, ReportedOf, PhaseOf, KeyReportedOf
  <1>8. CASE RebindStarted(r)
    <2>1. work' = work /\ method[r] = "recoverKey.rebind" /\ CancelThen(r, "confirm")
      BY <1>8 DEF RebindStarted, OpenConfirm
    <2>2. method[r] \in MayDerive \ AtOnce
      BY <2>1 DEF AtOnce, MayDerive, AlwaysDerive, AllMethods
    <2>3. Others(r) /\ pc'[r] = "confirm" /\ reply'[r] = reply[r]
      BY <1>1, <1>2, <1>3, <2>1, CancelStep DEF Phases
    <2> QED BY <1>1, <1>2, <1>3, <2>1, <2>2, <2>3 DEF StepOf, Posts, ReportedOf, PhaseOf, KeyReportedOf
  <1> QED BY <1>4, <1>5, <1>6, <1>7, <1>8

\* Handlers that use the key, or install one.
LEMMA WorkSteps ==
  ASSUME IInv, Reported, NEW r \in Requests,
         \/ SeedDerived(r) \/ StageDone(r) \/ StageFails(r) \/ Wrapped(r)
         \/ EnvelopeOpened(r) \/ NextDigest(r)
  PROVE  StepOf(r)
  <1> USE SuccessReply, SuccessIsNoFailure DEF Replies, Failures
  <1>1. TypeOK /\ ReportedOf(r) /\ Answered /\ WaiterInCeremony
    BY DEF IInv, Reported
  <1>2. method' = method /\ derived' = derived /\ pc[r] \in {"seed", "work", "wrap", "decrypt"}
    BY DEF SeedDerived, StageDone, StageFails, Wrapped, EnvelopeOpened, NextDigest
  <1>3. /\ reply[r] = "none" /\ r # waiter /\ method[r] # "none"
        /\ (method[r] \in AtOnce => work[r] = {})
    BY <1>1, <1>2 DEF Answered, WaiterInCeremony, ReportedOf, PhaseOf
  <1>4. CASE SeedDerived(r)
    <2>1. pc[r] = "seed" /\ r \notin derived /\ method[r] \in SeedFirst
      BY <1>1, <1>4 DEF SeedDerived, ReportedOf, PhaseOf, KeyReportedOf
    <2>2. CASE method[r] # "executeBatch"
      <3>1. /\ BeginWork(r, work[r], Key(r)) /\ work[r] \in SUBSET Stages
            /\ method[r] \notin AlwaysDerive
        BY <1>1, <1>4, <2>1, <2>2 DEF SeedDerived, TypeOK, SeedFirst, AlwaysDerive
      <3>2. /\ Others(r) /\ work'[r] = work[r]
            /\ \/ work[r] = {} /\ pc'[r] = "done" /\ reply'[r] = Success(method[r])
               \/ work[r] # {} /\ pc'[r] = "work" /\ reply'[r] = reply[r]
        BY <1>1, <1>2, <3>1, BeginWorkStep
      <3> QED BY <1>1, <1>2, <1>3, <2>1, <3>1, <3>2 DEF StepOf, Posts, ReportedOf, PhaseOf, KeyReportedOf
    <2>3. CASE method[r] = "executeBatch"
      <3>1. /\ work' = work
            /\ \/ Answer(r, "InvalidRequest")
               \/ pc' = [pc EXCEPT ![r] = "pub"] /\ reply' = reply
        BY <1>4, <2>3 DEF SeedDerived
      <3>2. CASE Answer(r, "InvalidRequest")
        <4>1. Others(r) /\ pc'[r] = "done" /\ reply'[r] = "InvalidRequest"
          BY <1>1, <1>2, <3>1, <3>2, AnswerStep
        <4> QED BY <1>1, <1>2, <1>3, <2>1, <3>1, <4>1 DEF StepOf, Posts, ReportedOf, PhaseOf, KeyReportedOf
      <3>3. CASE pc' = [pc EXCEPT ![r] = "pub"] /\ reply' = reply
        <4>1. Others(r) /\ pc'[r] = "pub" /\ reply'[r] = reply[r]
          BY <1>1, <1>2, <3>1, <3>3, MoveStep
        <4> QED BY <1>1, <1>2, <1>3, <2>1, <3>1, <4>1 DEF StepOf, Posts, ReportedOf, PhaseOf, KeyReportedOf
      <3> QED BY <3>1, <3>2, <3>3
    <2> QED BY <2>2, <2>3
  <1>5. CASE StageDone(r)
    <2> DEFINE rest == work[r] \ {Stage(work[r])}
    <2>1. BeginWork(r, rest, Key(r)) /\ rest \in SUBSET Stages /\ pc[r] = "work"
      BY <1>1, <1>5 DEF StageDone, TypeOK
    <2>2. /\ Others(r) /\ work'[r] = rest
          /\ \/ rest = {} /\ pc'[r] = "done" /\ reply'[r] = Success(method[r])
             \/ rest # {} /\ pc'[r] = "work" /\ reply'[r] = reply[r]
      BY <1>1, <1>2, <2>1, BeginWorkStep
    <2>3. method[r] \in AtOnce => rest = {}
      BY <1>3
    <2> HIDE DEF rest
    <2> QED BY <1>1, <1>2, <1>3, <2>1, <2>2, <2>3 DEF StepOf, Posts, ReportedOf, PhaseOf, KeyReportedOf
  <1>6. CASE StageFails(r)
    <2>1. work' = work /\ Answer(r, "InvalidRequest")
      BY <1>6 DEF StageFails, Return
    <2>2. Others(r) /\ pc'[r] = "done" /\ reply'[r] = "InvalidRequest"
      BY <1>1, <1>2, <2>1, AnswerStep
    <2> QED BY <1>1, <1>2, <1>3, <2>1, <2>2 DEF StepOf, Posts, ReportedOf, PhaseOf, KeyReportedOf
  <1>7. CASE Wrapped(r)
    <2>1. pc[r] = "wrap" /\ work' = work /\ Answer(r, "RecoveryDataCreated")
      BY <1>7 DEF Wrapped, Return
    <2>2. Others(r) /\ pc'[r] = "done" /\ reply'[r] = "RecoveryDataCreated"
      BY <1>1, <1>2, <2>1, AnswerStep
    <2>3. Success(method[r]) = "RecoveryDataCreated"
      BY <1>1, <2>1 DEF ReportedOf, PhaseOf, Success, Creations
    <2> QED BY <1>1, <1>2, <1>3, <2>1, <2>2, <2>3 DEF StepOf, Posts, ReportedOf, PhaseOf, KeyReportedOf
  <1>8. CASE EnvelopeOpened(r)
    <2>1. /\ pc[r] = "decrypt" /\ work' = work
          /\ \/ Answer(r, "InvalidRequest")
             \/ pc' = [pc EXCEPT ![r] = "pub"] /\ reply' = reply
      BY <1>8 DEF EnvelopeOpened
    <2>2. CASE Answer(r, "InvalidRequest")
      <3>1. Others(r) /\ pc'[r] = "done" /\ reply'[r] = "InvalidRequest"
        BY <1>1, <1>2, <2>1, <2>2, AnswerStep
      <3> QED BY <1>1, <1>2, <1>3, <2>1, <3>1 DEF StepOf, Posts, ReportedOf, PhaseOf, KeyReportedOf
    <2>3. CASE pc' = [pc EXCEPT ![r] = "pub"] /\ reply' = reply
      <3>1. Others(r) /\ pc'[r] = "pub" /\ reply'[r] = reply[r]
        BY <1>1, <1>2, <2>1, <2>3, MoveStep
      <3> QED BY <1>1, <1>2, <1>3, <2>1, <3>1 DEF StepOf, Posts, ReportedOf, PhaseOf, KeyReportedOf
    <2> QED BY <2>1, <2>2, <2>3
  <1>9. CASE NextDigest(r)
    <2>1. UNCHANGED <<pc, work, reply>>
      BY <1>9 DEF NextDigest
    <2> QED BY <1>1, <1>2, <2>1 DEF StepOf, Others, Posts, ReportedOf, PhaseOf, KeyReportedOf
  <1> QED BY <1>4, <1>5, <1>6, <1>7, <1>8, <1>9

-----------------------------------------------------------------------------
\* The parent's messages: a request is accepted, a cancel denies what waits.
LEMMA ParentSteps ==
  ASSUME IInv, TypeOK', Reported,
         Cancel \/ \E r \in Requests, m \in Methods : Receive(r, m)
  PROVE  Contract!ContractNext /\ Reported'
  <1> USE DEF Denied, Assign
  <1>1. TypeOK /\ WaiterInCeremony
    BY DEF IInv
  <1>2. Denied \in Contract!Deniable
    BY <1>1, WaiterIsOpen DEF Contract!Deniable
  <1>3. CASE Cancel
    <2>1. /\ UNCHANGED <<method, work, derived>>
          /\ pc' = Assign(pc, Denied, "done") /\ reply' = Assign(reply, Denied, "SignDenied")
      BY <1>3 DEF Cancel
    <2>2. Contract!Drop
      BY <1>2, <2>1 DEF Contract!Drop, Contract!Deny
    <2>3. ASSUME NEW q \in Requests PROVE ReportedOf(q)'
      <3>1. ReportedOf(q) /\ (q \in Denied => pc[q] \in {"confirm", "passkey"})
        BY <1>1, RequestsAssumption DEF Reported, WaiterInCeremony
      <3>2. pc'[q] = IF q \in Denied THEN "done" ELSE pc[q]
        BY <2>1
      <3> QED BY <2>1, <3>1, <3>2 DEF ReportedOf, PhaseOf, KeyReportedOf
    <2> QED BY <2>2, <2>3 DEF Contract!ContractNext, Reported
  <1>4. ASSUME NEW r \in Requests, NEW m \in Methods, Receive(r, m)
        PROVE  Contract!ContractNext /\ Reported'
    <2>1. /\ pc[r] = "idle" /\ method' = [method EXCEPT ![r] = m]
          /\ UNCHANGED <<work, derived>> /\ CancelThen(r, "start")
      BY <1>4 DEF Receive
    <2>2. ReportedOf(r) /\ m \in AllMethods /\ m # "none"
      BY MethodsAssumption DEF Reported, AllMethods
    <2>3. Contract!Accept(r, m)
      <3>1. method[r] = "none"
        BY <2>1, <2>2 DEF ReportedOf, PhaseOf
      <3>2. reply' = Contract!Deny(Denied)
        BY <2>1 DEF CancelThen, Contract!Deny
      <3> QED BY <1>2, <2>1, <3>1, <3>2 DEF Contract!Accept
    <2>4. ReportedOf(r)'
      BY <1>1, <2>1, <2>2 DEF CancelThen, ReportedOf, PhaseOf, KeyReportedOf, TypeOK
    <2>5. ASSUME NEW q \in Requests \ {r} PROVE ReportedOf(q)'
      <3>1. ReportedOf(q) /\ (q \in Denied => pc[q] \in {"confirm", "passkey"})
        BY <1>1, RequestsAssumption DEF Reported, WaiterInCeremony
      <3>2. pc'[q] = (IF q \in Denied THEN "done" ELSE pc[q]) /\ method'[q] = method[q]
        BY <1>1, <2>1 DEF CancelThen, TypeOK
      <3> QED BY <2>1, <3>1, <3>2 DEF ReportedOf, PhaseOf, KeyReportedOf
    <2> QED BY <2>3, <2>4, <2>5 DEF Contract!ContractNext, Reported
  <1> QED BY <1>3, <1>4

\* Every step is one the contract allows, and keeps what is reported where.
LEMMA ContractStep ==
  ASSUME IInv, Reported, [Next]_vars
  PROVE  /\ [Contract!ContractNext]_(Contract!contractVars)
         /\ Reported'
  <1>1. TypeOK'
    BY InvStep DEF IInv
  <1>2. CASE UNCHANGED vars
    <2>1. UNCHANGED <<method, pc, work, reply, derived>>
      BY <1>2 DEF vars
    <2> QED BY <2>1 DEF Contract!contractVars, Reported, ReportedOf, PhaseOf, KeyReportedOf
  <1>3. CASE Cancel \/ \E r \in Requests, m \in Methods : Receive(r, m)
    BY <1>1, <1>3, ParentSteps
  <1>4. ASSUME NEW r \in Requests, Resume(r) \/ NextDigest(r) \/ Authenticator(r) \/ User(r)
        PROVE  Contract!ContractNext /\ Reported'
    <2>1. StepOf(r)
      BY <1>4, StartSteps, UserSteps, AuthenticatorSteps, DerivedSteps, PublicKeysSteps,
         WorkSteps DEF Resume
    <2> QED BY <1>1, <2>1, StepIsContract, StepIsReported
  <1> QED BY <1>2, <1>3, <1>4 DEF Next

\* Nothing has been received, nothing is reported.
LEMMA ContractStart == Init => Contract!ContractInit /\ Reported
  BY DEF Init, Contract!ContractInit, Reported, ReportedOf, PhaseOf, KeyReportedOf, AllMethods,
         AtOnce

\* What the Signing Layer posts is what the Branding Layer may rely on: every
\* request is accepted once, its key reported at most once and before its
\* success, and its answer is the last event posted for it.
THEOREM ContractCorrect == Spec => ImplementsContract
  <1>1. Init => Contract!ContractInit /\ Reported
    BY ContractStart
  <1>2. IInv /\ Reported /\ [Next]_vars =>
          [Contract!ContractNext]_(Contract!contractVars) /\ Reported'
    BY ContractStep
  <1> QED BY <1>1, <1>2, Invariance, PTL DEF Spec, ImplementsContract, Contract!ContractSpec

=============================================================================
