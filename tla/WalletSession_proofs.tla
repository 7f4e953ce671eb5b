------------------------ MODULE WalletSession_proofs ------------------------
(* Machine-checked proofs about WalletSession, for any set of tasks, kinds    *)
(* and passkeys.  That the queue serves its callers (QueueInv) and that an    *)
(* unlock is under way (UnlockInv) are proved together (SInv): only requests  *)
(* unlock, and KindFits tells at each stage what a task can be about, so that *)
(* a button's task at the passkey's name is not taken for the unlock's owner. *)
(* That addresses follow the key needs besides what the modal on screen can   *)
(* say of the call behind it (PanelOk), and that what OWSSigner knows is the  *)
(* key that signs until another is announced during a session (KeyOk).        *)
EXTENDS WalletSession, SequenceTheorems, TLAPS

\* Of TypeOK, what the queue and the unlock need.
SessionTypes ==
  /\ task \in [Tasks -> [kind : AllKinds, stage : Stages]]
  /\ queue \in Seq(Tasks)
  /\ panel \in Panels \cup {None}
  /\ inFlight \in Tasks \cup {None}

\* The queue, and what is in it.
QueueInv == SessionTypes /\ QueueServesCallers

-----------------------------------------------------------------------------
(* Stages, panels and the queue. *)

\* One task goes to another stage.
LEMMA AtFacts ==
  ASSUME SessionTypes, NEW t \in Tasks, NEW s \in Stages, task' = At(t, s)
  PROVE  /\ task' \in [Tasks -> [kind : AllKinds, stage : Stages]]
         /\ task'[t].stage = s /\ task'[t].kind = task[t].kind
         /\ \A u \in Tasks \ {t} : task'[u] = task[u]
<1>1. task \in [Tasks -> [kind : AllKinds, stage : Stages]]
  BY DEF SessionTypes
<1> QED  BY <1>1 DEF At

\* When an unlock ends, those who wait for it share its outcome.
LEMMA SettledFacts ==
  ASSUME SessionTypes, NEW t \in Tasks, NEW s \in Stages, task' = Settled(t, s)
  PROVE  /\ task' \in [Tasks -> [kind : AllKinds, stage : Stages]]
         /\ task'[t].stage = s /\ task'[t].kind = task[t].kind
         /\ \A u \in Tasks \ {t} :
              IF inFlight = t /\ task[u].stage = "waiting"
              THEN task'[u].stage = s /\ task'[u].kind = task[u].kind
              ELSE task'[u] = task[u]
<1>1. task \in [Tasks -> [kind : AllKinds, stage : Stages]]
  BY DEF SessionTypes
<1>2. CASE inFlight = t
  <2>1. task' = [u \in Tasks |-> IF u = t \/ task[u].stage = "waiting"
                                 THEN [task[u] EXCEPT !.stage = s] ELSE task[u]]
    BY <1>2 DEF Settled
  <2> QED  BY <1>1, <1>2, <2>1
<1>3. CASE inFlight # t
  BY <1>3, AtFacts DEF Settled
<1> QED  BY <1>2, <1>3

\* The component of a modal of one kind.
LEMMA MountedFacts ==
  ASSUME NEW kind \in Modals
  PROVE  /\ Mounted(kind) \in Panels /\ Mounted(kind) # None /\ Mounted(kind).kind = kind
         /\ Mounted(kind).phase \in {"confirm", "prompt"} /\ Mounted(kind).by = None
<1>1. Mounted(kind) \in Panels /\ Mounted(kind).kind = kind
      /\ Mounted(kind).phase \in {"confirm", "prompt"} /\ Mounted(kind).by = None
  BY DEF Mounted, Panels
<1> QED  BY <1>1, PanelsAssumption

\* What is rendered is the component of the first entry's kind: mounted, or taken
\* over with the state of the one on screen.
LEMMA RenderedFacts ==
  ASSUME panel \in Panels \cup {None}, NEW q \in Seq(Tasks), NEW tasks,
         q # <<>> => tasks[Head(q)].stage \in Modals
  PROVE  LET p == Rendered(q, tasks)
         IN /\ q = <<>> => p = None
            /\ q # <<>> =>
                 /\ p \in Panels /\ p # None /\ p.kind = tasks[Head(q)].stage
                 /\ \/ p = Mounted(p.kind)
                    \/ /\ panel # None /\ p.kind = panel.kind /\ p.phase = panel.phase
                       /\ p.inherited /\ (p.busy => panel.busy) /\ p.by = panel.by
<1> DEFINE p == Rendered(q, tasks)
           kind == tasks[Head(q)].stage
<1>1. CASE q = <<>>
  BY <1>1 DEF Rendered
<1>2. CASE q # <<>> /\ panel # None /\ panel.kind = kind
  <2>1. p = [panel EXCEPT !.inherited = TRUE, !.busy = panel.busy /\ kind # "personalSign"]
    BY <1>2 DEF Rendered
  <2>2. panel \in Panels
    BY <1>2
  <2>3. /\ p.kind = panel.kind /\ p.phase = panel.phase /\ p.inherited = TRUE
        /\ p.busy = (panel.busy /\ kind # "personalSign") /\ p.by = panel.by
    BY <2>1, <2>2 DEF Panels
  <2>4. p \in Panels
    BY <2>1, <2>2 DEF Panels
  <2> QED  BY <1>2, <2>3, <2>4, PanelsAssumption
<1>3. CASE q # <<>> /\ ~(panel # None /\ panel.kind = kind)
  <2>1. p = Mounted(kind)
    BY <1>3 DEF Rendered
  <2> QED  BY <1>3, <2>1, MountedFacts
<1> QED  BY <1>1, <1>2, <1>3

\* The entry on screen is the first and the only one of its task.
LEMMA WithoutFacts ==
  ASSUME QueueInv, NEW t \in Tasks, queue # <<>>, Head(queue) = t
  PROVE  /\ Without(t) \in Seq(Tasks) /\ Len(Without(t)) = Len(queue) - 1
         /\ Len(queue) \in Nat \ {0} /\ queue[1] = t
         /\ \A i \in 1..Len(Without(t)) : /\ i + 1 \in 1..Len(queue)
                                          /\ Without(t)[i] = queue[i + 1]
                                          /\ Without(t)[i] # t
         /\ \A i \in 1..Len(queue) : queue[i] # t =>
              i - 1 \in 1..Len(Without(t)) /\ Without(t)[i - 1] = queue[i]
<1>1. queue \in Seq(Tasks) /\ Len(queue) \in Nat \ {0} /\ DOMAIN queue = 1..Len(queue)
      /\ 1 \in 1..Len(queue) /\ queue[1] = t
  BY DEF QueueInv, SessionTypes
<1>2. \A i \in 1..Len(queue) : queue[i] = t => i = 1
  BY <1>1 DEF QueueInv, QueueServesCallers
<1> DEFINE k == CHOOSE i \in DOMAIN queue : queue[i] = t
<1>3. k = 1
  BY <1>1, <1>2
<1> HIDE DEF k
<1>4. Without(t) = SubSeq(queue, 1, 0) \o SubSeq(queue, 2, Len(queue))
  <2>1. Without(t) = SubSeq(queue, 1, k - 1) \o SubSeq(queue, k + 1, Len(queue))
    BY DEF Without, k
  <2>2. k - 1 = 0 /\ k + 1 = 2
    BY <1>3
  <2> QED  BY <1>3, <2>1, <2>2
<1>5. SubSeq(queue, 1, 0) = <<>>
  BY SubSeqEmpty
<1>6. /\ SubSeq(queue, 2, Len(queue)) \in Seq(Tasks)
      /\ Len(SubSeq(queue, 2, Len(queue))) = Len(queue) - 1
      /\ \A i \in 1..Len(queue) - 1 : SubSeq(queue, 2, Len(queue))[i] = queue[i + 1]
  <2>1. \A i \in 2..Len(queue) : queue[i] \in Tasks
    BY <1>1
  <2>2. /\ SubSeq(queue, 2, Len(queue)) \in Seq(Tasks)
        /\ Len(SubSeq(queue, 2, Len(queue))) =
             IF 2 <= Len(queue) THEN Len(queue) - 2 + 1 ELSE 0
        /\ \A i \in 1..Len(queue) - 2 + 1 : SubSeq(queue, 2, Len(queue))[i] = queue[2 + i - 1]
    BY <1>1, <2>1, SubSeqProperties
  <2>3. \A i \in 1..Len(queue) - 1 : 2 + i - 1 = i + 1 /\ i \in 1..Len(queue) - 2 + 1
    BY <1>1
  <2>4. Len(queue) - 1 = IF 2 <= Len(queue) THEN Len(queue) - 2 + 1 ELSE 0
    BY <1>1
  <2> QED  BY <2>2, <2>3, <2>4
<1>7. Without(t) = SubSeq(queue, 2, Len(queue))
  BY <1>4, <1>5, <1>6, ConcatEmptySeq
<1>8. /\ Without(t) \in Seq(Tasks) /\ Len(Without(t)) = Len(queue) - 1
      /\ \A i \in 1..Len(Without(t)) : Without(t)[i] = queue[i + 1] /\ i + 1 \in 1..Len(queue)
                                         /\ i + 1 # 1
  BY <1>1, <1>6, <1>7
<1>9. \A i \in 1..Len(queue) : queue[i] # t =>
        i - 1 \in 1..Len(Without(t)) /\ Without(t)[i - 1] = queue[i]
  <2> SUFFICES ASSUME NEW i \in 1..Len(queue), queue[i] # t
               PROVE  i - 1 \in 1..Len(Without(t)) /\ Without(t)[i - 1] = queue[i]
    OBVIOUS
  <2>1. i # 1
    BY <1>1
  <2>2. i - 1 \in 1..Len(Without(t)) /\ (i - 1) + 1 = i
    BY <1>1, <1>8, <2>1
  <2> QED  BY <1>8, <2>2
<1> QED  BY <1>1, <1>2, <1>8, <1>9

-----------------------------------------------------------------------------
(* The queue serves its callers. *)

\* Nothing happens to the queue, and no task goes into a modal or out of it.
LEMMA QueueStays ==
  ASSUME QueueInv, SessionTypes', queue' = queue,
         panel' = panel \/ (panel # None /\ panel' # None /\ panel'.kind = panel.kind),
         \A u \in Tasks : \/ task'[u].stage = task[u].stage
                          \/ ~InModal(u) /\ ~InModal(u)'
  PROVE  QueueInv'
<1>1. \A u \in Tasks : InModal(u)' <=> InModal(u)
  BY DEF InModal
<1>2. queue # <<>> => Head(queue) \in Tasks /\ InModal(Head(queue))
  <2>1. queue # <<>> => 1 \in DOMAIN queue /\ queue[1] = Head(queue) /\ Head(queue) \in Tasks
    BY DEF QueueInv, SessionTypes
  <2> QED  BY <2>1 DEF QueueInv, QueueServesCallers
<1>3. queue # <<>> => task'[Head(queue)].stage = task[Head(queue)].stage
  BY <1>2 DEF InModal
<1> QED  BY <1>1, <1>3 DEF QueueInv, QueueServesCallers

\* A task asks for a modal: it is last in the queue, and shown if alone there.
LEMMA QueuePushes ==
  ASSUME QueueInv, NEW t \in Tasks, NEW modal \in Modals, ~InModal(t),
         task' \in [Tasks -> [kind : AllKinds, stage : Stages]],
         task'[t].stage = modal, \A u \in Tasks \ {t} : task'[u] = task[u],
         queue' = Append(queue, t), panel' = IF panel = None THEN Mounted(modal) ELSE panel,
         inFlight' \in Tasks \cup {None}
  PROVE  QueueInv'
<1>1. /\ task' \in [Tasks -> [kind : AllKinds, stage : Stages]]
      /\ task'[t].stage = modal /\ \A u \in Tasks \ {t} : task'[u] = task[u]
  OBVIOUS
<1>2. /\ queue \in Seq(Tasks) /\ Len(queue) \in Nat /\ queue' \in Seq(Tasks)
      /\ Len(queue') = Len(queue) + 1 /\ queue'[Len(queue) + 1] = t
      /\ \A i \in 1..Len(queue) : queue'[i] = queue[i]
      /\ DOMAIN queue = 1..Len(queue) /\ DOMAIN queue' = 1..Len(queue')
  BY DEF QueueInv, SessionTypes
<1>3. \A i \in 1..Len(queue') : \/ i \in 1..Len(queue) /\ queue'[i] = queue[i]
                                \/ i = Len(queue) + 1
  BY <1>2
<1>4. panel' \in Panels /\ panel' # None
  BY MountedFacts DEF QueueInv, SessionTypes
<1>5. \A i \in 1..Len(queue) : queue[i] # t
  BY <1>2 DEF QueueInv, QueueServesCallers
<1>6. \A u \in Tasks : InModal(u)' <=> \E i \in DOMAIN queue' : queue'[i] = u
  <2>1. InModal(t)' /\ \E i \in DOMAIN queue' : queue'[i] = t
    <3>1. Len(queue) + 1 \in 1..Len(queue')
      BY <1>2
    <3> QED  BY <1>1, <1>2, <3>1 DEF InModal
  <2>2. ASSUME NEW u \in Tasks \ {t}
        PROVE  InModal(u)' <=> \E i \in DOMAIN queue' : queue'[i] = u
    <3>1. InModal(u)' <=> InModal(u)
      BY <1>1 DEF InModal
    <3>2. InModal(u) <=> \E i \in 1..Len(queue) : queue[i] = u
      BY <1>2 DEF QueueInv, QueueServesCallers
    <3>3. \A i \in 1..Len(queue) : i \in 1..Len(queue')
      BY <1>2
    <3> QED  BY <1>2, <1>3, <3>1, <3>2, <3>3
  <2> QED  BY <2>1, <2>2
<1>7. \A i, j \in DOMAIN queue' : queue'[i] = queue'[j] => i = j
  <2>1. \A i, j \in 1..Len(queue) : queue[i] = queue[j] => i = j
    BY <1>2 DEF QueueInv, QueueServesCallers
  <2> QED  BY <1>2, <1>3, <1>5, <2>1
<1>8. queue' # <<>> /\ Head(queue') = queue'[1]
  BY <1>2
<1>9. panel'.kind = task'[Head(queue')].stage
  <2>1. CASE queue = <<>>
    <3>1. panel = None /\ Head(queue') = t
      BY <1>2, <1>8, <2>1 DEF QueueInv, QueueServesCallers
    <3> QED  BY <1>1, <3>1, MountedFacts
  <2>2. CASE queue # <<>>
    <3>1. 1 \in 1..Len(queue) /\ queue[1] = Head(queue) /\ Head(queue) \in Tasks
      BY <1>2, <2>2
    <3>2. panel # None /\ panel.kind = task[Head(queue)].stage
      BY <2>2 DEF QueueInv, QueueServesCallers
    <3> QED  BY <1>1, <1>2, <1>5, <1>8, <3>1, <3>2
  <2> QED  BY <2>1, <2>2
<1>10. SessionTypes'
  BY <1>1, <1>2, <1>4 DEF SessionTypes
<1>11. QueueServesCallers'
  BY <1>4, <1>6, <1>7, <1>8, <1>9 DEF QueueServesCallers
<1> QED  BY <1>10, <1>11 DEF QueueInv

\* The modal on screen settles and the next entry is shown.
LEMMA QueuePops ==
  ASSUME QueueInv, NEW t \in Tasks, queue # <<>>, Head(queue) = t,
         task' \in [Tasks -> [kind : AllKinds, stage : Stages]], ~InModal(t)',
         \A u \in Tasks \ {t} : \/ task'[u].stage = task[u].stage
                                \/ ~InModal(u) /\ ~InModal(u)',
         queue' = Without(t), panel' = Rendered(queue', task') \/ panel' = Rendered(queue', task),
         inFlight' \in Tasks \cup {None}
  PROVE  QueueInv'
<1>1. /\ queue \in Seq(Tasks) /\ DOMAIN queue = 1..Len(queue)
      /\ queue' \in Seq(Tasks) /\ DOMAIN queue' = 1..Len(queue')
  BY WithoutFacts DEF QueueInv, SessionTypes
<1>2. /\ Len(queue') = Len(queue) - 1 /\ Len(queue) \in Nat \ {0}
      /\ \A i \in 1..Len(queue') : i + 1 \in 1..Len(queue) /\ queue'[i] = queue[i + 1] /\ queue'[i] # t
      /\ \A i \in 1..Len(queue) : queue[i] # t => i - 1 \in 1..Len(queue') /\ queue'[i - 1] = queue[i]
  BY WithoutFacts
<1>3. \A u \in Tasks \ {t} : InModal(u)' <=> InModal(u)
  BY DEF InModal
<1>4. \A u \in Tasks : InModal(u)' <=> \E i \in DOMAIN queue' : queue'[i] = u
  <2>1. ASSUME NEW u \in Tasks \ {t}
        PROVE  InModal(u)' <=> \E i \in DOMAIN queue' : queue'[i] = u
    <3>1. InModal(u) <=> \E i \in 1..Len(queue) : queue[i] = u
      BY <1>1 DEF QueueInv, QueueServesCallers
    <3>2. ASSUME NEW i \in 1..Len(queue), queue[i] = u
          PROVE  \E j \in 1..Len(queue') : queue'[j] = u
      BY <1>2, <3>2
    <3>3. ASSUME NEW i \in 1..Len(queue'), queue'[i] = u
          PROVE  \E j \in 1..Len(queue) : queue[j] = u
      BY <1>2, <3>3
    <3> QED  BY <1>1, <1>3, <3>1, <3>2, <3>3
  <2>2. ~\E i \in 1..Len(queue') : queue'[i] = t
    BY <1>2
  <2> QED  BY <1>1, <2>1, <2>2
<1>5. \A i, j \in DOMAIN queue' : queue'[i] = queue'[j] => i = j
  <2>1. \A i, j \in 1..Len(queue) : queue[i] = queue[j] => i = j
    BY <1>1 DEF QueueInv, QueueServesCallers
  <2>2. ASSUME NEW i \in 1..Len(queue'), NEW j \in 1..Len(queue'), queue'[i] = queue'[j]
        PROVE  i = j
    <3>1. i + 1 = j + 1
      BY <1>2, <2>1, <2>2
    <3> QED  BY <3>1
  <2> QED  BY <1>1, <2>2
<1>6. queue' # <<>> => /\ Head(queue') \in Tasks \ {t} /\ InModal(Head(queue'))
                       /\ task'[Head(queue')].stage = task[Head(queue')].stage
  <2> SUFFICES ASSUME queue' # <<>>
               PROVE  /\ Head(queue') \in Tasks \ {t} /\ InModal(Head(queue'))
                      /\ task'[Head(queue')].stage = task[Head(queue')].stage
    OBVIOUS
  <2>1. 1 \in 1..Len(queue') /\ Head(queue') = queue'[1] /\ Head(queue') \in Tasks
    BY <1>1
  <2>2. 1 + 1 \in 1..Len(queue) /\ queue[1 + 1] = Head(queue') /\ Head(queue') # t
    BY <1>2, <2>1
  <2>3. InModal(Head(queue'))
    BY <1>1, <2>1, <2>2 DEF QueueInv, QueueServesCallers
  <2> QED  BY <2>1, <2>2, <2>3 DEF InModal
<1>7. PICK tasks : panel' = Rendered(queue', tasks)
                   /\ (queue' # <<>> => tasks[Head(queue')].stage = task'[Head(queue')].stage)
  BY <1>6
<1>8. panel \in Panels \cup {None}
  BY DEF QueueInv, SessionTypes
<1>9. queue' # <<>> => tasks[Head(queue')].stage \in Modals
  BY <1>6, <1>7 DEF InModal
<1>10. /\ queue' = <<>> => panel' = None
       /\ queue' # <<>> => panel' \in Panels /\ panel' # None
                            /\ panel'.kind = task'[Head(queue')].stage
  BY <1>1, <1>7, <1>8, <1>9, RenderedFacts
<1>11. SessionTypes'
  BY <1>1, <1>10 DEF SessionTypes
<1>12. QueueServesCallers'
  BY <1>4, <1>5, <1>10 DEF QueueServesCallers
<1> QED  BY <1>11, <1>12 DEF QueueInv

-----------------------------------------------------------------------------
(* The unlock. *)

\* The tasks that unlock the wallet.
Requests == {"connect", "sign", "send"}

\* What a task can be about at each stage.
KindFits(r) ==
  /\ r.stage = "display" => r.kind \in Requests \cup {"backup", "restore"}
  /\ r.stage = "awaitSigner" => r.kind \in Requests \cup {"login", "create"}
  /\ r.stage \in {"waiting", "ready", "setupDisplay", "walletSetup", "unlocking"} =>
       r.kind \in Requests
  /\ r.stage \in {"passkeyName", "creating"} => r.kind \in Requests \cup {"create"}
  /\ r.stage = "loggingIn" => r.kind \in Requests \cup {"login"}
  /\ r.stage = "connect" => r.kind = "connect"
  /\ r.stage = "sendTransaction" => r.kind = "send"

\* The unlock under way belongs to a request, and is at a stage of its own.
UnlockInv ==
  /\ \A t \in Tasks : KindFits(task[t])
  /\ inFlight # None => task[inFlight].kind \in Requests
  /\ UnlockIsUnderWay

\* Where the request that unlocks can be.
Unlocks == {"setupDisplay", "walletSetup", "passkeyName", "unlocking", "loggingIn", "creating"}

-----------------------------------------------------------------------------
(* The unlock is under way. *)

\* A step of one task that neither starts nor ends the unlock.
LEMMA UnlockGoesOn ==
  ASSUME SessionTypes, UnlockInv, NEW t \in Tasks, inFlight' = inFlight,
         \A u \in Tasks \ {t} : task'[u] = task[u],
         KindFits(task'[t]),
         inFlight = t => task'[t].stage \in Unlocks /\ task'[t].kind = task[t].kind,
         task'[t].stage = "waiting" => inFlight # None,
         task'[t].stage \in {"unlocking", "setupDisplay", "walletSetup"} => inFlight = t
  PROVE  UnlockInv'
<1>1. /\ inFlight # None => inFlight \in Tasks
  BY DEF SessionTypes
<1>2. \A u \in Tasks : KindFits(task'[u])
  BY DEF UnlockInv
<1>3. inFlight' # None => task'[inFlight'].kind \in Requests
  BY <1>1 DEF UnlockInv
<1>4. UnlockIsUnderWay'
  <2>1. \A u \in Tasks : task'[u].stage = "waiting" => inFlight' # None
    BY DEF UnlockInv, UnlockIsUnderWay
  <2>2. inFlight' # None => task'[inFlight'].stage \in Unlocks
    BY <1>1 DEF UnlockInv, UnlockIsUnderWay, Unlocks
  <2>3. \A u \in Tasks : task'[u].stage \in {"unlocking", "setupDisplay", "walletSetup"} =>
          inFlight' = u
    BY DEF UnlockInv, UnlockIsUnderWay
  <2> QED  BY <2>1, <2>2, <2>3 DEF UnlockIsUnderWay, Unlocks
<1> QED  BY <1>2, <1>3, <1>4 DEF UnlockInv, KindFits

\* A task ends; if the unlock was its own, nobody waits any longer.
LEMMA UnlockEnds ==
  ASSUME SessionTypes, UnlockInv, NEW t \in Tasks, NEW s \in {"idle", "ready"},
         task' = Settled(t, s), inFlight' = Released(t), s = "ready" => inFlight = t
  PROVE  UnlockInv'
<1>1. /\ inFlight # None => inFlight \in Tasks /\ task[inFlight].kind \in Requests
      /\ None \notin Tasks
  BY NoneAssumption DEF SessionTypes, UnlockInv
<1>2. /\ task'[t].stage = s /\ task'[t].kind = task[t].kind
      /\ \A u \in Tasks \ {t} : IF inFlight = t /\ task[u].stage = "waiting"
                                THEN task'[u].stage = s /\ task'[u].kind = task[u].kind
                                ELSE task'[u] = task[u]
  BY SettledFacts DEF Stages
<1>3. \A u \in Tasks : KindFits(task'[u])
  <2>1. KindFits(task'[t])
    BY <1>1, <1>2 DEF KindFits
  <2>2. ASSUME NEW u \in Tasks \ {t}
        PROVE  KindFits(task'[u])
    <3>1. KindFits(task[u])
      BY DEF UnlockInv
    <3> QED  BY <1>2, <3>1 DEF KindFits
  <2> QED  BY <2>1, <2>2
<1>4. CASE inFlight = t
  <2>1. inFlight' = None
    BY <1>4 DEF Released
  <2>2. \A u \in Tasks : task'[u].stage # "waiting"
    BY <1>2, <1>4
  <2>3. \A u \in Tasks : task'[u].stage \notin {"unlocking", "setupDisplay", "walletSetup"}
    BY <1>2, <1>4 DEF UnlockInv, UnlockIsUnderWay
  <2> QED  BY <1>3, <2>1, <2>2, <2>3 DEF UnlockInv, UnlockIsUnderWay, KindFits
<1>5. CASE inFlight # t
  <2>1. inFlight' = inFlight /\ s = "idle" /\ \A u \in Tasks \ {t} : task'[u] = task[u]
    BY <1>2, <1>5 DEF Released
  <2> QED  BY <1>2, <1>3, <1>5, <2>1, UnlockGoesOn
<1> QED  BY <1>4, <1>5

\* A request goes on unlocked, joins the unlock under way, or starts one.
LEMMA UnlockJoined ==
  ASSUME SessionTypes, UnlockInv, NEW t \in Tasks, task[t].stage = "awaitSigner",
         task[t].kind \in Requests, ensureReady(t)
  PROVE  /\ UnlockInv' /\ inFlight' \in Tasks \cup {None}
         /\ task' \in [Tasks -> [kind : AllKinds, stage : Stages]]
         /\ task'[t].stage \in {"ready", "waiting", "unlocking", "setupDisplay"}
         /\ \A u \in Tasks \ {t} : task'[u] = task[u]
<1>1. inFlight # t
  <2>1. None \notin Tasks
    BY NoneAssumption
  <2> QED  BY <2>1 DEF UnlockInv, UnlockIsUnderWay
<1>2. PICK s \in {"ready", "waiting", "unlocking", "setupDisplay"} : task' = At(t, s)
  <2>1. CASE task' = At(t, "ready") \/ task' = At(t, "waiting")
    BY <2>1
  <2>2. CASE task' = At(t, IF stored # None THEN "unlocking" ELSE "setupDisplay")
    <3>1. CASE stored # None
      <4>1. task' = At(t, "unlocking")
        BY <2>2, <3>1
      <4> QED  BY <4>1
    <3>2. CASE stored = None
      <4>1. task' = At(t, "setupDisplay")
        BY <2>2, <3>2
      <4> QED  BY <4>1
    <3> QED  BY <3>1, <3>2
  <2> QED  BY <2>1, <2>2 DEF ensureReady
<1>3. /\ task' \in [Tasks -> [kind : AllKinds, stage : Stages]]
      /\ task'[t].stage = s /\ task'[t].kind = task[t].kind
      /\ \A u \in Tasks \ {t} : task'[u] = task[u]
  BY <1>2, AtFacts DEF Stages, Ceremonies
<1>4. \A u \in Tasks : KindFits(task'[u])
  <2>1. KindFits(task'[t])
    BY <1>3 DEF KindFits
  <2> QED  BY <1>3, <2>1 DEF UnlockInv
<1>5. CASE ~unlocked /\ inFlight = None
  <2>1. inFlight' = t
    BY <1>5 DEF ensureReady
  <2>2. task'[t].stage \in {"unlocking", "setupDisplay"}
    <3>1. task' = At(t, IF stored # None THEN "unlocking" ELSE "setupDisplay")
      BY <1>5 DEF ensureReady
    <3>2. CASE stored # None
      <4>1. task' = At(t, "unlocking")
        BY <3>1, <3>2
      <4> QED  BY <4>1, AtFacts DEF Stages, Ceremonies
    <3>3. CASE stored = None
      <4>1. task' = At(t, "setupDisplay")
        BY <3>1, <3>3
      <4> QED  BY <4>1, AtFacts DEF Stages
    <3> QED  BY <3>2, <3>3
  <2>3. \A u \in Tasks \ {t} : /\ task'[u].stage # "waiting"
                               /\ task'[u].stage \notin {"unlocking", "setupDisplay", "walletSetup"}
    <3>1. None \notin Tasks
      BY NoneAssumption
    <3> QED  BY <1>3, <1>5, <3>1 DEF UnlockInv, UnlockIsUnderWay
  <2>4. UnlockIsUnderWay'
    <3>1. inFlight' # None
      BY <2>1, NoneAssumption
    <3> QED  BY <2>1, <2>2, <2>3, <3>1 DEF UnlockIsUnderWay
  <2>5. inFlight' # None => task'[inFlight'].kind \in Requests
    BY <1>3, <2>1
  <2> QED  BY <1>3, <1>4, <2>1, <2>4, <2>5 DEF UnlockInv, KindFits
<1>6. CASE unlocked \/ inFlight # None
  <2>1. inFlight' = inFlight /\ task'[t].stage \in {"ready", "waiting"}
        /\ (task'[t].stage = "waiting" => inFlight # None)
    <3>1. CASE unlocked /\ task' = At(t, "ready") /\ inFlight' = inFlight
      <4>1. task'[t].stage = "ready"
        BY <3>1, AtFacts DEF Stages
      <4> QED  BY <3>1, <4>1
    <3>2. CASE inFlight # None /\ task' = At(t, "waiting") /\ inFlight' = inFlight
      <4>1. task'[t].stage = "waiting"
        BY <3>2, AtFacts DEF Stages
      <4> QED  BY <3>2, <4>1
    <3> QED  BY <1>6, <3>1, <3>2 DEF ensureReady
  <2>2. UnlockInv'
    BY <1>1, <1>3, <1>4, <2>1, UnlockGoesOn
  <2> QED  BY <1>3, <2>1, <2>2 DEF SessionTypes
<1> QED  BY <1>5, <1>6

-----------------------------------------------------------------------------
(* The actions. *)

\* The queue and the unlock.
SInv == QueueInv /\ UnlockInv

\* The task whose modal is on screen is at that stage.
LEMMA ShowsFacts ==
  ASSUME QueueInv, NEW t \in Tasks, NEW modal, Shows(t, modal)
  PROVE  /\ queue # <<>> /\ Head(queue) = t /\ panel \in Panels /\ panel # None
         /\ panel.kind = modal /\ task[t].stage = modal /\ modal \in Modals
<1>1. queue # <<>> /\ Head(queue) = t /\ panel # None /\ panel \in Panels
  BY DEF Shows, QueueInv, QueueServesCallers, SessionTypes
<1>2. panel.kind = modal /\ task[t].stage = modal
  BY <1>1 DEF Shows, QueueInv, QueueServesCallers
<1> QED  BY <1>1, <1>2 DEF Panels

\* The modal on screen settles, and its task goes on to a stage without one.
LEMMA Settles ==
  ASSUME SInv, NEW t \in Tasks, NEW modal, Shows(t, modal), NEW s \in Stages \ Modals,
         task' = At(t, s), queue' = Without(t), panel' = Rendered(queue', task'),
         inFlight' = inFlight,
         inFlight = t => s \in Unlocks,
         s \notin {"waiting", "unlocking", "setupDisplay", "walletSetup"},
         \A r : r.kind = task[t].kind /\ r.stage = s => KindFits(r)
  PROVE  SInv'
<1>1. queue # <<>> /\ Head(queue) = t /\ task[t].stage = modal /\ modal \in Modals
  BY ShowsFacts DEF SInv
<1>2. SessionTypes /\ inFlight' \in Tasks \cup {None}
  BY DEF SInv, QueueInv, SessionTypes
<1>3. /\ task' \in [Tasks -> [kind : AllKinds, stage : Stages]]
      /\ task'[t].stage = s /\ task'[t].kind = task[t].kind
      /\ \A u \in Tasks \ {t} : task'[u] = task[u]
  BY <1>2, AtFacts
<1>4. QueueInv'
  <2>1. ~InModal(t)'
    BY <1>3 DEF InModal
  <2> QED  BY <1>1, <1>2, <1>3, <2>1, QueuePops DEF SInv
<1>5. UnlockInv'
  BY <1>2, <1>3, UnlockGoesOn DEF SInv
<1> QED  BY <1>4, <1>5 DEF SInv

\* A task that awaits no modal goes on to another stage, or to its modal.
LEMMA GoesOn ==
  ASSUME SInv, NEW t \in Tasks, ~InModal(t),
         task' \in [Tasks -> [kind : AllKinds, stage : Stages]],
         \A u \in Tasks \ {t} : task'[u] = task[u],
         KindFits(task'[t]), inFlight' = inFlight,
         \/ ~InModal(t)' /\ queue' = queue /\ panel' = panel
         \/ /\ InModal(t)' /\ queue' = Append(queue, t)
            /\ panel' = IF panel = None THEN Mounted(task'[t].stage) ELSE panel,
         inFlight = t => task'[t].stage \in Unlocks /\ task'[t].kind = task[t].kind,
         task'[t].stage = "waiting" => inFlight # None,
         task'[t].stage \in {"unlocking", "setupDisplay", "walletSetup"} => inFlight = t
  PROVE  SInv'
<1>1. SessionTypes /\ inFlight' \in Tasks \cup {None}
  BY DEF SInv, QueueInv, SessionTypes
<1>2. UnlockInv'
  BY <1>1, UnlockGoesOn DEF SInv
<1>3. CASE ~InModal(t)' /\ queue' = queue /\ panel' = panel
  <2>1. SessionTypes'
    BY <1>1, <1>3 DEF SessionTypes
  <2>2. QueueInv'
    BY <1>3, <2>1, QueueStays DEF SInv
  <2> QED  BY <1>2, <2>2 DEF SInv
<1>4. CASE /\ InModal(t)' /\ queue' = Append(queue, t)
           /\ panel' = IF panel = None THEN Mounted(task'[t].stage) ELSE panel
  <2>1. task'[t].stage \in Modals
    BY <1>4 DEF InModal
  <2>2. QueueInv'
    BY <1>1, <1>4, <2>1, QueuePushes DEF SInv
  <2> QED  BY <1>2, <2>2 DEF SInv
<1> QED  BY <1>3, <1>4

\* A task without a modal ends, with its unlock.
LEMMA EndsUnqueued ==
  ASSUME SInv, NEW t \in Tasks, ~InModal(t), NEW s \in {"idle", "ready"},
         task' = Settled(t, s), inFlight' = Released(t), s = "ready" => inFlight = t,
         queue' = queue, panel' = panel
  PROVE  SInv'
<1>1. SessionTypes /\ inFlight' \in Tasks \cup {None}
  BY DEF SInv, QueueInv, SessionTypes, Released
<1>2. UnlockInv'
  BY <1>1, UnlockEnds DEF SInv
<1>3. /\ task' \in [Tasks -> [kind : AllKinds, stage : Stages]] /\ task'[t].stage = s
      /\ \A u \in Tasks \ {t} : IF inFlight = t /\ task[u].stage = "waiting"
                                THEN task'[u].stage = s ELSE task'[u] = task[u]
  BY <1>1, SettledFacts DEF Stages
<1>4. \A u \in Tasks : \/ task'[u].stage = task[u].stage
                       \/ ~InModal(u) /\ ~InModal(u)'
  BY <1>3 DEF InModal, Modals
<1>5. SessionTypes'
  BY <1>1, <1>3 DEF SessionTypes
<1>6. QueueInv'
  BY <1>4, <1>5, QueueStays DEF SInv
<1> QED  BY <1>2, <1>6 DEF SInv

\* A task, the unlock it may own, and what it is about.
LEMMA TaskFacts ==
  ASSUME SInv, NEW t \in Tasks
  PROVE  /\ t # None /\ KindFits(task[t])
         /\ task[t].kind \in AllKinds /\ task[t].stage \in Stages
         /\ inFlight = t => task[t].stage \in Unlocks /\ task[t].kind \in Requests
         /\ task[t].stage \in {"unlocking", "setupDisplay", "walletSetup"} => inFlight = t
<1>1. t # None
  BY NoneAssumption
<1>2. task[t] \in [kind : AllKinds, stage : Stages]
  BY DEF SInv, QueueInv, SessionTypes
<1> QED  BY <1>1, <1>2 DEF SInv, UnlockInv, UnlockIsUnderWay, Unlocks

\* A task without a modal goes on to another stage without one.
LEMMA Moves ==
  ASSUME SInv, NEW t \in Tasks, ~InModal(t), NEW s \in Stages \ Modals, task' = At(t, s),
         queue' = queue, panel' = panel, inFlight' = inFlight,
         inFlight = t => s \in Unlocks,
         s \notin {"waiting", "unlocking", "setupDisplay"},
         \A r : r.kind = task[t].kind /\ r.stage = s => KindFits(r)
  PROVE  SInv'
<1>1. SessionTypes
  BY DEF SInv, QueueInv
<1>2. /\ task' \in [Tasks -> [kind : AllKinds, stage : Stages]]
      /\ task'[t].stage = s /\ task'[t].kind = task[t].kind
      /\ \A u \in Tasks \ {t} : task'[u] = task[u]
  BY <1>1, AtFacts
<1>3. ~InModal(t)' /\ s # "walletSetup"
  BY <1>2 DEF InModal, Modals
<1> QED  BY <1>2, <1>3, GoesOn

\* A task without a modal asks for one.
LEMMA Pushes ==
  ASSUME SInv, NEW t \in Tasks, ~InModal(t), NEW modal \in Modals, pushModal(t, modal),
         inFlight' = inFlight,
         inFlight = t => modal \in Unlocks,
         modal = "walletSetup" => inFlight = t,
         \A r : r.kind = task[t].kind /\ r.stage = modal => KindFits(r)
  PROVE  SInv'
<1>1. SessionTypes
  BY DEF SInv, QueueInv
<1>2. /\ task' = At(t, modal) /\ queue' = Append(queue, t)
      /\ panel' = IF panel = None THEN Mounted(modal) ELSE panel
  BY DEF pushModal
<1>3. modal \in Stages
  BY DEF Stages
<1>4. /\ task' \in [Tasks -> [kind : AllKinds, stage : Stages]]
      /\ task'[t].stage = modal /\ task'[t].kind = task[t].kind
      /\ \A u \in Tasks \ {t} : task'[u] = task[u]
  BY <1>1, <1>2, <1>3, AtFacts
<1>5. InModal(t)' /\ modal \notin {"waiting", "unlocking", "setupDisplay"}
  BY <1>4 DEF InModal, Modals
<1>6. panel' = IF panel = None THEN Mounted(task'[t].stage) ELSE panel
  BY <1>2, <1>4
<1> QED  BY <1>2, <1>4, <1>5, <1>6, GoesOn

\* Only the state of the component on screen changes.
LEMMA PanelStep ==
  ASSUME SInv, queue' = queue, task' = task, inFlight' = inFlight,
         \/ panel' = panel
         \/ panel # None /\ panel' \in Panels /\ panel'.kind = panel.kind
  PROVE  SInv'
<1>1. SessionTypes'
  BY DEF SInv, QueueInv, SessionTypes
<1>2. panel' = panel \/ (panel # None /\ panel' # None /\ panel'.kind = panel.kind)
  BY PanelsAssumption
<1>3. QueueInv'
  BY <1>1, <1>2, QueueStays DEF SInv
<1>4. UnlockInv'
  BY DEF SInv, UnlockInv, UnlockIsUnderWay
<1> QED  BY <1>3, <1>4 DEF SInv

\* A task starts.
LEMMA StartStep ==
  ASSUME SInv, NEW t \in Tasks, NEW kind \in Kinds, Start(t, kind)
  PROVE  SInv'
<1>1. /\ task[t].stage = "idle" /\ inFlight' = inFlight /\ kind \in AllKinds
  BY KindsAssumption DEF Start, session
<1>2. ~InModal(t) /\ inFlight # t
  BY <1>1, TaskFacts DEF InModal, Modals, Unlocks
<1>3. PICK s \in {"passkeyName", "awaitSigner", "display"} :
        /\ task' = [task EXCEPT ![t] = [kind |-> kind, stage |-> s]]
        /\ s = "passkeyName" => kind = "create"
        /\ s = "awaitSigner" => kind = "login"
        /\ s = "display" => kind \notin {"create", "login"}
        /\ \/ s # "passkeyName" /\ queue' = queue /\ panel' = panel
           \/ /\ s = "passkeyName" /\ queue' = Append(queue, t)
              /\ panel' = IF panel = None THEN Mounted("passkeyName") ELSE panel
  <2>1. CASE kind = "create"
    BY <2>1 DEF Start
  <2>2. CASE kind = "login"
    BY <2>2 DEF Start
  <2>3. CASE kind \notin {"create", "login"}
    BY <2>3 DEF Start
  <2> QED  BY <2>1, <2>2, <2>3
<1>4. /\ task' \in [Tasks -> [kind : AllKinds, stage : Stages]]
      /\ task'[t].stage = s /\ task'[t].kind = kind
      /\ \A u \in Tasks \ {t} : task'[u] = task[u]
  BY <1>1, <1>3 DEF SInv, QueueInv, SessionTypes, Stages, Modals
<1>5. KindFits(task'[t])
  BY <1>1, <1>3, <1>4 DEF KindFits, AllKinds, Requests
<1>6. \/ ~InModal(t)' /\ queue' = queue /\ panel' = panel
      \/ /\ InModal(t)' /\ queue' = Append(queue, t)
         /\ panel' = IF panel = None THEN Mounted(task'[t].stage) ELSE panel
  BY <1>3, <1>4 DEF InModal, Modals
<1>7. s \notin {"waiting", "unlocking", "setupDisplay", "walletSetup"}
  BY <1>3
<1> QED  BY <1>1, <1>2, <1>4, <1>5, <1>6, <1>7, GoesOn

\* Its display was granted.
LEMMA DisplayedStep ==
  ASSUME SInv, NEW t \in Tasks, Displayed(t)
  PROVE  SInv'
<1>1. inFlight' = inFlight /\ KindFits(task[t])
  BY TaskFacts DEF Displayed, session
<1>2. CASE task[t].stage = "display"
  <2>1. ~InModal(t) /\ inFlight # t /\ task[t].kind \in Requests \cup {"backup", "restore"}
    BY <1>1, <1>2, TaskFacts DEF InModal, Modals, Unlocks, KindFits
  <2>2. CASE task[t].kind = "connect"
    <3>1. pushModal(t, "connect")
      BY <1>2, <2>2 DEF Displayed
    <3> QED  BY <1>1, <2>1, <2>2, <3>1, Pushes DEF Modals, KindFits
  <2>3. CASE task[t].kind = "backup"
    <3>1. pushModal(t, "createBackup")
      BY <1>2, <2>3 DEF Displayed
    <3> QED  BY <1>1, <2>1, <3>1, Pushes DEF Modals, KindFits
  <2>4. CASE task[t].kind = "restore"
    <3>1. pushModal(t, "restoreBackup")
      BY <1>2, <2>4 DEF Displayed
    <3> QED  BY <1>1, <2>1, <3>1, Pushes DEF Modals, KindFits
  <2>5. CASE task[t].kind \in {"sign", "send"}
    <3>1. task' = At(t, "awaitSigner") /\ queue' = queue /\ panel' = panel
      BY <1>2, <2>5 DEF Displayed
    <3> QED  BY <1>1, <2>1, <2>5, <3>1, Moves DEF Stages, Modals, KindFits, Requests
  <2> QED  BY <2>1, <2>2, <2>3, <2>4, <2>5 DEF Requests
<1>3. CASE task[t].stage = "setupDisplay"
  <2>1. ~InModal(t) /\ inFlight = t /\ task[t].kind \in Requests
    BY <1>1, <1>3, TaskFacts DEF InModal, Modals, KindFits
  <2>2. pushModal(t, "walletSetup")
    BY <1>3 DEF Displayed
  <2> QED  BY <1>1, <2>1, <2>2, Pushes DEF Modals, Unlocks, KindFits
<1> QED  BY <1>2, <1>3 DEF Displayed

\* Its display was refused, the signer did not load, or its ceremony failed.
LEMMA FailStep ==
  ASSUME SInv, NEW t \in Tasks, DisplayFailed(t) \/ SignerFailed(t) \/ CeremonyFails(t)
  PROVE  SInv'
<1>1. /\ task[t].stage \in {"display", "setupDisplay", "awaitSigner", "preparing"} \cup Ceremonies
      /\ Fail(t) /\ queue' = queue /\ panel' = panel
  BY DEF DisplayFailed, SignerFailed, CeremonyFails
<1>2. ~InModal(t)
  BY <1>1 DEF InModal, Modals, Ceremonies
<1>3. task' = Settled(t, "idle") /\ inFlight' = Released(t)
  BY <1>1 DEF Fail
<1> QED  BY <1>1, <1>2, <1>3, EndsUnqueued

\* The signer has loaded.
LEMMA SignerReadyStep ==
  ASSUME SInv, NEW t \in Tasks, SignerReady(t)
  PROVE  SInv'
<1>1. /\ task[t].stage = "awaitSigner" /\ queue' = queue /\ panel' = panel
      /\ KindFits(task[t])
  BY TaskFacts DEF SignerReady
<1>2. /\ ~InModal(t) /\ inFlight # t /\ task[t].kind \in Requests \cup {"login", "create"}
  BY <1>1, TaskFacts DEF InModal, Modals, Unlocks, KindFits
<1>3. CASE task[t].kind = "login"
  <2>1. task' = At(t, "loggingIn") /\ inFlight' = inFlight
    BY <1>3 DEF SignerReady
  <2> QED  BY <1>1, <1>2, <1>3, <2>1, Moves DEF Stages, Modals, Ceremonies, KindFits
<1>4. CASE task[t].kind = "create"
  <2>1. task' = At(t, "creating") /\ inFlight' = inFlight
    BY <1>4 DEF SignerReady
  <2> QED  BY <1>1, <1>2, <1>4, <2>1, Moves DEF Stages, Modals, Ceremonies, KindFits
<1>5. CASE task[t].kind \in {"sign", "send"} /\ stored # None
  <2>1. task' = At(t, "ready") /\ inFlight' = inFlight
    BY <1>5 DEF SignerReady
  <2> QED  BY <1>1, <1>2, <1>5, <2>1, Moves DEF Stages, Modals, KindFits, Requests
<1>6. CASE task[t].kind \in Requests /\ ~(task[t].kind \in {"sign", "send"} /\ stored # None)
  <2>1. ensureReady(t)
    BY <1>6 DEF SignerReady, Requests
  <2>2. SessionTypes /\ UnlockInv
    BY DEF SInv, QueueInv
  <2>3. /\ UnlockInv' /\ inFlight' \in Tasks \cup {None}
        /\ task' \in [Tasks -> [kind : AllKinds, stage : Stages]]
        /\ task'[t].stage \in {"ready", "waiting", "unlocking", "setupDisplay"}
        /\ \A u \in Tasks \ {t} : task'[u] = task[u]
    BY <1>1, <1>6, <2>1, <2>2, UnlockJoined
  <2>4. ~InModal(t)'
    BY <2>3 DEF InModal, Modals
  <2>5. SessionTypes'
    BY <1>1, <2>2, <2>3 DEF SessionTypes
  <2>6. QueueInv'
    BY <1>1, <1>2, <2>3, <2>4, <2>5, QueueStays DEF SInv
  <2> QED  BY <2>3, <2>6 DEF SInv
<1> QED  BY <1>2, <1>3, <1>4, <1>5, <1>6 DEF Requests

\* The unlocked request is answered or asks for approval.
LEMMA ReadyStep ==
  ASSUME SInv, NEW t \in Tasks, Ready(t)
  PROVE  SInv'
<1>1. /\ task[t].stage = "ready" /\ inFlight' = inFlight /\ KindFits(task[t])
  BY TaskFacts DEF Ready, session
<1>2. ~InModal(t) /\ inFlight # t /\ task[t].kind \in Requests
  BY <1>1, TaskFacts DEF InModal, Modals, Unlocks, KindFits
<1>3. CASE task[t].kind = "connect"
  <2>1. task' = At(t, "idle") /\ queue' = queue /\ panel' = panel
    BY <1>3 DEF Ready
  <2> QED  BY <1>1, <1>2, <2>1, Moves DEF Stages, Modals, KindFits
<1>4. CASE task[t].kind = "sign"
  <2>1. pushModal(t, "personalSign")
    BY <1>4 DEF Ready
  <2> QED  BY <1>1, <1>2, <2>1, Pushes DEF Modals, KindFits
<1>5. CASE task[t].kind = "send"
  <2>1. pushModal(t, "sendTransaction")
    BY <1>5 DEF Ready
  <2> QED  BY <1>1, <1>2, <1>5, <2>1, Pushes DEF Modals, KindFits
<1> QED  BY <1>2, <1>3, <1>4, <1>5 DEF Requests

\* The user consents.
LEMMA ChooseStep ==
  ASSUME SInv, NEW t \in Tasks, Choose(t)
  PROVE  SInv'
<1>1. inFlight' = inFlight /\ KindFits(task[t])
  BY TaskFacts DEF Choose, session
<1>2. ASSUME NEW modal, Shows(t, modal)
      PROVE  task[t].stage = modal
  BY <1>2, ShowsFacts DEF SInv
<1>3. CASE Shows(t, "connect") /\ removeModal(t, "awaitSigner")
  <2>1. task[t].kind = "connect" /\ inFlight # t
    BY <1>1, <1>2, <1>3, TaskFacts DEF KindFits, Unlocks
  <2>2. \A r : r.kind = task[t].kind /\ r.stage = "awaitSigner" => KindFits(r)
    BY <2>1 DEF KindFits, Requests
  <2> QED  BY <1>1, <1>3, <2>1, <2>2, Settles DEF removeModal, Stages, Modals
<1>4. CASE Shows(t, "sendTransaction") /\ removeModal(t, "preparing")
  <2>1. inFlight # t
    BY <1>2, <1>4, TaskFacts DEF Unlocks
  <2>2. \A r : r.kind = task[t].kind /\ r.stage = "preparing" => KindFits(r)
    BY DEF KindFits
  <2> QED  BY <1>1, <1>4, <2>1, <2>2, Settles DEF removeModal, Stages, Modals, Ceremonies
<1>5. CASE Shows(t, "walletSetup") /\ removeModal(t, "loggingIn")
  <2>1. task[t].kind \in Requests
    BY <1>1, <1>2, <1>5 DEF KindFits
  <2>2. \A r : r.kind = task[t].kind /\ r.stage = "loggingIn" => KindFits(r)
    BY <2>1 DEF KindFits
  <2>3. "loggingIn" \in Unlocks /\ "loggingIn" \in Stages \ Modals
    BY DEF Unlocks, Stages, Modals, Ceremonies
  <2> QED  BY <1>1, <1>5, <2>2, <2>3, Settles DEF removeModal
<1>6. CASE /\ Shows(t, "passkeyName")
           /\ removeModal(t, IF task[t].kind = "create" THEN "awaitSigner" ELSE "creating")
  <2>1. CASE task[t].kind = "create"
    <3>1. removeModal(t, "awaitSigner")
      BY <1>6, <2>1
    <3>2. inFlight # t
      BY <2>1, TaskFacts DEF Requests
    <3>3. \A r : r.kind = task[t].kind /\ r.stage = "awaitSigner" => KindFits(r)
      BY <2>1 DEF KindFits
    <3> QED  BY <1>1, <1>6, <3>1, <3>2, <3>3, Settles DEF removeModal, Stages, Modals
  <2>2. CASE task[t].kind # "create"
    <3>1. removeModal(t, "creating")
      BY <1>6, <2>2
    <3>2. task[t].kind \in Requests
      BY <1>1, <1>2, <1>6, <2>2 DEF KindFits
    <3>3. \A r : r.kind = task[t].kind /\ r.stage = "creating" => KindFits(r)
      BY <3>2 DEF KindFits
    <3>4. "creating" \in Unlocks /\ "creating" \in Stages \ Modals
      BY DEF Unlocks, Stages, Modals, Ceremonies
    <3> QED  BY <1>1, <1>6, <3>1, <3>3, <3>4, Settles DEF removeModal
  <2> QED  BY <2>1, <2>2
<1> QED  BY <1>3, <1>4, <1>5, <1>6 DEF Choose

\* "Create account": the same task asks for the passkey's name, behind the others.
LEMMA ChooseCreateStep ==
  ASSUME SInv, NEW t \in Tasks, ChooseCreate(t)
  PROVE  SInv'
<1>1. /\ Shows(t, "walletSetup") /\ task' = At(t, "passkeyName")
      /\ queue' = Append(Without(t), t) /\ panel' = Rendered(queue', task')
      /\ inFlight' = inFlight
  BY DEF ChooseCreate, session
<1>2. /\ queue # <<>> /\ Head(queue) = t /\ task[t].stage = "walletSetup"
      /\ QueueInv /\ SessionTypes /\ UnlockInv
  BY <1>1, ShowsFacts DEF SInv, QueueInv
<1>3. /\ task' \in [Tasks -> [kind : AllKinds, stage : Stages]]
      /\ task'[t].stage = "passkeyName" /\ task'[t].kind = task[t].kind
      /\ \A u \in Tasks \ {t} : task'[u] = task[u]
  BY <1>1, <1>2, AtFacts DEF Stages, Modals
<1>4. UnlockInv'
  <2>1. task[t].kind \in Requests
    BY <1>2, TaskFacts DEF KindFits
  <2>2. KindFits(task'[t])
    BY <1>3, <2>1 DEF KindFits
  <2> QED  BY <1>1, <1>2, <1>3, <2>2, UnlockGoesOn DEF Unlocks
<1> DEFINE n == Len(queue)
<1>5. /\ n \in Nat \ {0} /\ DOMAIN queue = 1..n
      /\ Without(t) \in Seq(Tasks) /\ Len(Without(t)) = n - 1
      /\ \A i \in 1..n - 1 : i + 1 \in 1..n /\ Without(t)[i] = queue[i + 1] /\ Without(t)[i] # t
      /\ \A i \in 1..n : queue[i] # t => i - 1 \in 1..n - 1 /\ Without(t)[i - 1] = queue[i]
  BY <1>2, WithoutFacts DEF SessionTypes
<1> HIDE DEF n
<1>6. /\ queue' \in Seq(Tasks) /\ Len(queue') = n /\ queue'[n] = t /\ n \in 1..n
      /\ DOMAIN queue' = 1..n /\ queue' # <<>> /\ Head(queue') = queue'[1]
      /\ \A i \in 1..n - 1 : i \in 1..n /\ queue'[i] = Without(t)[i]
      /\ \A i \in 1..n : i \in 1..n - 1 \/ i = n
  <2> DEFINE w == Without(t)
  <2>1. queue' = Append(w, t) /\ w \in Seq(Tasks) /\ Len(w) = n - 1
    BY <1>1, <1>5
  <2> HIDE DEF w
  <2>2. /\ queue' \in Seq(Tasks) /\ Len(queue') = n /\ queue'[n] = t
        /\ \A i \in 1..n - 1 : queue'[i] = w[i]
    BY <1>5, <2>1
  <2> QED  BY <1>5, <2>2 DEF w
<1>7. \A u \in Tasks : InModal(u)' <=> \E i \in DOMAIN queue' : queue'[i] = u
  <2>1. InModal(t)' /\ \E i \in DOMAIN queue' : queue'[i] = t
    BY <1>3, <1>6 DEF InModal, Modals
  <2>2. ASSUME NEW u \in Tasks \ {t}
        PROVE  InModal(u)' <=> \E i \in DOMAIN queue' : queue'[i] = u
    <3>1. InModal(u)' <=> \E i \in 1..n : queue[i] = u
      <4>1. InModal(u)' <=> InModal(u)
        BY <1>3 DEF InModal
      <4>2. InModal(u) <=> \E i \in 1..n : queue[i] = u
        BY <1>2, <1>5 DEF QueueInv, QueueServesCallers
      <4> QED  BY <4>1, <4>2
    <3>2. ASSUME NEW i \in 1..n, queue[i] = u
          PROVE  \E j \in 1..n : queue'[j] = u
      BY <1>5, <1>6, <3>2
    <3>3. ASSUME NEW i \in 1..n, queue'[i] = u
          PROVE  \E j \in 1..n : queue[j] = u
      BY <1>5, <1>6, <3>3
    <3> QED  BY <1>6, <3>1, <3>2, <3>3
  <2> QED  BY <2>1, <2>2
<1>8. \A i, j \in DOMAIN queue' : queue'[i] = queue'[j] => i = j
  <2>1. \A i, j \in 1..n : queue[i] = queue[j] => i = j
    BY <1>2, <1>5 DEF QueueInv, QueueServesCallers
  <2>2. ASSUME NEW i \in 1..n - 1, NEW j \in 1..n - 1, queue'[i] = queue'[j]
        PROVE  i = j
    <3>1. i + 1 = j + 1
      BY <1>5, <1>6, <2>1, <2>2
    <3> QED  BY <1>5, <3>1
  <2>3. \A i \in 1..n - 1 : queue'[i] # queue'[n]
    BY <1>5, <1>6
  <2> QED  BY <1>6, <2>2, <2>3
<1>9. task'[Head(queue')].stage \in Modals
  <2>1. 1 \in 1..n
    BY <1>5
  <2>2. PICK u \in Tasks : u = Head(queue')
    BY <1>6, <2>1
  <2>3. InModal(u)'
    BY <1>6, <1>7, <2>1, <2>2
  <2> QED  BY <2>2, <2>3 DEF InModal
<1>10. panel \in Panels \cup {None}
  BY <1>2 DEF SessionTypes
<1>11. panel' \in Panels /\ panel' # None /\ panel'.kind = task'[Head(queue')].stage
  BY <1>1, <1>6, <1>9, <1>10, RenderedFacts
<1>12. SessionTypes'
  BY <1>1, <1>2, <1>3, <1>6, <1>11 DEF SessionTypes
<1>13. QueueServesCallers'
  BY <1>6, <1>7, <1>8, <1>11 DEF QueueServesCallers
<1> QED  BY <1>4, <1>12, <1>13 DEF SInv, QueueInv

\* The user refuses.
LEMMA CancelStep ==
  ASSUME SInv, NEW t \in Tasks, Cancel(t)
  PROVE  SInv'
<1>1. PICK modal : Shows(t, modal)
  BY DEF Cancel
<1>2. /\ queue' = Without(t) /\ panel' = Rendered(queue', task)
      /\ task' = Settled(t, "idle") /\ inFlight' = Released(t)
  BY DEF Cancel, Fail
<1>3. queue # <<>> /\ Head(queue) = t /\ QueueInv /\ SessionTypes /\ UnlockInv
  BY <1>1, ShowsFacts DEF SInv, QueueInv
<1>4. UnlockInv'
  BY <1>2, <1>3, UnlockEnds
<1>5. /\ task' \in [Tasks -> [kind : AllKinds, stage : Stages]] /\ task'[t].stage = "idle"
      /\ \A u \in Tasks \ {t} : IF inFlight = t /\ task[u].stage = "waiting"
                                THEN task'[u].stage = "idle" ELSE task'[u] = task[u]
  BY <1>2, <1>3, SettledFacts DEF Stages
<1>6. \A u \in Tasks \ {t} : \/ task'[u].stage = task[u].stage
                             \/ ~InModal(u) /\ ~InModal(u)'
  BY <1>5 DEF InModal, Modals
<1>7. ~InModal(t)' /\ inFlight' \in Tasks \cup {None}
  BY <1>2, <1>3, <1>5 DEF InModal, Modals, Released, SessionTypes
<1>8. QueueInv'
  BY <1>2, <1>3, <1>5, <1>6, <1>7, QueuePops
<1> QED  BY <1>4, <1>8 DEF SInv

\* A prepared transaction goes to the signer.
LEMMA PreparedStep ==
  ASSUME SInv, NEW t \in Tasks, Prepared(t)
  PROVE  SInv'
<1>1. /\ task[t].stage = "preparing" /\ queue' = queue /\ panel' = panel /\ inFlight' = inFlight
      /\ task' = At(t, "sending") \/ task' = At(t, "sendingInSession")
  BY DEF Prepared, session
<1>2. ~InModal(t) /\ inFlight # t
  BY <1>1, TaskFacts DEF InModal, Modals, Unlocks
<1>3. \A r : r.stage \in {"sending", "sendingInSession"} => KindFits(r)
  BY DEF KindFits
<1>4. {"sending", "sendingInSession"} \subseteq Stages \ Modals
  BY DEF Stages, Modals, Ceremonies
<1> QED  BY <1>1, <1>2, <1>3, <1>4, Moves

\* A ceremony unlocks the wallet.
LEMMA CeremonySucceedsStep ==
  ASSUME SInv, NEW t \in Tasks, NEW p \in Keys, CeremonySucceeds(t, p)
  PROVE  SInv'
<1>1. /\ task[t].stage \in Ceremonies /\ queue' = queue /\ panel' = panel
      /\ task' = Settled(t, IF inFlight = t THEN "ready" ELSE "idle")
      /\ inFlight' = Released(t)
  BY DEF CeremonySucceeds
<1>2. ~InModal(t)
  BY <1>1 DEF InModal, Modals, Ceremonies
<1>3. CASE inFlight = t
  <2>1. task' = Settled(t, "ready")
    BY <1>1, <1>3
  <2> QED  BY <1>1, <1>2, <1>3, <2>1, EndsUnqueued
<1>4. CASE inFlight # t
  <2>1. task' = Settled(t, "idle")
    BY <1>1, <1>4
  <2> QED  BY <1>1, <1>2, <2>1, EndsUnqueued
<1> QED  BY <1>3, <1>4

\* The signing modal and the backup modals close, each with its task.
LEMMA ModalEndsStep ==
  ASSUME SInv, NEW t \in Tasks, Signed(t) \/ SignEnded(t) \/ Restored(t) \/ BackupClosed(t)
  PROVE  SInv'
<1>1. PICK modal \in {"personalSign", "createBackup", "restoreBackup"} : Shows(t, modal)
  BY DEF Signed, SignEnded, Restored, BackupClosed
<1>2. /\ task' = At(t, "idle") /\ queue' = Without(t) /\ panel' = Rendered(queue', task')
      /\ inFlight' = inFlight
  BY DEF Signed, SignEnded, Restored, BackupClosed, removeModal, session
<1>3. inFlight # t
  BY <1>1, ShowsFacts, TaskFacts DEF SInv, Unlocks
<1>4. \A r : r.kind = task[t].kind /\ r.stage = "idle" => KindFits(r)
  BY DEF KindFits
<1> QED  BY <1>1, <1>2, <1>3, <1>4, Settles DEF Stages, Modals

\* The steps of a signer's call whose modal stays on screen.
InPlace ==
  \/ \E t \in Tasks : startSign(t) \/ SignDenied(t)
  \/ PassphraseGiven \/ BackupMade \/ BackupFailed
  \/ RecoveryFailed \/ \E k \in Keys : KeyRecovered(k)

\* Such a step changes the state of the component, and its kind stays.
LEMMA InPlaceFacts ==
  ASSUME SInv, TypeOK, InPlace
  PROVE  /\ queue' = queue /\ task' = task /\ inFlight' = inFlight
         /\ cached' = cached /\ stored' = stored /\ unlocked' = unlocked /\ strayed' = strayed
         /\ panel # None /\ panel \in Panels /\ panel' \in Panels /\ panel'.kind = panel.kind
         /\ panel'.inherited = panel.inherited
         /\ panel'.by = panel.by \/ panel'.by = sessionKey
<1> USE DEF InPlace
<1>1. /\ queue' = queue /\ task' = task /\ inFlight' = inFlight
      /\ cached' = cached /\ stored' = stored /\ unlocked' = unlocked /\ strayed' = strayed
  BY DEF startSign, SignDenied, PassphraseGiven, BackupMade, BackupFailed, RecoveryFailed,
         KeyRecovered, session, storage, signer
<1>2. panel # None /\ panel \in Panels
  <2>1. ASSUME NEW t \in Tasks, Shows(t, "personalSign")
        PROVE  panel # None
    BY <2>1, ShowsFacts DEF SInv
  <2>2. panel # None
    BY <2>1 DEF startSign, SignDenied, PassphraseGiven, BackupMade, BackupFailed,
                RecoveryFailed, KeyRecovered, Calling
  <2> QED  BY <2>2 DEF SInv, QueueInv, SessionTypes
<1>3. PICK f \in {"confirm", "signing", "prompt", "sealing", "done", "error"}, b \in BOOLEAN :
        \/ panel' = [panel EXCEPT !.phase = f, !.busy = b]
        \/ panel' = [panel EXCEPT !.phase = f, !.busy = b, !.by = sessionKey]
        \/ panel' = [panel EXCEPT !.phase = f, !.by = sessionKey]
  BY DEF startSign, SignDenied, PassphraseGiven, BackupMade, BackupFailed, RecoveryFailed,
         KeyRecovered
<1>4. sessionKey \in Keys \cup {None}
  BY DEF TypeOK
<1>5. /\ panel' \in Panels /\ panel'.kind = panel.kind /\ panel'.inherited = panel.inherited
      /\ panel'.by = panel.by \/ panel'.by = sessionKey
  BY <1>2, <1>3, <1>4 DEF Panels
<1> QED  BY <1>1, <1>2, <1>5

\* The ceremony of the modal on screen starts, goes on or ends.
LEMMA InPlaceStep ==
  ASSUME SInv, TypeOK, InPlace
  PROVE  SInv'
BY InPlaceFacts, PanelStep

\* The page is reloaded.
LEMMA ReloadStep ==
  ASSUME SInv, Reload
  PROVE  SInv'
<1>1. /\ inFlight' = None /\ queue' = <<>> /\ panel' = None
      /\ task' = [t \in Tasks |-> [task[t] EXCEPT !.stage = "idle"]]
  BY DEF Reload
<1>2. /\ task' \in [Tasks -> [kind : AllKinds, stage : Stages]]
      /\ \A t \in Tasks : task'[t].stage = "idle"
  BY <1>1 DEF SInv, QueueInv, SessionTypes, Stages
<1>3. QueueInv'
  BY <1>1, <1>2 DEF QueueInv, SessionTypes, QueueServesCallers, InModal, Modals
<1>4. UnlockInv'
  BY <1>1, <1>2 DEF UnlockInv, UnlockIsUnderWay, KindFits
<1> QED  BY <1>3, <1>4 DEF SInv

\* No task has started.
LEMMA SessionInit == Init => SInv
<1> SUFFICES ASSUME Init  PROVE SInv
  OBVIOUS
<1>1. /\ inFlight = None /\ queue = <<>> /\ panel = None
      /\ task = [t \in Tasks |-> [kind |-> "connect", stage |-> "idle"]]
  BY DEF Init
<1>2. /\ task \in [Tasks -> [kind : AllKinds, stage : Stages]]
      /\ \A t \in Tasks : task[t].stage = "idle"
  BY <1>1 DEF AllKinds, Stages
<1>3. QueueInv
  BY <1>1, <1>2 DEF QueueInv, SessionTypes, QueueServesCallers, InModal, Modals
<1>4. UnlockInv
  BY <1>1, <1>2 DEF UnlockInv, UnlockIsUnderWay, KindFits
<1> QED  BY <1>3, <1>4 DEF SInv

\* Every step keeps queue and unlock.
LEMMA SessionStep == SInv /\ TypeOK /\ [Next]_vars => SInv'
<1> SUFFICES ASSUME SInv, TypeOK, [Next]_vars  PROVE SInv'
  OBVIOUS
<1>1. CASE \E t \in Tasks : TaskStep(t)
  <2>1. PICK t \in Tasks : TaskStep(t)
    BY <1>1
  <2> QED  BY <2>1, StartStep, DisplayedStep, FailStep, SignerReadyStep, ReadyStep, ChooseStep,
              ChooseCreateStep, CancelStep, PreparedStep, CeremonySucceedsStep, ModalEndsStep,
              InPlaceStep
           DEF TaskStep, InPlace
<1>2. CASE InPlace
  BY <1>2, InPlaceStep
<1>3. CASE StrayEnds \/ SignerLoads \/ UNCHANGED vars
  <2>1. queue' = queue /\ task' = task /\ inFlight' = inFlight /\ panel' = panel
    BY <1>3 DEF StrayEnds, SignerLoads, vars, session
  <2> QED  BY <2>1, PanelStep
<1>4. CASE Reload
  BY <1>4, ReloadStep
<1> QED  BY <1>1, <1>2, <1>3, <1>4 DEF Next, InPlace

-----------------------------------------------------------------------------
(* What the modal on screen says of the call behind it, and what the signer   *)
(* knows of the key it signs with.                                            *)

\* No buttons only during a ceremony or by inheritance; a recovery ends when it is
\* done, and a session that answers or was recovered is there.
PanelOk(p, key) ==
  p # None => /\ p.phase = "signing" => p.busy \/ p.inherited
              /\ p.kind = "restoreBackup" /\ p.busy => p.phase # "done"
              /\ p.by # None => key # None
              /\ p.kind = "restoreBackup" /\ p.phase = "done" => key # None

\* Without a session the signer knows the passkey's key or none; in one it knows the
\* session's, unless another was derived since.
KeyOk ==
  /\ sessionKey = None => ~crossed /\ held \in {None, stored}
  /\ sessionKey = None /\ unlocked => held = stored
  /\ sessionKey # None /\ ~crossed => held = sessionKey

\* The screen and the addresses.
KeyInv == PanelOk(panel, sessionKey) /\ KeyOk /\ AddressesFollowKey

\* A session ends with the page only.
LEMMA PanelStays ==
  ASSUME NEW p, NEW a, NEW b, PanelOk(p, a), a # None => b # None
  PROVE  PanelOk(p, b)
BY DEF PanelOk

\* A mounted component is at rest, or calls the signer for a backup.
LEMMA MountedOk ==
  ASSUME NEW kind \in Modals, NEW key
  PROVE  PanelOk(Mounted(kind), key)
BY MountedFacts DEF PanelOk

\* What the next entry finds on screen.
LEMMA RenderedOk ==
  ASSUME SInv, NEW key, PanelOk(panel, key), NEW q \in Seq(Tasks), NEW tasks,
         q # <<>> => tasks[Head(q)].stage \in Modals
  PROVE  PanelOk(Rendered(q, tasks), key)
<1>1. PICK p : p = Rendered(q, tasks)
  OBVIOUS
<1>2. panel \in Panels \cup {None}
  BY DEF SInv, QueueInv, SessionTypes
<1>3. CASE q = <<>>
  BY <1>2, <1>3, RenderedFacts DEF PanelOk
<1>4. CASE q # <<>>
  <2>1. /\ p # None /\ p.kind \in Modals
        /\ \/ p = Mounted(p.kind)
           \/ /\ panel # None /\ p.kind = panel.kind /\ p.phase = panel.phase
              /\ p.inherited /\ (p.busy => panel.busy) /\ p.by = panel.by
    BY <1>1, <1>2, <1>4, RenderedFacts
  <2>2. CASE p = Mounted(p.kind)
    <3>1. PanelOk(Mounted(p.kind), key)
      BY <2>1, MountedOk
    <3> QED  BY <1>1, <2>2, <3>1
  <2>3. CASE /\ panel # None /\ p.kind = panel.kind /\ p.phase = panel.phase
             /\ p.inherited /\ (p.busy => panel.busy) /\ p.by = panel.by
    <3>1. PanelOk(p, key)
      BY <2>1, <2>3 DEF PanelOk
    <3> QED  BY <1>1, <3>1
  <2> QED  BY <2>1, <2>2, <2>3
<1> QED  BY <1>3, <1>4

\* The keys stay, or one is announced: without a session the passkey's.
Announced ==
  UNCHANGED keys \/ \E k : (sessionKey = None => k = stored) /\ KeyDerived(k)

\* A key announced while the addresses stay: only a session's may differ.
LEMMA KeysStay ==
  ASSUME KeyInv, Announced, stored' = stored, cached' = cached, unlocked' = unlocked,
         strayed' = strayed, RestoreDone => RestoreDone'
  PROVE  /\ KeyOk' /\ AddressesFollowKey'
         /\ sessionKey' = sessionKey
<1>1. CASE UNCHANGED keys
  BY <1>1 DEF KeyInv, KeyOk, AddressesFollowKey, SigningKey, keys
<1>2. ASSUME NEW k, sessionKey = None => k = stored, KeyDerived(k)
      PROVE  /\ KeyOk' /\ AddressesFollowKey'
             /\ sessionKey' = sessionKey
  <2>1. /\ held' = k /\ sessionKey' = sessionKey
        /\ ~crossed' => ~crossed /\ (sessionKey = None \/ sessionKey = k)
        /\ sessionKey = None /\ ~crossed => ~crossed'
    BY <1>2 DEF KeyDerived
  <2>2. KeyOk'
    BY <1>2, <2>1 DEF KeyInv, KeyOk
  <2>3. AddressesFollowKey'
    BY <2>1 DEF KeyInv, AddressesFollowKey, SigningKey
  <2> QED  BY <2>1, <2>2, <2>3
<1> QED  BY <1>1, <1>2 DEF Announced

\* The component on screen is the one before, or mounted for the first entry.
LEMMA PushOk ==
  ASSUME SInv, KeyInv, NEW modal \in Modals, Announced,
         panel' = panel \/ panel' = IF panel = None THEN Mounted(modal) ELSE panel,
         stored' = stored, cached' = cached, unlocked' = unlocked, strayed' = strayed
  PROVE  KeyInv'
<1>1. RestoreDone => RestoreDone'
  BY DEF RestoreDone
<1>2. KeyOk' /\ AddressesFollowKey' /\ sessionKey' = sessionKey
  BY <1>1, KeysStay
<1>3. \E p, k : p = panel' /\ k = sessionKey' /\ PanelOk(p, k)
  BY <1>2, MountedOk DEF KeyInv
<1>4. PanelOk(panel, sessionKey)'
  BY <1>3 DEF PanelOk
<1> QED  BY <1>2, <1>4 DEF KeyInv

\* The next entry is rendered.
LEMMA NextOk ==
  ASSUME SInv, KeyInv, SInv', sessionKey' = sessionKey,
         panel' = Rendered(queue', task') \/
           (panel' = Rendered(queue', task)
            /\ (queue' # <<>> => task[Head(queue')].stage \in Modals))
  PROVE  PanelOk(panel, sessionKey)'
<1>1. queue' \in Seq(Tasks)
  BY DEF SInv, QueueInv, SessionTypes
<1>2. queue' # <<>> => task'[Head(queue')].stage \in Modals
  BY PanelsAssumption DEF SInv, QueueInv, SessionTypes, QueueServesCallers, Panels
<1>3. \E p, k : p = panel' /\ k = sessionKey' /\ PanelOk(p, k)
  BY <1>1, <1>2, RenderedOk DEF KeyInv
<1> QED  BY <1>3 DEF PanelOk

\* The modal on screen is not a recovered key, and the next one is rendered.
LEMMA PopOk ==
  ASSUME SInv, KeyInv, SInv', ~RestoreDone, Announced,
         panel' = Rendered(queue', task') \/
           (panel' = Rendered(queue', task)
            /\ (queue' # <<>> => task[Head(queue')].stage \in Modals)),
         stored' = stored, cached' = cached, unlocked' = unlocked, strayed' = strayed
  PROVE  KeyInv'
<1>1. KeyOk' /\ AddressesFollowKey' /\ sessionKey' = sessionKey
  BY KeysStay
<1> QED  BY <1>1, NextOk DEF KeyInv

\* The modal's buttons are those of its own kind.
LEMMA ShowsOther ==
  ASSUME SInv, NEW t \in Tasks, NEW modal, Shows(t, modal),
         modal # "restoreBackup" \/ panel.phase # "done"
  PROVE  ~RestoreDone
BY ShowsFacts DEF SInv, RestoreDone

\* The steps of a task that awaits no modal.
LEMMA QuietOk ==
  ASSUME SInv, KeyInv, NEW t \in Tasks,
         \/ \E kind \in Kinds : Start(t, kind)
         \/ Displayed(t) \/ DisplayFailed(t) \/ SignerReady(t) \/ SignerFailed(t)
         \/ Prepared(t) \/ CeremonyFails(t) \/ (Ready(t) /\ task[t].kind # "connect")
  PROVE  KeyInv'
<1>1. /\ stored' = stored /\ cached' = cached /\ unlocked' = unlocked /\ strayed' = strayed
      /\ Announced
  <2>1. CASE Ready(t) /\ task[t].kind # "connect"
    <3>1. task[t].kind \in {"sign", "send"}
      BY <2>1, TaskFacts DEF KindFits, Ready, Requests
    <3> QED  BY <2>1, <3>1 DEF Ready, session, Announced
  <2>2. CASE ~(Ready(t) /\ task[t].kind # "connect")
    BY <2>2 DEF Start, Displayed, DisplayFailed, SignerReady, SignerFailed, CeremonyFails,
               Prepared, storage, signer, session, Announced
  <2> QED  BY <2>1, <2>2
<1>2. PICK modal \in Modals :
        panel' = panel \/ panel' = IF panel = None THEN Mounted(modal) ELSE panel
  <2>1. ASSUME NEW modal \in Modals, pushModal(t, modal)
        PROVE  \E m \in Modals : panel' = IF panel = None THEN Mounted(m) ELSE panel
    BY <2>1 DEF pushModal
  <2>2. ASSUME NEW kind \in Kinds, Start(t, kind)
        PROVE  panel' = panel \/ panel' = IF panel = None THEN Mounted("passkeyName") ELSE panel
    <3>1. CASE kind = "create"
      BY <2>2, <3>1 DEF Start
    <3>2. CASE kind = "login"
      BY <2>2, <3>2 DEF Start
    <3>3. CASE kind \notin {"create", "login"}
      BY <2>2, <3>3 DEF Start
    <3> QED  BY <3>1, <3>2, <3>3
  <2>3. CASE Displayed(t)
    <3>1. CASE task[t].stage = "display"
      <4>1. CASE task[t].kind = "connect"
        BY <2>1, <2>3, <3>1, <4>1 DEF Displayed, Modals
      <4>2. CASE task[t].kind = "backup"
        BY <2>1, <2>3, <3>1, <4>2 DEF Displayed, Modals
      <4>3. CASE task[t].kind = "restore"
        BY <2>1, <2>3, <3>1, <4>3 DEF Displayed, Modals
      <4>4. CASE task[t].kind \notin {"connect", "backup", "restore"}
        BY <2>3, <3>1, <4>4 DEF Displayed, Modals
      <4> QED  BY <4>1, <4>2, <4>3, <4>4
    <3>2. CASE task[t].stage # "display"
      <4>1. pushModal(t, "walletSetup")
        BY <2>3, <3>2 DEF Displayed
      <4> QED  BY <2>1, <4>1 DEF Modals
    <3> QED  BY <3>1, <3>2
  <2>4. CASE Ready(t) /\ task[t].kind # "connect"
    <3>1. task[t].kind \in {"sign", "send"}
      BY <2>4, TaskFacts DEF KindFits, Ready, Requests
    <3>2. pushModal(t, "personalSign") \/ pushModal(t, "sendTransaction")
      BY <2>4, <3>1 DEF Ready
    <3> QED  BY <2>1, <3>2 DEF Modals
  <2>5. CASE \/ DisplayFailed(t) \/ SignerReady(t) \/ SignerFailed(t) \/ CeremonyFails(t)
             \/ Prepared(t)
    BY <2>5 DEF DisplayFailed, SignerReady, SignerFailed, CeremonyFails, Prepared, Modals
  <2> QED  BY <2>2, <2>3, <2>4, <2>5 DEF Modals
<1> QED  BY <1>1, <1>2, PushOk

\* The modal on screen settles, and the addresses stay.
LEMMA PoppedOk ==
  ASSUME SInv, KeyInv, SInv', NEW t \in Tasks,
         Choose(t) \/ ChooseCreate(t) \/ Cancel(t) \/ SignEnded(t) \/ BackupClosed(t)
  PROVE  KeyInv'
<1>1. /\ stored' = stored /\ cached' = cached /\ unlocked' = unlocked /\ strayed' = strayed
      /\ Announced
  BY DEF Choose, ChooseCreate, Cancel, SignEnded, BackupClosed, storage, signer, session, Announced
<1>2. PICK modal : Shows(t, modal) /\ (modal # "restoreBackup" \/ panel.phase # "done")
  BY DEF Choose, ChooseCreate, Cancel, SignEnded, BackupClosed
<1>3. ~RestoreDone
  BY <1>2, ShowsOther
<1>4. CASE ~Cancel(t)
  <2>1. panel' = Rendered(queue', task')
    BY <1>4 DEF Choose, ChooseCreate, SignEnded, BackupClosed, removeModal
  <2> QED  BY <1>1, <1>3, <2>1, PopOk
<1>5. CASE Cancel(t)
  <2>1. /\ panel' = Rendered(queue', task) /\ queue' = Without(t)
        /\ queue # <<>> /\ Head(queue) = t
    BY <1>5, ShowsFacts DEF Cancel, SInv
  <2>2. queue' # <<>> => task[Head(queue')].stage \in Modals
    <3> SUFFICES ASSUME queue' # <<>>
                 PROVE  task[Head(queue')].stage \in Modals
      OBVIOUS
    <3>1. 1 \in 1..Len(queue') /\ Head(queue') = queue'[1] /\ Head(queue') \in Tasks
      BY DEF SInv, QueueInv, SessionTypes
    <3>2. 1 + 1 \in 1..Len(queue) /\ queue[1 + 1] = Head(queue')
      BY <2>1, <3>1, WithoutFacts DEF SInv
    <3>3. DOMAIN queue = 1..Len(queue)
      BY DEF SInv, QueueInv, SessionTypes
    <3> QED  BY <3>1, <3>2, <3>3 DEF SInv, QueueInv, QueueServesCallers, InModal
  <2> QED  BY <1>1, <1>3, <2>1, <2>2, PopOk
<1> QED  BY <1>4, <1>5

\* The addresses are refreshed from the key the signer knows.
LEMMA RefreshOk ==
  ASSUME SInv, KeyInv, SInv', NEW t \in Tasks,
         \/ \E p \in Keys : CeremonySucceeds(t, p)
         \/ Signed(t) \/ Restored(t) \/ (Ready(t) /\ task[t].kind = "connect")
  PROVE  KeyInv'
<1>1. cached' = held'
  BY DEF CeremonySucceeds, Signed, Restored, Refresh, Ready, keys
<1>2. panel' = panel \/ panel' = Rendered(queue', task')
  BY DEF CeremonySucceeds, Signed, Restored, Ready, removeModal
<1>3. /\ sessionKey' = sessionKey
      /\ \/ held' = held /\ crossed' = crossed
         \/ KeyDerived(stored')
  BY DEF CeremonySucceeds, Signed, Restored, Ready, SignedBy, KeyDerived, keys
<1>4. /\ unlocked' = TRUE \/ unlocked' = unlocked
      /\ stored' = stored \/ KeyDerived(stored')
  BY DEF CeremonySucceeds, Signed, Restored, Ready, session, SignedBy
<1>5. unlocked' /\ sessionKey = None => held' = stored'
  <2>1. CASE Restored(t)
    <3>1. RestoreDone
      BY <2>1, ShowsFacts DEF Restored, RestoreDone, SInv
    <3> QED  BY <3>1 DEF KeyInv, PanelOk, RestoreDone
  <2>2. CASE Ready(t)
    BY <2>2, <1>3 DEF Ready, session, keys, KeyInv, KeyOk
  <2>3. CASE Signed(t)
    <3>1. held = None => KeyDerived(stored)
      BY <2>3 DEF Signed, SignedBy
    <3>2. stored' = stored
      BY <2>3 DEF Signed
    <3> QED  BY <1>3, <3>1, <3>2 DEF KeyInv, KeyOk, KeyDerived
  <2>4. CASE \E p \in Keys : CeremonySucceeds(t, p)
    <3>1. held = None \/ sessionKey = None => KeyDerived(stored')
      BY <2>4 DEF CeremonySucceeds, SignedBy
    <3> QED  BY <3>1 DEF KeyDerived
  <2> QED  BY <2>1, <2>2, <2>3, <2>4
<1>6. KeyOk'
  <2>1. KeyOk
    BY DEF KeyInv
  <2>2. CASE KeyDerived(stored')
    <3>1. /\ held' = stored' /\ sessionKey' = sessionKey
          /\ ~crossed' => sessionKey = None \/ sessionKey = stored'
          /\ sessionKey = None /\ ~crossed => ~crossed'
      BY <2>2 DEF KeyDerived
    <3> QED  BY <2>1, <3>1 DEF KeyOk
  <2>3. CASE ~KeyDerived(stored')
    <3>1. held' = held /\ crossed' = crossed /\ stored' = stored /\ sessionKey' = sessionKey
      BY <1>3, <1>4, <2>3
    <3> QED  BY <1>5, <2>1, <3>1 DEF KeyOk
  <2> QED  BY <2>2, <2>3
<1>7. AddressesFollowKey'
  BY <1>1, <1>3, <1>5, <1>6 DEF AddressesFollowKey, SigningKey, KeyOk
<1>8. PanelOk(panel, sessionKey)'
  <2>1. CASE panel' = panel
    <3>1. \E p, k : p = panel' /\ k = sessionKey' /\ PanelOk(p, k)
      BY <1>3, <2>1 DEF KeyInv
    <3> QED  BY <3>1 DEF PanelOk
  <2>2. CASE panel' = Rendered(queue', task')
    BY <1>3, <2>2, NextOk
  <2> QED  BY <1>2, <2>1, <2>2
<1> QED  BY <1>6, <1>7, <1>8 DEF KeyInv

\* The call of the modal on screen starts, goes on or ends, and the modal stays.
LEMMA InPlaceOk ==
  ASSUME SInv, TypeOK, KeyInv, InPlace
  PROVE  KeyInv'
<1>0. /\ cached' = cached /\ stored' = stored /\ unlocked' = unlocked /\ strayed' = strayed
      /\ panel # None /\ panel \in Panels /\ panel' \in Panels /\ panel'.kind = panel.kind
      /\ panel'.inherited = panel.inherited
      /\ panel'.by = panel.by \/ panel'.by = sessionKey
  BY InPlaceFacts
<1>n. panel' # None
  BY <1>0, PanelsAssumption
<1>1. CASE \E t \in Tasks : startSign(t) \/ SignDenied(t)
  <2>1. PICK t \in Tasks : startSign(t) \/ SignDenied(t)
    BY <1>1
  <2>2. Shows(t, "personalSign") /\ UNCHANGED keys
    BY <2>1 DEF startSign, SignDenied, signer
  <2>3. panel.kind = "personalSign" /\ ~RestoreDone
    BY <2>2, ShowsFacts, ShowsOther DEF SInv
  <2>4. KeyOk' /\ AddressesFollowKey' /\ sessionKey' = sessionKey
    BY <1>0, <2>2, <2>3, KeysStay DEF Announced
  <2>5. panel'.phase = "confirm" \/ (panel'.phase = "signing" /\ panel'.busy)
    BY <1>0, <2>1 DEF startSign, SignDenied, Panels
  <2>6. PanelOk(panel, sessionKey)'
    BY <1>0, <2>3, <2>4, <2>5 DEF PanelOk, KeyInv
  <2> QED  BY <2>4, <2>6 DEF KeyInv
<1>2. CASE PassphraseGiven \/ BackupMade \/ BackupFailed
  <2>1. panel.kind = "createBackup" /\ ~RestoreDone
    BY <1>2 DEF PassphraseGiven, BackupMade, BackupFailed, Calling, RestoreDone
  <2>2. Announced
    <3>1. UNCHANGED keys \/ Sealed
      BY <1>2 DEF PassphraseGiven, BackupMade, BackupFailed, signer
    <3>2. Sealed => \E k : (sessionKey = None => k = stored) /\ KeyDerived(k)
      BY <1>0 DEF Sealed, KeyInv, PanelOk
    <3> QED  BY <3>1, <3>2 DEF Announced
  <2>3. KeyOk' /\ AddressesFollowKey' /\ sessionKey' = sessionKey
    BY <1>0, <2>1, <2>2, KeysStay
  <2>4. panel'.phase \in {"sealing", "done", "error"}
    BY <1>0, <1>2 DEF PassphraseGiven, BackupMade, BackupFailed, Panels
  <2>5. PanelOk(panel, sessionKey)'
    BY <1>0, <2>1, <2>3, <2>4 DEF PanelOk, KeyInv
  <2> QED  BY <2>3, <2>5 DEF KeyInv
<1>3. CASE RecoveryFailed
  <2>1. /\ panel.kind = "restoreBackup" /\ panel.busy
        /\ panel' = [panel EXCEPT !.phase = "error", !.busy = FALSE]
    BY <1>3 DEF RecoveryFailed, Calling
  <2>2. ~RestoreDone
    BY <1>0, <2>1 DEF KeyInv, PanelOk, RestoreDone
  <2>3. panel'.phase = "error" /\ ~panel'.busy
    BY <1>0, <2>1 DEF Panels
  <2>4. CASE UNCHANGED keys
    <3>1. KeyOk' /\ AddressesFollowKey' /\ sessionKey' = sessionKey
      BY <1>0, <2>2, <2>4, KeysStay DEF Announced
    <3>2. PanelOk(panel, sessionKey)'
      BY <1>0, <2>3, <3>1 DEF PanelOk, KeyInv
    <3> QED  BY <3>1, <3>2 DEF KeyInv
  <2>5. CASE \E k \in Keys : HalfRecovers(k)
    <3>1. sessionKey' # None /\ crossed' = TRUE
      BY <2>5, NoneAssumption DEF HalfRecovers
    <3> QED  BY <2>3, <3>1 DEF KeyInv, KeyOk, PanelOk, AddressesFollowKey
  <2> QED  BY <1>3, <2>4, <2>5 DEF RecoveryFailed
<1>4. CASE \E k \in Keys : KeyRecovered(k)
  <2>1. /\ panel.kind = "restoreBackup"
        /\ panel' = [panel EXCEPT !.phase = "done", !.busy = FALSE]
        /\ sessionKey' # None /\ held' = sessionKey'
    BY <1>4, NoneAssumption DEF KeyRecovered, Recovers, Calling
  <2>2. panel'.kind = "restoreBackup" /\ panel'.phase = "done" /\ ~panel'.busy
    BY <1>0, <2>1 DEF Panels
  <2> QED  BY <1>n, <2>1, <2>2 DEF KeyInv, KeyOk, PanelOk, AddressesFollowKey, RestoreDone
<1> QED  BY <1>1, <1>2, <1>3, <1>4 DEF InPlace

\* A call that outlives its modal replaces the key, or announces one.
LEMMA StrayOk ==
  ASSUME KeyInv, StrayEnds
  PROVE  KeyInv'
<1>1. /\ stored' = stored /\ cached' = cached /\ unlocked' = unlocked /\ panel' = panel
  BY DEF StrayEnds, storage, session
<1>2. CASE strayed' = strayed /\ Announced
  <2>1. KeyOk' /\ AddressesFollowKey' /\ sessionKey' = sessionKey
    BY <1>1, <1>2, KeysStay DEF RestoreDone
  <2> QED  BY <1>1, <2>1 DEF KeyInv, PanelOk
<1>3. CASE strayed' = TRUE /\ \E k \in Keys : Recovers(k) \/ HalfRecovers(k)
  <2>1. /\ sessionKey' # None
        /\ crossed' = TRUE \/ held' = sessionKey'
    BY <1>3, NoneAssumption DEF Recovers, HalfRecovers
  <2> QED  BY <1>1, <1>3, <2>1 DEF KeyInv, KeyOk, PanelOk, AddressesFollowKey
<1>4. (strayed' = strayed /\ Announced)
      \/ (strayed' = TRUE /\ \E k \in Keys : Recovers(k) \/ HalfRecovers(k))
  <2>1. PICK kind \in stray :
          \/ UNCHANGED <<keys, strayed>>
          \/ /\ kind = "createBackup" /\ UNCHANGED strayed
             /\ \E k \in {stored, sessionKey} \ {None} : KeyDerived(k)
          \/ /\ kind = "restoreBackup" /\ strayed' = TRUE
             /\ \E k \in Keys : Recovers(k) \/ HalfRecovers(k)
    BY DEF StrayEnds
  <2> QED  BY <2>1 DEF Announced
<1> QED  BY <1>2, <1>3, <1>4

\* The page opens locked, with nothing on screen.
LEMMA KeyInit == Init => KeyInv
BY DEF Init, KeyInv, KeyOk, PanelOk, AddressesFollowKey

\* Every step keeps screen and addresses.
LEMMA KeyStep == SInv /\ TypeOK /\ KeyInv /\ SInv' /\ [Next]_vars => KeyInv'
<1> SUFFICES ASSUME SInv, TypeOK, KeyInv, SInv', [Next]_vars  PROVE KeyInv'
  OBVIOUS
<1>1. CASE \E t \in Tasks : TaskStep(t)
  <2>1. PICK t \in Tasks : TaskStep(t)
    BY <1>1
  <2> QED  BY <2>1, QuietOk, PoppedOk, RefreshOk, InPlaceOk DEF TaskStep, InPlace
<1>2. CASE InPlace
  BY <1>2, InPlaceOk
<1>3. CASE SignerLoads \/ UNCHANGED vars
  <2>1. panel' = panel /\ UNCHANGED storage /\ unlocked' = unlocked /\ UNCHANGED keys
        /\ strayed' = strayed
    BY <1>3 DEF SignerLoads, vars, signer, session
  <2> QED  BY <2>1 DEF KeyInv, KeyOk, PanelOk, AddressesFollowKey, SigningKey, RestoreDone,
                       keys, storage
<1>4. CASE Reload
  BY <1>4 DEF Reload, KeyInv, KeyOk, PanelOk, AddressesFollowKey
<1>5. CASE StrayEnds
  BY <1>5, StrayOk
<1> QED  BY <1>1, <1>2, <1>3, <1>4, <1>5 DEF Next, InPlace

LEMMA TypeInit == Init => TypeOK
<1> SUFFICES ASSUME Init  PROVE TypeOK
  OBVIOUS
<1>1. SessionTypes
  BY SessionInit DEF SInv, QueueInv
<1> QED  BY <1>1 DEF Init, TypeOK, SessionTypes

\* The types of what the page stores and of what it knows of the signer.
Stores ==
  /\ stored \in Keys \cup {None} /\ cached \in Keys \cup {None}
  /\ held \in Keys \cup {None} /\ sessionKey \in Keys \cup {None}
  /\ load \in {"loading", "loaded", "failed"} /\ stray \subseteq Modals
  /\ {hasBackup, strayed, crossed, unlocked} \subseteq BOOLEAN

\* An announced key is a key, or none.
LEMMA AnnouncedTypes ==
  ASSUME Stores, \/ UNCHANGED keys
                 \/ \E k \in Keys \cup {None} : KeyDerived(k) \/ Recovers(k) \/ HalfRecovers(k)
  PROVE  held' \in Keys \cup {None} /\ sessionKey' \in Keys \cup {None} /\ crossed' \in BOOLEAN
BY DEF Stores, keys, KeyDerived, Recovers, HalfRecovers

\* What is stored, cached and held is always a key, or none.
LEMMA TypeStep == TypeOK /\ SInv /\ SInv' /\ [Next]_vars => TypeOK'
<1> SUFFICES ASSUME TypeOK, SInv, SInv', [Next]_vars  PROVE TypeOK'
  OBVIOUS
<1>1. SessionTypes'
  BY DEF SInv, QueueInv
<1>2. Stores /\ (panel # None => panel.by \in Keys \cup {None})
  BY DEF TypeOK, Stores, Panels
<1>3. Stores'
  <2>1. ASSUME NEW t \in Tasks, TaskStep(t)
        PROVE  Stores'
    <3>1. CASE \E kind \in Kinds : Start(t, kind)
      BY <1>2, <3>1 DEF Stores, Start, storage, signer, keys, session
    <3>2. CASE Displayed(t) \/ DisplayFailed(t) \/ SignerReady(t) \/ SignerFailed(t)
                \/ Prepared(t) \/ Cancel(t) \/ ChooseCreate(t)
                \/ startSign(t) \/ SignDenied(t)
      BY <1>2, <3>2 DEF Stores, Displayed, DisplayFailed, SignerReady, SignerFailed, Prepared,
                        Cancel, ChooseCreate, startSign, SignDenied,
                        storage, signer, keys, session
    <3>3. CASE Ready(t)
      <4>1. /\ stored' = stored /\ UNCHANGED keys /\ load' = load /\ hasBackup' = hasBackup
            /\ stray' = stray /\ unlocked' = unlocked
        BY <3>3 DEF Ready, session
      <4>2. task[t].kind \in Requests
        BY <3>3, TaskFacts DEF Ready, KindFits
      <4>3. (cached' = held /\ strayed' = FALSE) \/ (cached' = cached /\ strayed' = strayed)
        BY <3>3, <4>2 DEF Ready, Requests
      <4> QED  BY <1>2, <4>1, <4>3 DEF Stores, keys
    <3>4. CASE Choose(t) \/ BackupClosed(t)
      <4>1. /\ UNCHANGED storage /\ UNCHANGED keys /\ load' = load
            /\ strayed' = strayed /\ unlocked' = unlocked
        BY <3>4 DEF Choose, BackupClosed, session
      <4>2. stray' \subseteq Modals
        BY <1>2, <3>4 DEF Stores, Choose, BackupClosed, removeModal, Abandoned, Modals
      <4> QED  BY <1>2, <4>1, <4>2 DEF Stores, keys, storage
    <3>5. CASE CeremonyFails(t) \/ SignEnded(t)
      <4>1. UNCHANGED keys \/ \E k \in Keys \cup {None} : KeyDerived(k)
        BY <1>2, <3>5 DEF CeremonyFails, SignEnded, Stores
      <4> QED  BY <1>2, <3>5, <4>1, AnnouncedTypes
               DEF Stores, CeremonyFails, SignEnded, storage, session
    <3>6. CASE \E p \in Keys : CeremonySucceeds(t, p)
      <4>1. PICK p \in Keys : CeremonySucceeds(t, p)
        BY <3>6
      <4>2. UNCHANGED keys \/ \E k \in Keys \cup {None} : KeyDerived(k)
        BY <1>2, <4>1 DEF CeremonySucceeds, SignedBy, Stores
      <4>3. /\ stored' = p /\ cached' = held' /\ strayed' = FALSE /\ unlocked' = TRUE
            /\ hasBackup' = hasBackup /\ load' = load /\ stray' = stray
        BY <4>1 DEF CeremonySucceeds, Refresh
      <4> QED  BY <1>2, <4>2, <4>3, AnnouncedTypes DEF Stores
    <3>7. CASE Signed(t)
      <4>1. UNCHANGED keys \/ \E k \in Keys \cup {None} : KeyDerived(k)
        BY <1>2, <3>7 DEF Signed, SignedBy, Stores
      <4> QED  BY <1>2, <3>7, <4>1, AnnouncedTypes DEF Stores, Signed, Refresh
    <3>8. CASE Restored(t)
      <4>1. stray' \subseteq Modals
        BY <1>2, <3>8 DEF Stores, Restored, removeModal, Abandoned, Modals
      <4> QED  BY <1>2, <3>8, <4>1 DEF Stores, Restored, Refresh, keys
    <3> QED  BY <2>1, <3>1, <3>2, <3>3, <3>4, <3>5, <3>6, <3>7, <3>8 DEF TaskStep
  <2>2. CASE SignerLoads \/ Reload \/ PassphraseGiven \/ UNCHANGED vars
    BY <1>2, <2>2 DEF Stores, SignerLoads, Reload, PassphraseGiven, vars,
                      storage, signer, keys, session
  <2>3. CASE BackupMade \/ BackupFailed \/ RecoveryFailed \/ \E k \in Keys : KeyRecovered(k)
    <3>1. UNCHANGED keys
          \/ \E k \in Keys \cup {None} : KeyDerived(k) \/ Recovers(k) \/ HalfRecovers(k)
      BY <1>2, <2>3 DEF BackupMade, BackupFailed, RecoveryFailed, KeyRecovered, Sealed, Stores,
                        Calling
    <3> QED  BY <1>2, <2>3, <3>1, AnnouncedTypes
             DEF Stores, BackupMade, BackupFailed, RecoveryFailed, KeyRecovered, storage, session
  <2>4. CASE StrayEnds
    <3>1. UNCHANGED keys
          \/ \E k \in Keys \cup {None} : KeyDerived(k) \/ Recovers(k) \/ HalfRecovers(k)
      BY <1>2, <2>4 DEF StrayEnds, Stores
    <3>2. strayed' \in BOOLEAN /\ stray' \subseteq stray
      BY <1>2, <2>4 DEF StrayEnds, Stores
    <3> QED  BY <1>2, <2>4, <3>1, <3>2, AnnouncedTypes DEF Stores, StrayEnds, storage, session
  <2> QED  BY <2>1, <2>2, <2>3, <2>4 DEF Next
<1> QED  BY <1>1, <1>3 DEF TypeOK, SessionTypes, Stores

-----------------------------------------------------------------------------
(* Together. *)

\* What is stored, cached and held is a key or none; queue, tasks and screen are
\* what useModalQueue.ts and useWalletSession.ts keep in them.
THEOREM TypeCorrect == Spec => []TypeOK
BY SessionInit, SessionStep, TypeInit, TypeStep, PTL DEF Spec

\* No request waits for a modal that is never shown: the tasks awaiting a modal are
\* exactly those queued, once each, and the first is on screen (useModalQueue.ts).
THEOREM QueueServesCorrect == Spec => []QueueServesCallers
<1>1. SInv => QueueServesCallers
  BY DEF SInv, QueueInv
<1> QED  BY <1>1, SessionInit, SessionStep, TypeInit, TypeStep, PTL DEF Spec

\* A task waits for an unlock only while the request that started it is still in it
\* (useWalletSession.ts ensureReadyImpl): a failed unlock leaves no waiter behind.
THEOREM UnlockCorrect == Spec => []UnlockIsUnderWay
<1>1. SInv => UnlockIsUnderWay
  BY DEF SInv, UnlockInv
<1> QED  BY <1>1, SessionInit, SessionStep, TypeInit, TypeStep, PTL DEF Spec

\* A signing modal without buttons has a ceremony under way, or was taken over from
\* an earlier request of the same kind (SignModals.tsx, ModalHost.tsx).
THEOREM AnswerableCorrect == Spec => []AnswerableUnlessInherited
<1>1. SInv /\ KeyInv => AnswerableUnlessInherited
  BY DEF KeyInv, PanelOk, AnswerableUnlessInherited
<1> QED  BY <1>1, SessionInit, SessionStep, TypeInit, TypeStep,
                KeyInit, KeyStep, PTL DEF Spec

\* Unlocked, and no recovery left unrefreshed or crossed by another key, the stored
\* address is that of the key a signature asked for now is made with: the recovery
\* session's, or the passkey's (refreshAddresses, openRestoreBackup, handleSignDigest).
THEOREM AddressesCorrect == Spec => []AddressesFollowKey
<1>1. SInv /\ KeyInv => AddressesFollowKey
  BY DEF KeyInv
<1> QED  BY <1>1, SessionInit, SessionStep, TypeInit, TypeStep,
                KeyInit, KeyStep, PTL DEF Spec

=============================================================================
