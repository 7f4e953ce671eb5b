----------------------------- MODULE WalletSession -----------------------------
(* The Branding Layer of the example wallet, embedded in a host page:         *)
(* examples/general-wallet. Dapp requests (account connect, personal_sign,    *)
(* eth_sendTransaction) and the wallet's own buttons (create, login, backup,  *)
(* restore) are asynchronous tasks that share four things: the modal queue    *)
(* (useModalQueue.ts), of which the unkeyed ModalHost mounts the first entry, *)
(* the single-flight unlock (useWalletSession.ts), the wallet's local storage *)
(* (storage.ts), and the key the Signing Layer holds. A task runs from await  *)
(* to await; one that waits for a modal has that modal's kind as its stage.   *)
EXTENDS Naturals, Sequences

CONSTANTS Tasks,   \* request and button callbacks
          Kinds,   \* the kinds of task that may start, a subset of AllKinds
          Keys,    \* passkeys, each standing for the key derived from it
          None

AllKinds == {"connect", "sign", "send", "create", "login", "backup", "restore"}

ASSUME KindsAssumption == Kinds \subseteq AllKinds
ASSUME NoneAssumption == None \notin Tasks \cup Keys

Modals == {"walletSetup", "passkeyName", "connect", "personalSign",
           "sendTransaction", "createBackup", "restoreBackup"}
(* Ceremonies a task awaits with no modal of its own on screen.               *)
Ceremonies == {"unlocking", "loggingIn", "creating", "sending", "sendingInSession"}
Stages == {"idle", "display", "awaitSigner", "waiting", "setupDisplay", "ready", "preparing"}
            \cup Modals \cup Ceremonies

VARIABLES
  stored,     \* ows-credential-id: the passkey of the created wallet, or None
  cached,     \* ows-evm-address: whose address eth_accounts answers, or None
  hasBackup,  \* ows-wallet-backup is set
  load,       \* the Signing Layer's iframe: "loading", "loaded" or "failed"
  held,       \* the key whose addresses OWSSigner has cached, or None
  sessionKey, \* the key of the Signing Layer's recovery session, or None
  stray,      \* the backup modals whose call to the signer outlives them
  strayed,    \* such a recoverKey replaced the key and no refresh has followed
  crossed,    \* during a session another key was derived, or it began half way
  unlocked,   \* unlockedRef
  inFlight,   \* unlockInFlightRef: the task whose unlock is under way, or None
  queue,      \* modalQueueRef: the tasks whose modal is pending, in order
  panel,      \* the component ModalHost has mounted, or None
  task        \* of each task its kind and stage

storage == <<stored, cached, hasBackup>>
keys    == <<held, sessionKey, crossed>>
signer  == <<load, keys, stray, strayed>>
session == <<unlocked, inFlight>>
vars == <<storage, signer, session, queue, panel, task>>

(* by: the session key that answers the call under way, None if the passkey.  *)
Panels == [kind: Modals, busy: BOOLEAN, inherited: BOOLEAN, by: Keys \cup {None},
           phase: {"confirm", "signing", "prompt", "sealing", "done", "error"}]

ASSUME PanelsAssumption == None \notin Panels

TypeOK ==
  /\ stored \in Keys \cup {None} /\ cached \in Keys \cup {None}
  /\ held \in Keys \cup {None} /\ sessionKey \in Keys \cup {None}
  /\ load \in {"loading", "loaded", "failed"} /\ stray \subseteq Modals
  /\ {hasBackup, strayed, crossed, unlocked} \subseteq BOOLEAN
  /\ inFlight \in Tasks \cup {None}
  /\ queue \in Seq(Tasks)
  /\ panel \in Panels \cup {None}
  /\ task \in [Tasks -> [kind: AllKinds, stage: Stages]]

Init ==
  /\ stored \in Keys \cup {None} /\ cached \in {stored, None}
  /\ hasBackup \in BOOLEAN /\ (stored = None => ~hasBackup)
  /\ load = "loading" /\ held = None /\ unlocked = FALSE
  /\ sessionKey = None /\ stray = {} /\ strayed = FALSE /\ crossed = FALSE
  /\ inFlight = None /\ queue = <<>> /\ panel = None
  /\ task = [t \in Tasks |-> [kind |-> "connect", stage |-> "idle"]]

-----------------------------------------------------------------------------
(* The modal queue.                                                           *)

InModal(t) == task[t].stage \in Modals
At(t, stage) == [task EXCEPT ![t].stage = stage]

(* The state a modal's component starts with; a backup or restore modal calls *)
(* the signer from its mount effect.                                          *)
Mounted(kind) ==
  [kind |-> kind,
   phase |-> IF kind \in {"createBackup", "restoreBackup"} THEN "prompt" ELSE "confirm",
   busy |-> kind \in {"createBackup", "restoreBackup"},
   inherited |-> FALSE, by |-> None]

(* ModalHost renders the new head of the queue. Its elements have no key: if  *)
(* the kind is the one on screen the same component stays, with its state.    *)
Rendered(q, tasks) ==
  IF q = <<>> THEN None
  ELSE LET kind == tasks[Head(q)].stage
       IN IF panel # None /\ panel.kind = kind
          THEN [panel EXCEPT !.inherited = TRUE,
                             !.busy = panel.busy /\ kind # "personalSign"]
          ELSE Mounted(kind)

(* Unmounting does not stop a call of the signer the component is waiting for. *)
Abandoned(next) ==
  IF /\ panel # None /\ panel.kind \in {"createBackup", "restoreBackup"}
     /\ panel.busy /\ load = "loaded"
     /\ next = None \/ next.kind # panel.kind
  THEN {panel.kind} ELSE {}

(* pushModal: the entry is queued, and shown at once if nothing is.           *)
pushModal(t, modal) ==
  /\ task' = At(t, modal)
  /\ queue' = Append(queue, t)
  /\ panel' = IF panel = None THEN Mounted(modal) ELSE panel

(* The filter of removeModal: an entry has an id of its own (nextModalId), so *)
(* the entry of t goes and the others close up.                               *)
Without(t) ==
  LET k == CHOOSE i \in DOMAIN queue : queue[i] = t
  IN SubSeq(queue, 1, k - 1) \o SubSeq(queue, k + 1, Len(queue))

\* Fault: the queue is not advanced.
RemoveUnadvanced(t, stage) ==
  /\ task' = At(t, stage)
  /\ queue' = Without(t)
  /\ panel' = IF queue' = <<>> THEN None ELSE panel
  /\ stray' = stray

(* removeModal and advanceQueue: the head's promise settles, t goes on.       *)
removeModal(t, stage) ==
  /\ task' = At(t, stage)
  /\ queue' = Without(t)
  /\ panel' = Rendered(queue', task')
  /\ stray' = stray \cup Abandoned(panel')

(* The task whose modal is on screen, and that modal's buttons.               *)
Shows(t, modal) == queue # <<>> /\ Head(queue) = t /\ panel.kind = modal

-----------------------------------------------------------------------------
(* The unlock.                                                                *)

(* ensureReadyImpl: return, join the unlock under way, or start one.          *)
ensureReady(t) ==
  \/ /\ unlocked
     /\ task' = At(t, "ready") /\ UNCHANGED inFlight
  \/ /\ ~unlocked /\ inFlight # None
     /\ task' = At(t, "waiting") /\ UNCHANGED inFlight
  \/ /\ ~unlocked /\ inFlight = None
     /\ task' = At(t, IF stored # None THEN "unlocking" ELSE "setupDisplay")
     /\ inFlight' = t

(* The owner's finally forgets the unlock; what became of it, its waiters get.*)
Settled(t, stage) ==
  IF inFlight = t
  THEN [u \in Tasks |-> IF u = t \/ task[u].stage = "waiting"
                        THEN [task[u] EXCEPT !.stage = stage] ELSE task[u]]
  ELSE At(t, stage)
Released(t) == IF inFlight = t THEN None ELSE inFlight

\* Fault: no finally around the await of the unlock.
FailUnreleased(t) == task' = At(t, "idle") /\ UNCHANGED inFlight

(* A task fails: it hides its display and its caller sees the error.          *)
Fail(t) == task' = Settled(t, "idle") /\ inFlight' = Released(t)

-----------------------------------------------------------------------------
(* Tasks from start to the modal or ceremony they are about.                  *)

(* registerAccountConnect, SignHelper, OnboardingPanel and MainPanel. With an *)
(* address in the cache eth_requestAccounts answers without starting a task.  *)
Offered(kind) ==
  CASE kind = "connect" -> cached = None
    [] kind \in {"create", "login"} -> stored = None /\ ~unlocked
    [] kind = "backup" -> unlocked
    [] kind = "restore" -> stored # None /\ ~unlocked /\ hasBackup
    [] OTHER -> TRUE

Start(t, kind) ==
  /\ task[t].stage = "idle" /\ Offered(kind)
  /\ LET begun(stage) == [task EXCEPT ![t] = [kind |-> kind, stage |-> stage]]
     IN CASE kind = "create" ->
               /\ task' = begun("passkeyName")
               /\ queue' = Append(queue, t)
               /\ panel' = IF panel = None THEN Mounted("passkeyName") ELSE panel
          [] kind = "login" ->
               task' = begun("awaitSigner") /\ UNCHANGED <<queue, panel>>
          [] OTHER -> task' = begun("display") /\ UNCHANGED <<queue, panel>>
  /\ UNCHANGED <<storage, signer, session>>

(* requestDisplay was answered: ask, or (SignHelper) onboard first.           *)
Displayed(t) ==
  /\ \/ /\ task[t].stage = "display"
        /\ CASE task[t].kind = "connect" -> pushModal(t, "connect")
             [] task[t].kind = "backup"  -> pushModal(t, "createBackup")
             [] task[t].kind = "restore" -> pushModal(t, "restoreBackup")
             [] OTHER -> task' = At(t, "awaitSigner") /\ UNCHANGED <<queue, panel>>
     \/ task[t].stage = "setupDisplay" /\ pushModal(t, "walletSetup")
  /\ UNCHANGED <<storage, signer, session>>

(* requestDisplay was refused or timed out (module Display).                  *)
DisplayFailed(t) ==
  /\ task[t].stage \in {"display", "setupDisplay"}
  /\ Fail(t)
  /\ UNCHANGED <<storage, signer, unlocked, queue, panel>>

(* awaitSignerReady resolved. ensureOnboardedForSigning lets a created wallet *)
(* sign while it is locked.                                                   *)
SignerReady(t) ==
  /\ task[t].stage = "awaitSigner" /\ load = "loaded"
  /\ CASE task[t].kind = "login"  -> task' = At(t, "loggingIn") /\ UNCHANGED inFlight
       [] task[t].kind = "create" -> task' = At(t, "creating") /\ UNCHANGED inFlight
       [] task[t].kind \in {"sign", "send"} /\ stored # None ->
            task' = At(t, "ready") /\ UNCHANGED inFlight
       [] OTHER -> ensureReady(t)
  /\ UNCHANGED <<storage, signer, unlocked, queue, panel>>

SignerFailed(t) ==
  /\ task[t].stage = "awaitSigner" /\ load = "failed"
  /\ Fail(t)
  /\ UNCHANGED <<storage, signer, unlocked, queue, panel>>

(* After the unlock: connect stores the signer's address and answers, the     *)
(* signing requests ask for approval.                                         *)
Ready(t) ==
  /\ task[t].stage = "ready"
  /\ CASE task[t].kind = "connect" ->
            /\ cached' = held /\ strayed' = FALSE /\ task' = At(t, "idle")
            /\ UNCHANGED <<queue, panel>>
       [] task[t].kind = "sign" -> pushModal(t, "personalSign") /\ UNCHANGED <<cached, strayed>>
       [] task[t].kind = "send" -> pushModal(t, "sendTransaction") /\ UNCHANGED <<cached, strayed>>
  /\ UNCHANGED <<stored, hasBackup, load, keys, stray, session>>

-----------------------------------------------------------------------------
(* What the user answers in the modals of the setup, connect and send.        *)

Choose(t) ==
  /\ \/ Shows(t, "connect")         /\ removeModal(t, "awaitSigner")
     \/ Shows(t, "sendTransaction") /\ removeModal(t, "preparing")
     \/ Shows(t, "walletSetup")     /\ removeModal(t, "loggingIn")
     \/ Shows(t, "passkeyName")
          /\ removeModal(t, IF task[t].kind = "create" THEN "awaitSigner" ELSE "creating")
  /\ UNCHANGED <<storage, load, keys, strayed, session>>

(* "Create account" in the setup modal goes on to the passkey's name.         *)
ChooseCreate(t) ==
  /\ Shows(t, "walletSetup")
  /\ task' = At(t, "passkeyName")
  /\ queue' = Append(Without(t), t)
  /\ panel' = Rendered(queue', task')
  /\ UNCHANGED <<storage, signer, session>>

Cancel(t) ==
  /\ \E modal \in {"connect", "sendTransaction", "walletSetup", "passkeyName"} : Shows(t, modal)
  /\ queue' = Without(t)
  /\ panel' = Rendered(queue', task)
  /\ Fail(t)
  /\ UNCHANGED <<storage, signer, unlocked>>

-----------------------------------------------------------------------------
(* Ceremonies without a modal.                                                *)

(* KeyDerived: OWSSigner caches the addresses of key k.                       *)
KeyDerived(k) ==
  /\ held' = k
  /\ crossed' = (crossed \/ sessionKey \notin {None, k})
  /\ UNCHANGED sessionKey

(* signDigest answered.  The passkey's key is announced; a session's is not,  *)
(* and OWSSigner asks the passkey if it knows no address.                     *)
SignedBy(key) ==
  IF key = None \/ held = None THEN KeyDerived(stored) ELSE UNCHANGED keys

(* refreshAddresses reads the addresses OWSSigner has just cached.            *)
Refresh == cached' = held' /\ strayed' = FALSE

(* The transaction is prepared and signDigest called: it is signed in the     *)
(* recovery session if there is one by now, or the passkey is asked.          *)
Prepared(t) ==
  /\ task[t].stage = "preparing"
  /\ task' = At(t, IF sessionKey = None THEN "sending" ELSE "sendingInSession")
  /\ UNCHANGED <<storage, signer, session, queue, panel>>

(* createNewWallet, loginWithPasskey, unlockWithStoredCredential and          *)
(* onSigningAuthenticated: the credential id is stored, the addresses         *)
(* refreshed and the wallet unlocked in one go.  getPublicKey and             *)
(* createCredential ask the passkey, whatever the session.                    *)
CeremonySucceeds(t, p) ==
  /\ task[t].stage \in Ceremonies
  /\ task[t].stage \in {"unlocking", "sending", "sendingInSession"} => p = stored
  /\ stored' = p
  /\ IF task[t].stage = "sendingInSession" THEN SignedBy(sessionKey) ELSE KeyDerived(p)
  /\ Refresh /\ unlocked' = TRUE
  /\ task' = Settled(t, IF inFlight = t THEN "ready" ELSE "idle")
  /\ inFlight' = Released(t)
  /\ UNCHANGED <<hasBackup, load, stray, queue, panel>>

(* A signature may fail after its key was announced.                          *)
CeremonyFails(t) ==
  /\ task[t].stage \in Ceremonies \cup {"preparing"}
  /\ UNCHANGED keys \/ (task[t].stage = "sending" /\ KeyDerived(stored))
  /\ Fail(t)
  /\ UNCHANGED <<storage, load, stray, strayed, unlocked, queue, panel>>

-----------
(* PersonalSignModal.                                                         *)

startSign(t) ==
  /\ Shows(t, "personalSign") /\ panel.phase = "confirm"
  /\ panel' = [panel EXCEPT !.phase = "signing", !.busy = TRUE, !.by = sessionKey]
  /\ UNCHANGED <<storage, signer, session, queue, task>>

(* The signature resolves the modal; then onSigningAuthenticated.             *)
Signed(t) ==
  /\ Shows(t, "personalSign") /\ panel.busy
  /\ task' = At(t, "idle")
  /\ queue' = Without(t)
  /\ panel' = Rendered(queue', task')
  /\ SignedBy(panel.by) /\ Refresh /\ unlocked' = TRUE
  /\ UNCHANGED <<stored, hasBackup, load, stray, inFlight>>

\* Fault: the phase is not reset.
SignDeniedInPlace(t) ==
  /\ Shows(t, "personalSign") /\ panel.busy
  /\ panel' = [panel EXCEPT !.busy = FALSE]
  /\ UNCHANGED <<storage, signer, session, queue, task>>

(* A denied ceremony returns to the question.                                 *)
SignDenied(t) ==
  /\ Shows(t, "personalSign") /\ panel.busy
  /\ panel' = [panel EXCEPT !.phase = "confirm", !.busy = FALSE]
  /\ UNCHANGED <<storage, signer, session, queue, task>>

(* "Reject", or an error of the ceremony.                                     *)
SignEnded(t) ==
  /\ Shows(t, "personalSign") /\ (panel.busy \/ panel.phase = "confirm")
  /\ UNCHANGED keys \/ (panel.busy /\ panel.by = None /\ KeyDerived(stored))
  /\ task' = At(t, "idle")
  /\ queue' = Without(t)
  /\ panel' = Rendered(queue', task')
  /\ UNCHANGED <<storage, load, stray, strayed, session>>

-----------------------------------------------------------------------------
(* CreateBackupModal and RestoreBackupModal.                                  *)

Calling(kind) == panel # None /\ panel.kind = kind /\ panel.busy

(* The passphrase of a backup is given: the session's key or the passkey's.   *)
PassphraseGiven ==
  /\ Calling("createBackup") /\ load = "loaded" /\ panel.phase = "prompt"
  /\ panel' = [panel EXCEPT !.phase = "sealing", !.by = sessionKey]
  /\ UNCHANGED <<storage, signer, session, queue, task>>

(* createRecoveryData announces the key, in a session too.                    *)
Sealed == KeyDerived(IF panel.by = None THEN stored ELSE panel.by)

BackupMade ==
  /\ Calling("createBackup") /\ panel.phase = "sealing"
  /\ panel' = [panel EXCEPT !.phase = "done", !.busy = FALSE]
  /\ hasBackup' = TRUE /\ Sealed
  /\ UNCHANGED <<stored, cached, load, stray, strayed, session, queue, task>>

BackupFailed ==
  /\ Calling("createBackup")
  /\ panel' = [panel EXCEPT !.phase = "error", !.busy = FALSE]
  /\ UNCHANGED keys \/ (panel.phase = "sealing" /\ Sealed)
  /\ UNCHANGED <<storage, load, stray, strayed, session, queue, task>>

(* recoverKey installs a session with the backed-up key and announces it.     *)
Recovers(k) == held' = k /\ sessionKey' = k /\ crossed' = FALSE

(* It fails after the session is installed.                                   *)
HalfRecovers(k) == held' \in {held, k} /\ sessionKey' = k /\ crossed' = TRUE

KeyRecovered(k) ==
  /\ Calling("restoreBackup") /\ load = "loaded"
  /\ panel' = [panel EXCEPT !.phase = "done", !.busy = FALSE]
  /\ Recovers(k)
  /\ UNCHANGED <<storage, load, stray, strayed, session, queue, task>>

RecoveryFailed ==
  /\ Calling("restoreBackup")
  /\ panel' = [panel EXCEPT !.phase = "error", !.busy = FALSE]
  /\ UNCHANGED keys \/ (load = "loaded" /\ \E k \in Keys : HalfRecovers(k))
  /\ UNCHANGED <<storage, load, stray, strayed, session, queue, task>>

\* Fault: the addresses are not refreshed.
RestoredSilently(t) ==
  /\ Shows(t, "restoreBackup") /\ panel.phase = "done"
  /\ removeModal(t, "idle")
  /\ unlocked' = TRUE
  /\ UNCHANGED <<storage, load, keys, strayed, inFlight>>

(* "Done" of a restore: openRestoreBackup unlocks and refreshes.              *)
Restored(t) ==
  /\ Shows(t, "restoreBackup") /\ panel.phase = "done"
  /\ removeModal(t, "idle")
  /\ unlocked' = TRUE /\ UNCHANGED keys /\ Refresh
  /\ UNCHANGED <<stored, hasBackup, load, inFlight>>

(* Cancel, Close, and the Done of a backup.                                   *)
BackupClosed(t) ==
  /\ \/ Shows(t, "createBackup")
     \/ Shows(t, "restoreBackup") /\ panel.phase # "done"
  /\ removeModal(t, "idle")
  /\ UNCHANGED <<storage, load, keys, strayed, session>>

(* A call whose modal is gone still ends, with nobody to refresh: a backup    *)
(* announces the key that was chosen at its passphrase.                       *)
StrayEnds ==
  /\ \E kind \in stray :
       /\ stray' = stray \ {kind}
       /\ \/ UNCHANGED <<keys, strayed>>
          \/ /\ kind = "createBackup" /\ UNCHANGED strayed
             /\ \E k \in {stored, sessionKey} \ {None} : KeyDerived(k)
          \/ /\ kind = "restoreBackup" /\ strayed' = TRUE
             /\ \E k \in Keys : Recovers(k) \/ HalfRecovers(k)
  /\ UNCHANGED <<storage, load, session, queue, panel, task>>

-----------------------------------------------------------------------------
SignerLoads ==
  /\ load = "loading" /\ load' \in {"loaded", "failed"}
  /\ UNCHANGED <<storage, keys, stray, strayed, session, queue, panel, task>>

(* The page is reloaded: only the local storage survives.                     *)
Reload ==
  /\ load' = "loading" /\ held' = None /\ unlocked' = FALSE
  /\ sessionKey' = None /\ stray' = {} /\ strayed' = FALSE /\ crossed' = FALSE
  /\ inFlight' = None /\ queue' = <<>> /\ panel' = None
  /\ task' = [t \in Tasks |-> [task[t] EXCEPT !.stage = "idle"]]
  /\ UNCHANGED storage

TaskStep(t) ==
  \/ \E kind \in Kinds : Start(t, kind)
  \/ Displayed(t) \/ DisplayFailed(t) \/ SignerReady(t) \/ SignerFailed(t)
  \/ Ready(t) \/ Choose(t) \/ ChooseCreate(t) \/ Cancel(t)
  \/ \E p \in Keys : CeremonySucceeds(t, p)
  \/ Prepared(t) \/ CeremonyFails(t)
  \/ startSign(t) \/ Signed(t) \/ SignDenied(t) \/ SignEnded(t)
  \/ Restored(t) \/ BackupClosed(t)

Next ==
  \/ \E t \in Tasks : TaskStep(t)
  \/ PassphraseGiven \/ BackupMade \/ BackupFailed
  \/ (\E k \in Keys : KeyRecovered(k)) \/ RecoveryFailed \/ StrayEnds \/ SignerLoads \/ Reload

Spec == Init /\ [][Next]_vars

-----------------------------------------------------------------------------
(* Every task whose promise waits for a modal has exactly one entry in the    *)
(* queue, nothing else has, and the first entry is the one on screen: no      *)
(* request waits for a modal that is never shown (useModalQueue.ts).          *)
QueueServesCallers ==
  /\ \A t \in Tasks : InModal(t) <=> \E i \in DOMAIN queue : queue[i] = t
  /\ \A i, j \in DOMAIN queue : queue[i] = queue[j] => i = j
  /\ panel = None <=> queue = <<>>
  /\ panel # None => panel.kind = task[Head(queue)].stage

(* The single flight: a task waits for an unlock only while the task that     *)
(* started it is still in it, so that a failed unlock is retried and never    *)
(* waited for (useWalletSession.ts ensureReadyImpl).                          *)
UnlockIsUnderWay ==
  /\ \A t \in Tasks : task[t].stage = "waiting" => inFlight # None
  /\ inFlight # None =>
       task[inFlight].stage \in {"setupDisplay", "walletSetup", "passkeyName",
                                "unlocking", "loggingIn", "creating"}
  /\ \A t \in Tasks : task[t].stage \in {"unlocking", "setupDisplay", "walletSetup"}
                       => inFlight = t

(* A signing modal that says "Confirm in the signing panel..." and offers no  *)
(* button has a ceremony under way, unless the component was taken over from  *)
(* an earlier request of the same kind (SignModals.tsx, ModalHost.tsx).       *)
AnswerableUnlessInherited ==
  panel # None /\ panel.phase = "signing" => panel.busy \/ panel.inherited

(* Not so in the code: a signing modal without buttons has a ceremony under   *)
(* way.  The next signing request of the same kind inherits the phase, since  *)
(* ModalHost gives the modals no key (ModalHost.tsx:30-37).                   *)
PromptAnswerable == panel # None /\ panel.phase = "signing" => panel.busy

(* The key that a signature asked for now is made with: a recovery session's  *)
(* or that of the wallet's passkey (handleSignDigest).                        *)
SigningKey == IF sessionKey = None THEN stored ELSE sessionKey

(* The user has a recovered key on screen and has not closed the modal.       *)
RestoreDone == panel # None /\ panel.kind = "restoreBackup" /\ panel.phase = "done"

(* While the wallet is unlocked, the address eth_accounts answers from the    *)
(* local storage is the one of the key the Signing Layer signs with, except   *)
(* between a recovery and the refresh that follows its "Done", after a        *)
(* recovery whose modal was cancelled or that failed half way, and once a     *)
(* passkey has answered during a session with another key, until the next     *)
(* recovery (refreshAddresses, openRestoreBackup).                            *)
AddressesFollowKey ==
  unlocked /\ ~strayed /\ ~crossed /\ ~RestoreDone => cached = SigningKey

(* Not so in the code: with no recovery left unrefreshed, an unlocked wallet  *)
(* has the address it signs for.  getPublicKey, with which it unlocks and     *)
(* logs in, asks the passkey whatever the session, signDigest uses the        *)
(* session (handlers.js:403, 839); and a recovery that fails half way leaves  *)
(* one (handlers.js:653-658).                                                 *)
RecoveredAddressSigns == unlocked /\ stray = {} /\ ~strayed /\ ~RestoreDone => cached = SigningKey

=============================================================================
