---------------------------- MODULE SigningLayer ----------------------------
(***************************************************************************)
(* The Signing Layer document (packages/ows-signer): one message listener, *)
(* one DOM root, one ceremony lock, one recovery session, and as many      *)
(* suspended request handlers as the Branding Layer has posted requests.   *)
(*                                                                         *)
(* A step is a run of the event loop between two awaits: everything a      *)
(* handler does without yielding is one action.  The actors are the        *)
(* handlers (one per request), the user at the panel, the authenticator    *)
(* and the parent, which may post a request or a cancel at any time.       *)
(***************************************************************************)
EXTENDS SignerMethods

CONSTANTS Requests,   \* correlation ids, each used for one request
          NoRequest,  \* stands for null
          Methods     \* the methods the parent may call

ASSUME RequestsAssumption == NoRequest \notin Requests
ASSUME MethodsAssumption  == Methods \subseteq AllMethods

Validated ==   \* methods whose parameters are checked before anything happens
  AllMethods \ {"getVersion", "clearRecoverySession", "revealPrivateKey",
                "importPrivateKey", "getPublicKey"}
MayBeEmpty   == {"signDigest", "encryptAES256", "decryptAES256"}
WithAssertion == Creations \cup {"getPublicKey", "getPublicKey.challenge",
                                 "revealPrivateKey", "executeBatch.challenge"}
KeyUse       == {"signDigest", "encryptAES256", "decryptAES256", "executeBatch"}
Passphrased  == {"createRecoveryData", "recoverKey", "recoverKey.rebind"}

\* The key-using stages of a request, in the order the handlers run them.
Stages == {"sign", "seal", "open"}
WorkOf(m) == CASE m = "signDigest"    -> {{"sign"}}
               [] m = "encryptAES256" -> {{"seal"}}
               [] m = "decryptAES256" -> {{"open"}}
               [] m \in {"executeBatch", "executeBatch.challenge"} -> SUBSET Stages
               [] OTHER -> {{}}
Stage(w)  == IF "sign" \in w THEN "sign" ELSE IF "seal" \in w THEN "seal" ELSE "open"

Phases   == {"idle", "start", "passphrase", "keyEntry", "confirm", "passkey",
             "derive", "seed", "pub", "work", "wrap", "decrypt", "dismiss", "done"}
PanelKinds == {"none", "confirm", "passphrase", "keyEntry", "key"}
Contents   == {"empty", "key", "zero"}   \* of a 32-byte scalar buffer
OrNone(S)  == S \cup {NoRequest}

VARIABLES
  method,      \* the method of each request
  pc,          \* where each handler is suspended
  work,        \* the stages each request still has to run, the current one included
  reply,       \* the terminal event posted for each request, "none" before it
  derived,     \* the requests for which KeyDerived was posted
  ceremony,    \* ceremonyPromise / ceremonyAbortController: the lock's owner
  aborted,     \* the ceremonies whose AbortController was aborted
  waiter,      \* pendingConfirmReject: whose Confirm promise is waiting
  panel,       \* what the DOM root shows, for whom, and whose text or click it carries
  confirmedBy, \* revealConfirmedWhileInteractive: the request whose click set it
  session,     \* recoveryPrivateKey: the request that allocated that buffer
  buf,         \* content of the scalar buffer each request allocated
  source,      \* the request whose buffer a handler reads
  tainted,     \* requests that read a zero-filled scalar
  passkey,     \* the WebAuthn operation each request has in flight
  signal,      \* the ceremony whose AbortSignal that operation was given
  envelopes,   \* what the recovery envelopes in circulation decrypt to
  outdated     \* history: requests under way when clearRecoverySession last ran

vars == <<method, pc, work, reply, derived, ceremony, aborted, waiter, panel,
          confirmedBy, session, buf, source, tainted, passkey, signal, envelopes,
          outdated>>
keyVars == <<session, buf, source, tainted, envelopes, outdated>>
lockVars == <<ceremony, aborted, waiter>>

Panel(kind, owner, by) == [kind |-> kind, owner |-> owner, by |-> by]
NoPanel == Panel("none", NoRequest, NoRequest)

TypeOK ==
  /\ method \in [Requests -> AllMethods \cup {"none"}]
  /\ pc \in [Requests -> Phases]
  /\ work \in [Requests -> SUBSET Stages]
  /\ reply \in [Requests -> Replies \cup {"none"}]
  /\ derived \in SUBSET Requests
  /\ ceremony \in OrNone(Requests)
  /\ aborted \in SUBSET Requests
  /\ waiter \in OrNone(Requests)
  /\ panel \in [kind : PanelKinds, owner : OrNone(Requests), by : OrNone(Requests)]
  /\ confirmedBy \in OrNone(Requests)
  /\ session \in OrNone(Requests)
  /\ buf \in [Requests -> Contents]
  /\ source \in [Requests -> Requests]
  /\ tainted \in SUBSET Requests
  /\ passkey \in [Requests -> {"none", "create", "get"}]
  /\ signal \in [Requests -> OrNone(Requests)]
  /\ envelopes \in SUBSET Contents
  /\ outdated \in SUBSET Requests

Init ==
  /\ method = [r \in Requests |-> "none"]
  /\ pc = [r \in Requests |-> "idle"]
  /\ work = [r \in Requests |-> {}]
  /\ reply = [r \in Requests |-> "none"]
  /\ derived = {}
  /\ ceremony = NoRequest
  /\ aborted = {}
  /\ waiter = NoRequest
  /\ panel = NoPanel
  /\ confirmedBy = NoRequest
  /\ session = NoRequest
  /\ buf = [r \in Requests |-> "empty"]
  /\ source = [r \in Requests |-> r]
  /\ tainted = {}
  /\ passkey = [r \in Requests |-> "none"]
  /\ signal = [r \in Requests |-> NoRequest]
  /\ envelopes = {"key"}   \* the backup the user already has
  /\ outdated = {}

-----------------------------------------------------------------------------
(* What the handlers share. *)

Assign(f, S, v) == [r \in Requests |-> IF r \in S THEN v ELSE f[r]]

\* The requests whose Confirm wait is rejected when it is cancelled now.
Denied == {waiter} \ {NoRequest}

\* Fault: the finally block drops whatever lock it finds.
ReleaseAnyLock(S) == ceremony' = IF S = {} THEN ceremony ELSE NoRequest

\* withCeremony's finally: only the ceremony that still holds the lock drops it.
Release(S) == ceremony' = IF ceremony \in S THEN NoRequest ELSE ceremony

\* The terminal event of r, whose handler returns.
Answer(r, e) == /\ pc' = [pc EXCEPT ![r] = "done"]
                /\ reply' = [reply EXCEPT ![r] = e]

\* Fault: the finally block is missing.
KeepScalar(r) == UNCHANGED buf

\* The finally blocks of a ceremony: r's own scalar is zero-filled.
Zeroize(r) == buf' = [buf EXCEPT ![r] = "zero"]

\* Fault: the panel is taken down and its promise never rejected.
CancelSilently(r, p) == pc' = [pc EXCEPT ![r] = p] /\ UNCHANGED reply

\* cancelPendingCeremonyConfirm: the waiting handler answers ceremonyCancelled
\* while r goes on at phase p.
CancelThen(r, p) == /\ pc' = [Assign(pc, Denied, "done") EXCEPT ![r] = p]
                    /\ reply' = Assign(reply, Denied, "SignDenied")

\* withCeremony (which steals a lock that is still held) running
\* promptCeremonyConfirm (which cancels a waiting Confirm and takes the root).
OpenConfirm(r) ==
  /\ aborted' = aborted \cup ({ceremony} \ {NoRequest})
  /\ ceremony' = r
  /\ waiter' = r
  /\ panel' = Panel("confirm", r, r)
  /\ confirmedBy' = NoRequest
  /\ CancelThen(r, "confirm")

\* promptPassphrase and promptPrivateKey; the former also clears the click.
OpenPrompt(r, kind) ==
  /\ waiter' = NoRequest
  /\ Release(Denied)
  /\ panel' = Panel(kind, r, r)
  /\ confirmedBy' = IF kind = "passphrase" \/ Denied # {} THEN NoRequest ELSE confirmedBy
  /\ CancelThen(r, kind)
  /\ UNCHANGED aborted

\* fill(0) of the session's buffer: every handler that holds it sees zeros.
WipeSession == [r \in Requests |-> IF r = session THEN "zero" ELSE buf[r]]

\* Fault: the old key is cleared after the new one is assigned.
AssignThenWipe(r, c) == /\ buf' = [WipeSession EXCEPT ![r] = "zero"]
                        /\ session' = r

\* setRecoveryPrivateKey with the buffer r has just filled with content c.
InstallSession(r, c) == /\ buf' = [WipeSession EXCEPT ![r] = c]
                        /\ session' = r

Key(r)  == buf[source[r]]
Read(r) == tainted' = IF Key(r) = "zero" THEN tainted \cup {r} ELSE tainted

\* r enters the first stage of w with scalar content k, or returns its results.
\* Ed25519 digests are signed with the seed and leave the scalar alone.
BeginWork(r, w, k) ==
  IF w = {} THEN /\ Answer(r, Success(method[r]))
                 /\ work' = [work EXCEPT ![r] = {}]
                 /\ UNCHANGED tainted
            ELSE /\ pc' = [pc EXCEPT ![r] = "work"]
                 /\ work' = [work EXCEPT ![r] = w]
                 /\ \/ k = "zero" /\ tainted' = tainted \cup {r}
                    \/ (k # "zero" \/ Stage(w) = "sign") /\ UNCHANGED tainted
                 /\ UNCHANGED reply

\* A message handler runs to its first await before any other task.
Quiet == \A r \in Requests : pc[r] # "start"

-----------------------------------------------------------------------------
(* The parent. *)

\* Fault: the Confirm panel is not taken down.
AbandonKeepingPanel ==
  /\ aborted' = aborted \cup ({ceremony} \ {NoRequest})
  /\ ceremony' = NoRequest
  /\ waiter' = NoRequest
  /\ UNCHANGED <<panel, confirmedBy>>

\* Fault: the AbortController is dropped, never aborted.
AbandonWithoutAbort ==
  /\ ceremony' = NoRequest
  /\ waiter' = NoRequest
  /\ panel' = IF Denied # {} THEN NoPanel ELSE panel
  /\ confirmedBy' = IF Denied # {} THEN NoRequest ELSE confirmedBy
  /\ UNCHANGED aborted

\* abandonCeremony: cancel the Confirm panel, abort WebAuthn, drop the lock.
Abandon ==
  /\ aborted' = aborted \cup ({ceremony} \ {NoRequest})
  /\ ceremony' = NoRequest
  /\ waiter' = NoRequest
  /\ panel' = IF Denied # {} THEN NoPanel ELSE panel
  /\ confirmedBy' = IF Denied # {} THEN NoRequest ELSE confirmedBy

\* A request arrives: whatever ceremony is under way is abandoned first.
Receive(r, m) ==
  /\ Quiet
  /\ pc[r] = "idle"
  /\ method' = [method EXCEPT ![r] = m]
  /\ Abandon
  /\ CancelThen(r, "start")
  /\ UNCHANGED <<work, derived, passkey, signal, keyVars>>

\* kind: "cancel", sent when the parent times out or tears a request down.
Cancel ==
  /\ Quiet
  /\ Abandon
  /\ pc' = Assign(pc, Denied, "done")
  /\ reply' = Assign(reply, Denied, "SignDenied")
  /\ UNCHANGED <<method, work, derived, passkey, signal, keyVars>>

-----------------------------------------------------------------------------
(* The synchronous part of a handler, up to its first await. *)

\* getVersion, an unknown method, a failed parameter check, an empty list.
StartAnswered(r) ==
  /\ pc[r] = "start"
  /\ \/ method[r] \in Validated /\ Answer(r, "InvalidRequest")
     \/ method[r] \in MayBeEmpty \cup {"getVersion"} /\ Answer(r, Success(method[r]))
  /\ UNCHANGED <<method, work, derived, lockVars, panel, confirmedBy, passkey,
                 signal, keyVars>>

\* Fault: the key is cleared and the key-entry panel is left on the screen.
ClearKeyOnly(r) ==
  /\ pc[r] = "start"
  /\ method[r] = "clearRecoverySession"
  /\ buf' = WipeSession
  /\ session' = NoRequest
  /\ outdated' = {q \in Requests \ {r} : pc[q] \notin {"idle", "done"}}
  /\ Answer(r, "RecoverySessionCleared")
  /\ UNCHANGED <<method, work, derived, lockVars, panel, confirmedBy, passkey,
                 signal, source, tainted, envelopes>>

StartClearRecoverySession(r) ==
  /\ pc[r] = "start"
  /\ method[r] = "clearRecoverySession"
  /\ buf' = WipeSession
  /\ session' = NoRequest
  /\ outdated' = {q \in Requests \ {r} : pc[q] \notin {"idle", "done"}}
  /\ panel' = NoPanel
  /\ Answer(r, "RecoverySessionCleared")
  /\ UNCHANGED <<method, work, derived, lockVars, confirmedBy, passkey, signal,
                 source, tainted, envelopes>>

\* Handlers whose first await is the Confirm panel.
StartCeremony(r) ==
  /\ pc[r] = "start"
  /\ \/ method[r] \in WithAssertion
     \/ method[r] \in KeyUse /\ session = NoRequest
  /\ \E w \in WorkOf(method[r]) : work' = [work EXCEPT ![r] = w]
  /\ OpenConfirm(r)
  /\ UNCHANGED <<method, derived, passkey, signal, keyVars>>

\* Fault: the AES batches await the seed too, and read the scalar after it.
SeedFirstForAll == KeyUse

\* Under a recovery session these await the Ed25519 seed before anything else.
SeedFirst == {"signDigest", "executeBatch"}

\* The same handlers under a recovery session: no ceremony, the session's
\* buffer itself is used.  The AES batches read it before they first yield.
StartInSession(r) ==
  /\ pc[r] = "start"
  /\ method[r] \in KeyUse
  /\ session # NoRequest
  /\ source' = [source EXCEPT ![r] = session]
  /\ \E w \in WorkOf(method[r]) :
       IF method[r] \in SeedFirst
       THEN /\ pc' = [pc EXCEPT ![r] = "seed"]
            /\ work' = [work EXCEPT ![r] = w]
            /\ UNCHANGED <<reply, tainted>>
       ELSE BeginWork(r, w, buf[session])
  /\ UNCHANGED <<method, derived, lockVars, panel, confirmedBy, passkey, signal,
                 session, buf, envelopes, outdated>>

StartPrompt(r) ==
  /\ pc[r] = "start"
  /\ \/ method[r] \in Passphrased /\ OpenPrompt(r, "passphrase")
     \/ method[r] = "importPrivateKey" /\ OpenPrompt(r, "keyEntry")
  /\ UNCHANGED <<method, work, derived, passkey, signal, keyVars>>

-----------------------------------------------------------------------------
(* The user at the panel.  Only what is in the DOM can be clicked. *)

Shows(kind, r) == panel.kind = kind /\ panel.owner = r

\* noteRevealInteraction: the click counts if the document is visible and focused.
NoteClick(r) == \E interactive \in BOOLEAN :
                  confirmedBy' = IF interactive THEN r ELSE NoRequest

\* Confirm starts WebAuthn in the click handler and leaves the panel up.
ClickConfirm(r) ==
  /\ Quiet
  /\ Shows("confirm", r)
  /\ pc[r] = "confirm"
  /\ NoteClick(r)
  /\ pc' = [pc EXCEPT ![r] = "passkey"]
  /\ passkey' = [passkey EXCEPT ![r] = IF method[r] \in Creations THEN "create" ELSE "get"]
  /\ signal' = [signal EXCEPT ![r] = ceremony]
  /\ UNCHANGED <<method, work, reply, derived, lockVars, panel, keyVars>>

ClickDeny(r) ==
  /\ Quiet
  /\ Shows("confirm", r)
  /\ pc[r] = "confirm"
  /\ confirmedBy' = NoRequest
  /\ waiter' = NoRequest
  /\ panel' = NoPanel
  /\ Release({r})
  /\ Answer(r, "SignDenied")
  /\ UNCHANGED <<method, work, derived, aborted, passkey, signal, keyVars>>

\* A passphrase of sufficient length.  createRecoveryData goes on under the
\* recovery session if there is one, else in a ceremony; recoverKey decrypts.
EnterPassphrase(r) ==
  /\ Quiet
  /\ Shows("passphrase", r)
  /\ pc[r] = "passphrase"
  /\ \/ /\ method[r] # "createRecoveryData"
        /\ NoteClick(r)
        /\ panel' = NoPanel
        /\ pc' = [pc EXCEPT ![r] = "decrypt"]
        /\ UNCHANGED <<reply, lockVars, source>>
     \/ /\ method[r] = "createRecoveryData"
        /\ session # NoRequest
        /\ NoteClick(r)
        /\ panel' = NoPanel
        /\ source' = [source EXCEPT ![r] = session]
        /\ IF buf[session] = "zero" THEN Answer(r, "InvalidRequest")
           ELSE pc' = [pc EXCEPT ![r] = "pub"] /\ UNCHANGED reply
        /\ UNCHANGED lockVars
     \/ /\ method[r] = "createRecoveryData"
        /\ session = NoRequest
        /\ OpenConfirm(r)
        /\ UNCHANGED source
  /\ UNCHANGED <<method, work, derived, passkey, signal, session, buf, tainted,
                 envelopes, outdated>>

\* Too short: the request fails, its input and button stay on the screen.
EnterShortPassphrase(r) ==
  /\ Quiet
  /\ Shows("passphrase", r)
  /\ pc[r] = "passphrase"
  /\ confirmedBy' = NoRequest
  /\ Answer(r, "InvalidRequest")
  /\ UNCHANGED <<method, work, derived, lockVars, panel, passkey, signal, keyVars>>

\* A click on what is left of such a panel.
ClickStalePassphrase(r) ==
  /\ Quiet
  /\ Shows("passphrase", r)
  /\ pc[r] = "done"
  /\ \/ confirmedBy' = NoRequest /\ UNCHANGED panel
     \/ NoteClick(r) /\ panel' = NoPanel
  /\ UNCHANGED <<method, pc, work, reply, derived, lockVars, passkey, signal, keyVars>>

\* Import or Cancel on the key-entry panel.
EnterPrivateKey(r) ==
  /\ Quiet
  /\ Shows("keyEntry", r)
  /\ pc[r] = "keyEntry"
  /\ panel' = NoPanel
  /\ \/ \E e \in {"SignDenied", "InvalidRequest"} : Answer(r, e) /\ UNCHANGED <<buf, session>>
     \/ /\ InstallSession(r, "key")
        /\ pc' = [pc EXCEPT ![r] = "pub"]
        /\ UNCHANGED reply
  /\ UNCHANGED <<method, work, derived, lockVars, confirmedBy, passkey, signal,
                 source, tainted, envelopes, outdated>>

\* Done on the revealed key; only revealPrivateKey is waiting for it.
ClickDone(r) ==
  /\ Quiet
  /\ Shows("key", r)
  /\ panel' = NoPanel
  /\ IF pc[r] = "dismiss" THEN Answer(r, "PrivateKeyRevealed") /\ Release({r})
     ELSE UNCHANGED <<pc, reply, ceremony>>
  /\ UNCHANGED <<method, work, derived, aborted, waiter, confirmedBy, passkey,
                 signal, keyVars>>

-----------------------------------------------------------------------------
(* The authenticator.  An operation may settle either way at any time, and an *)
(* aborted one may still succeed: the abort races with the user's approval.   *)

\* Fault: settled without looking whether the Confirm was cancelled meanwhile.
SettleRegardless(r) ==
  /\ passkey' = [passkey EXCEPT ![r] = "none"]
  /\ waiter' = NoRequest
  /\ panel' = NoPanel
  /\ pc' = [pc EXCEPT ![r] = "derive"]
  /\ UNCHANGED <<method, work, reply, derived, ceremony, aborted, confirmedBy, signal,
                 keyVars>>

\* settleSuccess: ignored unless r's Confirm is still the one waiting.
ConfirmSucceeds(r) ==
  /\ passkey' = [passkey EXCEPT ![r] = "none"]
  /\ IF waiter # r THEN UNCHANGED <<pc, reply, waiter, ceremony, panel, buf, session>>
     ELSE /\ waiter' = NoRequest
          /\ panel' = NoPanel
          /\ IF method[r] \in {"createCredential.defer", "recoverKey.rebind"}
             THEN /\ Answer(r, Success(method[r]))
                  /\ Release({r})
                  /\ IF method[r] = "recoverKey.rebind"
                     THEN buf' = WipeSession /\ session' = NoRequest
                     ELSE UNCHANGED <<buf, session>>
             ELSE /\ pc' = [pc EXCEPT ![r] = "derive"]
                  /\ UNCHANGED <<reply, ceremony, buf, session>>
  /\ UNCHANGED <<method, work, derived, aborted, confirmedBy, signal, source,
                 tainted, envelopes, outdated>>

PasskeyDone(r) ==
  /\ Quiet
  /\ passkey[r] # "none"
  /\ ConfirmSucceeds(r)

\* Registration without PRF output: updateCeremonyCopy writes into whatever
\* panel has a header, and an assertion is started with the current signal.
FollowUpAssertion(r) ==
  /\ Quiet
  /\ passkey[r] = "create"
  /\ method[r] = "createCredential"
  /\ passkey' = [passkey EXCEPT ![r] = "get"]
  /\ signal' = [signal EXCEPT ![r] = ceremony]
  /\ panel' = IF panel.kind \in {"confirm", "keyEntry"} THEN [panel EXCEPT !.by = r]
              ELSE panel
  /\ UNCHANGED <<method, pc, work, reply, derived, lockVars, confirmedBy, keyVars>>

\* Fault: the WebAuthn error is swallowed.
SwallowFailure(r) ==
  /\ Quiet
  /\ passkey[r] # "none"
  /\ passkey' = [passkey EXCEPT ![r] = "none"]
  /\ confirmedBy' = NoRequest
  /\ UNCHANGED <<method, pc, work, reply, derived, lockVars, panel, signal, keyVars>>

\* settleFailure: the click is forgotten whether or not r is still waiting.
PasskeyFails(r) ==
  /\ Quiet
  /\ passkey[r] # "none"
  /\ passkey' = [passkey EXCEPT ![r] = "none"]
  /\ confirmedBy' = NoRequest
  /\ IF waiter # r THEN UNCHANGED <<pc, reply, waiter, ceremony, panel>>
     ELSE /\ waiter' = NoRequest
          /\ panel' = NoPanel
          /\ Release({r})
          /\ \E e \in {"NotAllowed", "InvalidRequest"} : Answer(r, e)
  /\ UNCHANGED <<method, work, derived, aborted, signal, keyVars>>

-----------------------------------------------------------------------------
(* Handlers resuming after an await on WebCrypto. *)

\* canRevealPrivateKey, with the click consumed.
MayShow(visible, focused) == visible /\ (focused \/ confirmedBy # NoRequest)

\* showPrivateKey's panel, with the request whose click let it through.
KeyPanel(r, focused) == Panel("key", r, IF focused THEN r ELSE confirmedBy)

\* Fault: the keys are derived and not reported.
KeyDerivedSilently(r) == /\ Quiet
                         /\ pc[r] = "derive"
                         /\ UNCHANGED <<method, derived, aborted, session, source, passkey,
                                        signal, envelopes, outdated>>

\* deriveKeysFromCredential resolved inside r's ceremony: KeyDerived is posted.
KeyDerived(r) == /\ Quiet
                 /\ pc[r] = "derive"
                 /\ derived' = derived \cup {r}
                 /\ UNCHANGED <<method, aborted, session, source, passkey, signal,
                                envelopes, outdated>>

\* revealPrivateKey shows the key and waits for Done, or fails.
DerivedForReveal(r) ==
  /\ KeyDerived(r)
  /\ method[r] = "revealPrivateKey"
  /\ confirmedBy' = NoRequest
  /\ Zeroize(r)
  /\ \E visible, focused \in BOOLEAN :
       IF MayShow(visible, focused)
       THEN /\ panel' = KeyPanel(r, focused)
            /\ waiter' = NoRequest
            /\ Release(Denied)
            /\ CancelThen(r, "dismiss")
       ELSE /\ Answer(r, "InvalidRequest")
            /\ Release({r})
            /\ UNCHANGED <<panel, waiter>>
  /\ UNCHANGED <<work, tainted>>

DerivedForRecoveryData(r) ==
  /\ KeyDerived(r)
  /\ method[r] = "createRecoveryData"
  /\ buf' = [buf EXCEPT ![r] = "key"]
  /\ pc' = [pc EXCEPT ![r] = "wrap"]
  /\ UNCHANGED <<work, reply, ceremony, waiter, panel, confirmedBy, tainted>>

\* createCredential, getPublicKey, signDigest, the AES batches, executeBatch.
DerivedForWork(r) ==
  /\ KeyDerived(r)
  /\ method[r] \notin {"revealPrivateKey", "createRecoveryData"}
  /\ BeginWork(r, work[r], "key")
  /\ buf' = [buf EXCEPT ![r] = IF work[r] = {} THEN "zero" ELSE "key"]
  /\ Release(IF work[r] = {} THEN {r} ELSE {})
  /\ UNCHANGED <<waiter, panel, confirmedBy>>

\* Between two awaits of a key's derivation or wrapping: no PRF output, or a
\* WebCrypto call that rejects.  No try block encloses these awaits, so the scalar
\* stays where it is: in a derivation that got as far as the seed, and in
\* createRecoveryData while it is encrypted.  A session just installed stays too.
CryptoFails(r) ==
  /\ Quiet
  /\ pc[r] \in {"derive", "seed", "pub", "wrap"}
  /\ \/ UNCHANGED buf
     \/ pc[r] = "derive" /\ buf' = [buf EXCEPT ![r] = "key"]
  /\ Answer(r, "InvalidRequest")
  /\ Release({r})
  /\ UNCHANGED <<method, work, derived, aborted, waiter, panel, confirmedBy,
                 passkey, signal, session, source, tainted, envelopes, outdated>>

\* The Ed25519 seed of a recovery-session request is ready.
SeedDerived(r) ==
  /\ Quiet
  /\ pc[r] = "seed"
  /\ IF method[r] # "executeBatch"
     THEN BeginWork(r, work[r], Key(r))
     ELSE /\ IF Key(r) = "zero" THEN Answer(r, "InvalidRequest")
             ELSE pc' = [pc EXCEPT ![r] = "pub"] /\ UNCHANGED reply
          /\ UNCHANGED <<work, tainted>>
  /\ UNCHANGED <<method, derived, lockVars, panel, confirmedBy, passkey, signal,
                 session, buf, source, envelopes, outdated>>

\* The public keys of a scalar held outside a ceremony: KeyDerived is posted.
PublicKeys(r) == /\ Quiet
                 /\ pc[r] = "pub"
                 /\ derived' = derived \cup {r}
                 /\ UNCHANGED <<method, passkey, signal, session, buf, source,
                                envelopes, outdated>>

\* Fault: the UI is cleared before the session is reported.
ImportedClearing(r) ==
  /\ PublicKeys(r)
  /\ method[r] = "importPrivateKey"
  /\ Answer(r, "RecoverySessionStarted")
  /\ panel' = NoPanel
  /\ UNCHANGED <<work, tainted, lockVars, confirmedBy>>

SessionImported(r) ==
  /\ PublicKeys(r)
  /\ method[r] = "importPrivateKey"
  /\ Answer(r, "RecoverySessionStarted")
  /\ UNCHANGED <<work, tainted, lockVars, panel, confirmedBy>>

PublicKeysForRecoveryData(r) ==
  /\ PublicKeys(r)
  /\ method[r] = "createRecoveryData"
  /\ pc' = [pc EXCEPT ![r] = "wrap"]
  /\ UNCHANGED <<work, reply, tainted, lockVars, panel, confirmedBy>>

PublicKeysForBatch(r) ==
  /\ PublicKeys(r)
  /\ method[r] = "executeBatch"
  /\ BeginWork(r, work[r], Key(r))
  /\ UNCHANGED <<lockVars, panel, confirmedBy>>

\* recoverKey shows the recovered key and reports the session in the same turn:
\* the panel's promise is not awaited, and a refusal to show goes unnoticed.
KeyRecovered(r) ==
  /\ PublicKeys(r)
  /\ method[r] = "recoverKey"
  /\ confirmedBy' = NoRequest
  /\ \E visible, focused \in BOOLEAN :
       IF MayShow(visible, focused)
       THEN /\ panel' = KeyPanel(r, focused)
            /\ waiter' = NoRequest
            /\ Release(Denied)
            /\ pc' = Assign(pc, Denied \cup {r}, "done")
            /\ reply' = [Assign(reply, Denied, "SignDenied")
                           EXCEPT ![r] = "RecoverySessionStarted"]
            /\ Read(r)
       ELSE /\ Answer(r, "RecoverySessionStarted")
            /\ UNCHANGED <<panel, waiter, ceremony, tainted>>
  /\ UNCHANGED <<work, aborted>>

\* With a credentialId the Confirm panel replaces the shown key in that turn.
RebindStarted(r) ==
  /\ PublicKeys(r)
  /\ method[r] = "recoverKey.rebind"
  /\ OpenConfirm(r)
  /\ UNCHANGED <<work, tainted>>

\* The next digest of the list is signed: the scalar is read again.
NextDigest(r) ==
  /\ Quiet
  /\ pc[r] = "work"
  /\ Stage(work[r]) = "sign"
  /\ Read(r)
  /\ UNCHANGED <<method, pc, work, reply, derived, lockVars, panel, confirmedBy,
                 passkey, signal, session, buf, source, envelopes, outdated>>

\* r returns from the ceremony it may be in: finally blocks, then event e.
Return(r, e) == /\ Answer(r, e)
                /\ IF source[r] = r THEN Zeroize(r) ELSE UNCHANGED buf
                /\ Release({r})

\* A stage ends.  A zero scalar does not sign, and opens no ciphertext.
StageDone(r) ==
  /\ Quiet
  /\ pc[r] = "work"
  /\ Stage(work[r]) # "seal" => r \notin tainted
  /\ LET rest == work[r] \ {Stage(work[r])}
     IN /\ BeginWork(r, rest, Key(r))
        /\ IF rest = {} /\ source[r] = r THEN Zeroize(r) ELSE UNCHANGED buf
        /\ Release(IF rest = {} THEN {r} ELSE {})
  /\ UNCHANGED <<method, derived, aborted, waiter, panel, confirmedBy, passkey,
                 signal, session, source, envelopes, outdated>>

\* Signing throws on the one scheme that is not implemented and under a zero
\* scalar; opening throws on any bad ciphertext; WebCrypto may reject in any.
StageFails(r) ==
  /\ Quiet
  /\ pc[r] = "work"
  /\ Return(r, "InvalidRequest")
  /\ UNCHANGED <<method, work, derived, aborted, waiter, panel, confirmedBy,
                 passkey, signal, session, source, tainted, envelopes, outdated>>

\* encryptPrivateKey: the scalar is read after PBKDF2, when the envelope is made.
Wrapped(r) ==
  /\ Quiet
  /\ pc[r] = "wrap"
  /\ envelopes' = envelopes \cup {Key(r)}
  /\ Read(r)
  /\ Return(r, "RecoveryDataCreated")
  /\ panel' = IF source[r] = r THEN panel ELSE NoPanel
  /\ UNCHANGED <<method, work, derived, aborted, waiter, confirmedBy, passkey,
                 signal, session, source, outdated>>

\* decryptPrivateKey: wrong passphrase, or the session is installed before the
\* scalar is looked at.
EnvelopeOpened(r) ==
  /\ Quiet
  /\ pc[r] = "decrypt"
  /\ \/ Answer(r, "InvalidRequest") /\ UNCHANGED <<buf, session>>
     \/ \E content \in envelopes :
          /\ InstallSession(r, content)
          /\ IF content = "zero" THEN Answer(r, "InvalidRequest")
             ELSE pc' = [pc EXCEPT ![r] = "pub"] /\ UNCHANGED reply
  /\ UNCHANGED <<method, work, derived, lockVars, panel, confirmedBy, passkey,
                 signal, source, tainted, envelopes, outdated>>

-----------------------------------------------------------------------------
\* What happens without the parent or the user doing anything.
Resume(r) ==
  \/ StartAnswered(r) \/ StartClearRecoverySession(r) \/ StartCeremony(r)
  \/ StartInSession(r) \/ StartPrompt(r)
  \/ DerivedForReveal(r) \/ DerivedForRecoveryData(r) \/ DerivedForWork(r)
  \/ CryptoFails(r) \/ SeedDerived(r)
  \/ SessionImported(r) \/ PublicKeysForRecoveryData(r) \/ PublicKeysForBatch(r)
  \/ KeyRecovered(r) \/ RebindStarted(r)
  \/ StageDone(r) \/ StageFails(r) \/ Wrapped(r) \/ EnvelopeOpened(r)

Authenticator(r) == PasskeyDone(r) \/ FollowUpAssertion(r) \/ PasskeyFails(r)

User(r) ==
  \/ ClickConfirm(r) \/ ClickDeny(r) \/ EnterPassphrase(r)
  \/ EnterShortPassphrase(r) \/ ClickStalePassphrase(r) \/ EnterPrivateKey(r)
  \/ ClickDone(r)

Next ==
  \/ Cancel
  \/ \E r \in Requests :
       \/ \E m \in Methods : Receive(r, m)
       \/ Resume(r) \/ NextDigest(r) \/ Authenticator(r) \/ User(r)

Spec == Init /\ [][Next]_vars

(* WebCrypto and WebAuthn operations settle, and the user answers what is on *)
(* the screen.  The parent owes nothing: it need not call, nor cancel.       *)
Fairness == \A r \in Requests : /\ WF_vars(Resume(r))
                                /\ WF_vars(Authenticator(r))
                                /\ WF_vars(User(r))

FairSpec == Spec /\ Fairness

-----------------------------------------------------------------------------
(* Properties. *)

\* Where a handler is inside withCeremony.
InCeremony(r) ==
  \/ pc[r] \in {"confirm", "passkey", "derive", "dismiss"}
  \/ pc[r] \in {"work", "wrap"} /\ source[r] = r

\* The lock belongs to exactly the ceremony that is running and was not
\* abandoned: a stale handler's `finally` never frees a newer ceremony's lock,
\* and no lock is left behind by a ceremony that ended (state.js withCeremony).
LockHeldByCeremony ==
  /\ \A r \in Requests : InCeremony(r) /\ r \notin aborted => ceremony = r
  /\ ceremony # NoRequest => InCeremony(ceremony) /\ ceremony \notin aborted

\* The Confirm promise that can still be settled belongs to the ceremony that
\* holds the lock, and its handler is suspended on it (ui.js pendingConfirmReject).
WaiterInCeremony ==
  \A r \in Requests : waiter = r <=> pc[r] \in {"confirm", "passkey"}

\* A Confirm panel on the screen is live: its buttons reach a waiting handler.
ConfirmPanelIsLive == panel.kind = "confirm" => waiter = panel.owner

\* A waiting Confirm is on the screen.
WaiterIsShown == waiter # NoRequest => Shows("confirm", waiter)

\* Not so in the code: a key is shown on the strength of focus or of a click for
\* the same request.  The flag is one per document: the click on the Confirm of a
\* later request lets an earlier revealPrivateKey show its key (ui.js:331-353).
ShownOnOwnClick == panel.kind = "key" => panel.by = panel.owner

\* The recovery session's buffer is never one that was zero-filled, unless a
\* zero envelope had been produced before.
SessionIsLive == session # NoRequest => buf[session] = "key" \/ "zero" \in envelopes

\* Not so in the code: no handler that has returned leaves a scalar in memory, the
\* session's excepted.  encryptPrivateKey may reject in createRecoveryData, and the
\* seed's derivation once the scalar exists (handlers.js:614-619, prf.js:110-118).
NoScalarLeft == \A r \in Requests : pc[r] = "done" /\ buf[r] = "key" => session = r

\* A scalar that outlives its handler, outside the session, is one of these two:
\* whatever else was answered, denied, superseded or failed after the keys were
\* reported, the handler zero-filled its scalar, and so did the end of a session.
ScalarsZeroized ==
  \A r \in Requests : pc[r] = "done" /\ buf[r] = "key" /\ session # r =>
    /\ reply[r] = "InvalidRequest"
    /\ r \in derived => method[r] = "createRecoveryData"

\* Every recovery envelope holds a key.
EnvelopesHoldKeys == envelopes = {"key"}

\* Nothing sealed or wrapped under a zero-filled scalar is reported as a success.
ResultsUnderLiveKey ==
  \A r \in tainted : reply[r] \in {"none"} \cup Failures

\* An authenticator prompt is left open only for a Confirm that still waits.
NoOrphanPasskey ==
  \A r \in Requests : passkey[r] # "none" /\ waiter # r => signal[r] \in aborted

\* The terminal event is the last: nothing is posted for a request after it.
ReplyIsLast ==
  [][\A r \in Requests : reply[r] # "none" =>
       reply'[r] = reply[r] /\ (r \in derived' => r \in derived)]_vars

\* A cleared session stays cleared: a later one belongs to a request that
\* arrived after clearRecoverySession was answered.
ClearedStaysCleared == session \notin outdated

\* The events posted are those the Branding Layer relies on: a request's key is
\* reported before its success, at most once, and nothing follows its answer.
Contract == INSTANCE SigningContract
ImplementsContract == Contract!ContractSpec

\* Every request is answered if the user answers every prompt shown.
EveryRequestAnswered == \A r \in Requests : pc[r] = "start" ~> reply[r] # "none"
=============================================================================
