----------------------------- MODULE SignerClient -----------------------------
(***************************************************************************)
(* OWSSigner and its SignerRpcClient (packages/ows-signer-utils), the      *)
(* Branding Layer's end of the signer protocol, composed with the Signing  *)
(* Layer's contract over the two postMessage queues.                       *)
(*                                                                         *)
(* A call of an OWSSigner method is one RPC; its correlation id names it.  *)
(* The continuation of an awaited RPC and the finally block that restores  *)
(* the ceremony panel run in the microtasks of the message that settled    *)
(* it, hence in the same step.                                             *)
(***************************************************************************)
EXTENDS SigningContract, Naturals, Sequences

CONSTANTS Passkeys,   \* what keys come from: passkeys and imported scalars
          None        \* stands for undefined

ASSUME NoneAssumption == None \notin Passkeys \cup Requests
ASSUME RequestsAssumption == Requests \subseteq Nat
ASSUME MethodsAssumption  == Methods \subseteq AllMethods \ {"unknownMethod"}

VARIABLES
  toSigner,     \* messages posted to the iframe and not yet dispatched
  toBranding,   \* events posted to the parent and not yet dispatched
  call,         \* the state of each RPC's promise and of its pending entry
  sent,         \* the method of each RPC
  asked,        \* the credentialId each request named
  used,         \* what the Signing Layer takes the request's keys from
  credentialId, \* OWSSigner.credentialId
  address,      \* whose EVM and Bitcoin addresses are cached
  solana,       \* whose Solana address is cached
  last,         \* lastPublicKeyData: its keys and its credential
  panelUp,      \* the iframe's inline styles are those of the ceremony panel
  captured,     \* the styles each call restores when it settles
  destroyed,    \* the iframe is gone
  writer,       \* history: the call that wrote the caches, None after a reset
  dropped       \* history: the calls made before the last clearSession

signerVars == <<contractVars, used>>
cacheVars  == <<credentialId, address, solana, last, writer>>
panelVars  == <<panelUp, captured>>
vars == <<contractVars, toSigner, toBranding, call, sent, asked, used, cacheVars,
          panelVars, destroyed, dropped>>

OrNone(S) == S \cup {None}
Calls     == {"unused", "pending", "waiting", "resolved", "rejected"}
Live(r)   == call[r] \in {"pending", "waiting"}

CancelMessage == [kind |-> "cancel"]
Request(r, m) == [kind |-> "request", id |-> r, method |-> m]
Event(e, r)   == [event |-> e, id |-> r]
Messages == {CancelMessage} \cup
  [kind : {"request"}, id : Requests, method : Methods \cup {"clearRecoverySession"}]
Events   == [event : Replies \cup {"KeyDerived"}, id : Requests]

TypeOK ==
  /\ method \in [Requests -> AllMethods \cup {"none"}]
  /\ reply \in [Requests -> Replies \cup {"none"}]
  /\ derived \in SUBSET Requests
  /\ toSigner \in Seq(Messages)
  /\ toBranding \in Seq(Events)
  /\ call \in [Requests -> Calls]
  /\ sent \in [Requests -> Methods \cup {"none", "clearRecoverySession"}]
  /\ asked \in [Requests -> OrNone(Passkeys)]
  /\ used \in [Requests -> OrNone(Passkeys)]
  /\ credentialId \in OrNone(Passkeys)
  /\ address \in OrNone(Passkeys)
  /\ solana \in OrNone(Passkeys)
  /\ last \in [keys : OrNone(Passkeys), credential : OrNone(Passkeys)]
  /\ panelUp \in BOOLEAN
  /\ captured \in [Requests -> BOOLEAN]
  /\ destroyed \in BOOLEAN
  /\ writer \in OrNone(Requests)
  /\ dropped \in SUBSET Requests

NoKeys == [keys |-> None, credential |-> None]

Init ==
  /\ ContractInit
  /\ toSigner = <<>>
  /\ toBranding = <<>>
  /\ call = [r \in Requests |-> "unused"]
  /\ sent = [r \in Requests |-> "none"]
  /\ asked = [r \in Requests |-> None]
  /\ used = [r \in Requests |-> None]
  /\ credentialId \in OrNone(Passkeys)   \* OWSSignerOptions.credentialId
  /\ address = None
  /\ solana = None
  /\ last = NoKeys
  /\ panelUp = FALSE
  /\ captured = [r \in Requests |-> FALSE]
  /\ destroyed = FALSE
  /\ writer = None
  /\ dropped = {}

-----------------------------------------------------------------------------
(* The Signing Layer, by its contract. *)

\* The events of a step of r, in the order they are posted; getPublicKey with a
\* challenge posts PublicKey before ChallengeSigned.
Posted(r) ==
  (IF r \in derived' \ derived THEN <<Event("KeyDerived", r)>> ELSE <<>>)
  \o (IF reply'[r] = reply[r] THEN <<>>
      ELSE IF reply'[r] = "ChallengeSigned"
           THEN <<Event("PublicKey", r), Event("ChallengeSigned", r)>>
           ELSE <<Event(reply'[r], r)>>)

\* The denials of the other requests a step caused.
DeniedBy(r) == {q \in Requests \ {r} : reply'[q] # reply[q]}

\* The handler of the denied request resumes in a microtask of the same task,
\* before or after what the step itself posts.
EventsOf(r) ==
  \/ DeniedBy(r) = {} /\ toBranding' = toBranding \o Posted(r)
  \/ \E q \in DeniedBy(r) :
       \/ toBranding' = toBranding \o Posted(r) \o Posted(q)
       \/ toBranding' = toBranding \o Posted(q) \o Posted(r)

DropEvents == \/ UNCHANGED <<reply, toBranding>>
              \/ \E q \in Requests : reply'[q] # reply[q] /\ toBranding' = toBranding \o Posted(q)

branding == <<call, sent, asked, cacheVars, panelVars, destroyed, dropped>>

\* Methods that report keys only from a WebAuthn operation; it offers the one
\* passkey the request names, if it names one.  The others may report those of
\* the recovery session, and without a name any passkey may be chosen.
OffersNamed(m) == m \in {"getPublicKey", "getPublicKey.challenge", "revealPrivateKey",
                         "executeBatch.challenge", "signDigest", "encryptAES256",
                         "decryptAES256"}

SignerAccepts ==
  /\ toSigner # <<>>
  /\ LET message == Head(toSigner)
     IN /\ message.kind = "request"
        /\ Accept(message.id, message.method)
        /\ \E k \in Passkeys :
             /\ OffersNamed(message.method) => asked[message.id] \in {None, k}
             /\ used' = [used EXCEPT ![message.id] = k]
        /\ EventsOf(message.id)
  /\ toSigner' = Tail(toSigner)
  /\ UNCHANGED branding

SignerCancels ==
  /\ toSigner # <<>>
  /\ Head(toSigner) = CancelMessage
  /\ Drop
  /\ DropEvents
  /\ toSigner' = Tail(toSigner)
  /\ UNCHANGED <<used, branding>>

\* A handler takes another request's Confirm panel and goes on waiting itself.
SignerDenies ==
  /\ ~destroyed
  /\ Drop
  /\ \E q \in Requests : reply'[q] # reply[q] /\ toBranding' = toBranding \o Posted(q)
  /\ UNCHANGED <<used, toSigner, branding>>

SignerPosts(r) ==
  /\ ~destroyed
  /\ \E derives \in BOOLEAN, e \in Failures \cup {"none", Success(method[r])} :
       /\ derives \/ e # "none"
       /\ Post(r, derives, e)
  /\ EventsOf(r)
  /\ UNCHANGED <<used, toSigner, branding>>

-----------------------------------------------------------------------------
(* Calls of OWSSigner. *)

WithoutPanel == {"getVersion", "clearRecoverySession"}

\* The credentialId a request names.
Credentials(m) ==
  CASE m \in Creations \cup {"getVersion", "clearRecoverySession",
                             "importPrivateKey", "recoverKey"} -> {None}
    [] m = "recoverKey.rebind" -> Passkeys
    [] m \in {"getPublicKey", "getPublicKey.challenge"} -> OrNone(Passkeys)
    [] OTHER -> {credentialId} \cup Passkeys

\* nextCorrelationId.
NextId(r) == /\ call[r] = "unused"
             /\ \A q \in Requests : q < r => call[q] # "unused"

\* SignerRpcClient.request: a cancel goes ahead of the request; with the iframe
\* gone the promise is rejected at once.
Send(r, m, status) ==
  /\ sent' = [sent EXCEPT ![r] = m]
  /\ call' = [status EXCEPT ![r] = IF destroyed THEN "rejected" ELSE "pending"]
  /\ IF destroyed THEN UNCHANGED toSigner
     ELSE toSigner' = toSigner \o <<CancelMessage, Request(r, m)>>

\* showSignerCeremonyPanel captures the styles it finds.
ShowPanel(r) == /\ captured' = [captured EXCEPT ![r] = panelUp]
                /\ panelUp' = TRUE

Call(r, m) ==
  /\ NextId(r)
  /\ Send(r, m, call)
  /\ \E k \in Credentials(m) : asked' = [asked EXCEPT ![r] = k]
  /\ IF m \in WithoutPanel \/ destroyed THEN UNCHANGED panelVars ELSE ShowPanel(r)
  /\ UNCHANGED <<signerVars, toBranding, cacheVars, destroyed, dropped>>

Reset == /\ credentialId' = None
         /\ address' = None
         /\ solana' = None
         /\ last' = NoKeys
         /\ writer' = None

LiveCalls == {r \in Requests : Live(r)}

\* Fault: the pending entries outlive the rejection of their promises.
RejectKeepingEntries == call

\* rejectAllPending.
RejectAll == [r \in Requests |-> IF Live(r) THEN "rejected" ELSE call[r]]

\* withCeremonyPanel's finally: the styles left when the calls of S restore
\* theirs in the order in which the calls were made.
Restore(S) ==
  LET shown == {r \in S : sent[r] \notin WithoutPanel}
  IN /\ panelUp' = IF shown = {} THEN panelUp
                   ELSE captured[CHOOSE r \in shown : \A q \in shown : q <= r]
     /\ UNCHANGED captured

\* clearSession: reject, forget, then have the Signing Layer end its session.
ClearSession(r) ==
  /\ NextId(r)
  /\ IF destroyed THEN Send(r, "clearRecoverySession", call)
     ELSE /\ sent' = [sent EXCEPT ![r] = "clearRecoverySession"]
          /\ call' = [RejectAll EXCEPT ![r] = "pending"]
          /\ toSigner' = toSigner \o
               <<CancelMessage, CancelMessage, Request(r, "clearRecoverySession")>>
  /\ Restore(LiveCalls)
  /\ Reset
  /\ dropped' = {q \in Requests : call[q] # "unused"}
  /\ UNCHANGED <<signerVars, toBranding, asked, destroyed>>

\* destroy: the listener goes first, the iframe with its document and all the
\* Signing Layer knew last.
Destroy ==
  /\ ~destroyed
  /\ destroyed' = TRUE
  /\ call' = RejectAll
  /\ Restore(LiveCalls)
  /\ toSigner' = <<>>
  /\ toBranding' = <<>>
  /\ method' = [r \in Requests |-> "none"]
  /\ reply' = [r \in Requests |-> "none"]
  /\ derived' = {}
  /\ used' = [r \in Requests |-> None]
  /\ UNCHANGED <<sent, asked, cacheVars, dropped>>

-----------------------------------------------------------------------------
(* Events of the Signing Layer: SignerRpcClient.handleMessage. *)

\* Fault: addresses are cached once and never overwritten.
CacheOnce(r) ==
  /\ address' = IF address = None THEN used[r] ELSE address
  /\ solana' = IF solana = None THEN used[r] ELSE solana

\* cacheAddressesFromPublicKeys always overwrites.
CacheAddresses(r) == address' = used[r] /\ solana' = used[r]

\* onKeyDerived: the keys are new, the credential id is the one held so far.
KeyDerived(r) ==
  /\ CacheAddresses(r)
  /\ last' = [keys |-> used[r], credential |-> credentialId]
  /\ writer' = r
  /\ UNCHANGED credentialId

Named(id, default) == IF id # None THEN id ELSE default

\* The credential a batch reports when none was asked for: null in a session.
BatchCredentials(r) ==
  IF sent[r] = "executeBatch.challenge" THEN {used[r]} ELSE {used[r], None}

\* What the method does with the data of its terminal event.
Succeed(r) ==
  \/ /\ sent[r] = "createCredential"
     /\ credentialId' = used[r]
     /\ address' = used[r]
     /\ writer' = r
     /\ UNCHANGED <<solana, last>>
  \/ /\ sent[r] = "createCredential.defer"
     /\ credentialId' = used[r]
     /\ writer' = r
     /\ UNCHANGED <<address, solana, last>>
  \/ /\ sent[r] \in {"getPublicKey", "getPublicKey.challenge"}
     /\ credentialId' = used[r]
     /\ CacheAddresses(r)
     /\ last' = [keys |-> used[r], credential |-> used[r]]
     /\ writer' = r
  \/ /\ sent[r] = "signDigest"
     /\ \/ r \notin derived /\ UNCHANGED <<credentialId, writer>>   \* no digests
        \/ /\ credentialId' = Named(asked[r], IF r \in derived THEN used[r] ELSE credentialId)
           /\ writer' = r
     /\ UNCHANGED <<address, solana, last>>
  \/ /\ sent[r] \in {"executeBatch", "executeBatch.challenge"}
     /\ \E id \in {Named(asked[r], k) : k \in BatchCredentials(r)} :
          /\ credentialId' = Named(id, credentialId)
          /\ \/ UNCHANGED <<address, solana, last>>
             \/ /\ CacheAddresses(r)   \* includePublicKey
                /\ last' = [keys |-> used[r], credential |-> id]
     /\ writer' = r
  \/ /\ sent[r] \in {"getVersion", "clearRecoverySession", "revealPrivateKey",
                      "importPrivateKey", "createRecoveryData", "recoverKey",
                      "recoverKey.rebind", "encryptAES256", "decryptAES256"}
     /\ UNCHANGED cacheVars

Settle(r, outcome) == /\ call' = [call EXCEPT ![r] = outcome]
                      /\ Restore({r})

\* Fault: a passkey error is taken for an intermediate event.
RejectingOnDenial == {"SignDenied", "InvalidRequest"}

\* The events that reject a pending call.
Rejecting == {"SignDenied", "NotAllowed", "InvalidRequest"}

HandleMessage ==
  /\ toBranding # <<>>
  /\ toBranding' = Tail(toBranding)
  /\ LET r == Head(toBranding).id
         e == Head(toBranding).event
     IN \/ /\ ~Live(r)
           /\ UNCHANGED <<call, cacheVars, panelVars>>
        \/ /\ Live(r)
           /\ e \in Rejecting
           /\ Settle(r, "rejected")
           /\ UNCHANGED cacheVars
        \/ /\ Live(r)
           /\ e \in ({"KeyDerived"} \cup Failures) \ Rejecting
           /\ IF e = "KeyDerived" THEN KeyDerived(r) ELSE UNCHANGED cacheVars
           /\ UNCHANGED <<call, panelVars>>
        \/ /\ Live(r)
           /\ e = "PublicKey" /\ sent[r] = "getPublicKey.challenge"
           /\ KeyDerived(r)
           /\ call' = [call EXCEPT ![r] = "waiting"]
           /\ UNCHANGED panelVars
        \/ /\ Live(r)
           /\ e = Success(sent[r])
           /\ Settle(r, "resolved")
           /\ Succeed(r)
  /\ UNCHANGED <<signerVars, toSigner, sent, asked, destroyed, dropped>>

\* alsoWaitFor: the timer runs out before ChallengeSigned is dispatched; the
\* method caches the keys and throws that the assertion is missing.
AlsoWaitForTimeout(r) ==
  /\ call[r] = "waiting"
  /\ Settle(r, "rejected")
  /\ Succeed(r)
  /\ UNCHANGED <<signerVars, toSigner, toBranding, sent, asked, destroyed, dropped>>

-----------------------------------------------------------------------------
Signer == \/ SignerAccepts \/ SignerCancels \/ SignerDenies
          \/ \E r \in Requests : SignerPosts(r)

Branding == \/ HandleMessage
            \/ Destroy
            \/ \E r \in Requests :
                 \/ ClearSession(r) \/ AlsoWaitForTimeout(r)
                 \/ \E m \in Methods : Call(r, m)

Next == Signer \/ Branding

Spec == Init /\ [][Next]_vars

-----------------------------------------------------------------------------
(* Properties. *)

\* After clearSession nothing of an earlier call comes back into the caches,
\* whatever events of it are still under way (owssigner.ts clearSession).
ClearedCachesStayClear == writer \notin dropped

\* The cached addresses and the last public keys are of one key: no event
\* updates a part of them (owssigner.ts cacheAddressesFromPublicKeys).
CachesAgree == address = solana /\ last.keys = address

Queued(q, P(_)) == \E i \in DOMAIN q : P(q[i])

Terminal(r, e) == e.id = r /\ e.event \in Rejecting \cup {Success(sent[r])}

\* No answer is lost: a call that is still pending has its request or its
\* terminal event on the way, or the Signing Layer has yet to answer it.
AnswerOnItsWay ==
  ~destroyed => \A r \in Requests : call[r] = "pending" =>
    \/ method[r] = "none" /\ Queued(toSigner, LAMBDA m : m = Request(r, sent[r]))
    \/ r \in Open
    \/ Queued(toBranding, LAMBDA e : Terminal(r, e))

\* Not so in the code: while a call that may need the signer's panel is pending,
\* the iframe is up (iframe.ts:78).  The finally block of a superseded call restores
\* the hidden styles it captured while the newer call waits (owssigner.ts:288).
PanelUpDuringCeremony ==
  ~destroyed /\ (\E r \in Requests : Live(r) /\ sent[r] \notin WithoutPanel) => panelUp

\* Not so in the code: between calls lastPublicKeyData names no passkey but the one
\* its keys are of (owssigner.ts:223).  A batch for another passkey leaves its keys
\* there under the credential id held before it (owssigner.ts:240).
LastPublicKeyIsOne == LiveCalls = {} => last.credential \in {None, last.keys}
=============================================================================
