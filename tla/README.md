# Formal models of the Open Wallet Standard packages

TLA+ models of the wallet in `src/packages`, TLC runs that check them on small
instances and TLAPS proofs of what holds for every instance.  The code is the
reference: each definition names, in `PROJECT.json` under `map`, the lines it
models.

## The system

Three documents, each in an iframe of the one before, talk by messages.  The
**Host** is the dapp's page; the **Branding Layer** is the wallet a user sees;
the **Signing Layer** holds the keys.  Each document is a single JavaScript
thread: handlers interleave at `await`s only, and messages between two
documents arrive in the order they were posted.

| Component | State it keeps | Operations | Talks to |
|---|---|---|---|
| Signing Layer (`ows-signer`) | ceremony lock and AbortController, the pending Confirm promise, one DOM root, the recovery scalar, the interaction flag, suspended handlers and the scalars they hold | 13 RPC methods (17 control paths), cancel, clicks, WebAuthn results | Branding Layer by events, authenticator, user |
| Branding-to-signing RPC (`ows-signer-utils`: `SignerRpcClient`, `OWSSigner`) | pending requests, credential id, address caches, last public keys, inline styles of the iframe | one call per method, `clearSession`, `destroy`, event dispatch, a 100 ms timer | Signing Layer by request and cancel |
| EVM helpers (`RpcHelper`, `SignHelper`) | active chain, providers, listeners | `wallet_switchEthereumChain`, `personal_sign`, typed data, `eth_sendTransaction` | OWSSigner, OWSWallet display, JSON-RPC nodes |
| Display (`DisplayHostHandler`, `DisplayChildClient`) | original layout, display id, RPC access count, animation; pending displays and depth in the child | request/release/hide display, ready notifications, timeouts | Host and Branding Layer over Postmate |
| Host RPC (`OWSProxy`, `RpcHostClient`, `OWSWallet`, `child-wrapper`) | pending calls, access count, handler registrations, handshake | call, callback, registration, dispatch, destroy | Host and Branding Layer |
| Solana adapter (`SolanaHostClient`, `OwsSolanaStandardWallet`) | account, the applications that list it, calls under way | connect, disconnect, sign, sign in, send, register | Host RPC |
| OpenID4VC (`CredentialsHelper`, OID4VCI and OID4VP clients) | one issuance session, authorization requests by definition id, credential store | accept offer, present, list, delete | wallet display, issuer, verifier |
| Namespaces (`signer.evm`, `.solana`, `.bitcoin`, the viem account, the Kit signer) | the calls under way; they share the caches of `OWSSigner` | address, sign one or a batch | Branding-to-signing RPC |
| Codecs (COSE to SPKI, CBOR, base64url, hex) | none | pure functions | Signing Layer, namespaces |
| Example wallet (`useWalletSession`, `useWalletBoot`, `useModalQueue`, the modals) | unlocked flag, in-flight unlock, addresses, modal queue, mounted modal, local storage | connect, sign, send, create, log in, back up, restore, reload | OWSSigner, display |

What is hard in each, and what makes it correct:

* **Signing Layer.**  Handlers of superseded requests keep running next to newer
  ones and share the lock, the DOM root, one interaction flag and the session's
  scalar buffer.  A stale `finally` must not free a newer lock, a click must
  reach the handler that waits, a scalar must be zeroed on every path, an answer
  must be the last event, and every request must be answered.
* **RPC client.**  Cancels, late events, a timer and `clearSession` race.  Late
  events must not refill cleared caches; the caches must be of one key; no answer
  may be lost; the panel must be up while a ceremony may need it.
* **EVM helpers.**  Consent is awaited between reading and writing the active
  chain, and a transaction reads the active chain anew for the prompt, the
  preparation, the signature and the broadcast.  What the dapp believes, what the
  user saw and what is signed must be one chain; a display session must be given
  back on every way out.
* **Namespaces.**  A batch is flattened to digests and sliced again; between the key
  it is prepared for and the signature lies an await in which another call, a
  recovery session or `clearSession` may change the key.
* **Display.**  Hide animations, timeouts in the child, a 250 ms delay in the host and
  show requests overlap; a visible wallet must have somebody who will hide it, and a
  held one must be visible.
* **Host RPC.**  Access counting; late registration of handlers; a wallet page that
  starts late; destroy at any moment.  Every call must settle once, by its own answer.
* **Solana adapter.**  A feature of several inputs interrupted half way.
* **OpenID4VC.**  One token session and one map of requests for all calls: overlapping
  offers and presentations take each other's.  A token must buy one credential.
* **Codecs.**  Two packages walk CBOR with code of their own, the length of an item
  apart from its value.
* **Example wallet.**  Single flight of the unlock, modals that queue behind each
  other and inherit React state, a recovery that replaces the key under cached
  addresses.

`PROJECT.json` lists every hazard at its line with the properties that cover it, or why none does.

## Modules

| Module | Models |
|---|---|
| `SignerMethods` | methods and events both layers know (`constants.js`, the events of `handlers.js`) |
| `SigningLayer` | the Signing Layer in full: `main.js`, `handlers.js`, `ui.js`, `state.js`, the awaits of `webauthn.js` and `crypto/` |
| `SigningContract` | what the Signing Layer promises: the events it posts and their order |
| `SignerClient` | `OWSSigner` and `SignerRpcClient` with two FIFO message queues, on top of `SigningContract` |
| `SignerNamespaces` | `evm/`, `solana/` and `bitcoin/namespace.ts`, `to-viem-account.ts`, `to-kit-signer.ts` over `OWSSigner`'s two awaited RPCs |
| `CoseKey` | the passkey's public key from authenticator data to SPKI (`webauthn.js`, `cose-to-spki.ts`), byte by byte |
| `ChainRpc` | `RpcHelper`, `SignHelper`, the wallet's approval signing and boot, `EIP1193Provider` at the other end |
| `Display` | `DisplayHostHandler` and `DisplayChildClient` over the two channels, with the proxy's access counting |
| `RpcContract` | what the host's RPC promises its callers |
| `HostRpc` | `OWSProxy`, `RpcHostClient`, the Postmate handshake, `OWSWallet`, `child-wrapper.ts` |
| `SolanaWallet` | `SolanaHostClient`, `OwsSolanaStandardWallet`, on top of `HostRpc` |
| `CredentialIssuance`, `CredentialPresentation` | `CredentialsHelper`, the two HTTP clients, the example's issuer, verifier, vault and provider |
| `WalletSession` | the example wallet: session, boot, modal queue, modals |
| `MC...` | instances for TLC: sets, symmetry, batches, registrations |
| `..._proofs` | inductive invariants and theorems, one module per component, see *Proofs*; `Marshalling_proofs` has those of `SignerNamespaces` and `CoseKey` |

### SigningLayer

One request is one correlation id and one suspended handler.  An action is what
runs between two awaits; the name in brackets of the following list is the value
of `pc[r]` while the handler is suspended.

* `Receive`, `Cancel` - `main.js`: `abandonCeremony` runs before anything else.
* `StartAnswered`, `StartClearRecoverySession`, `StartCeremony`, `StartInSession`,
  `StartPrompt` [start] - the synchronous part of each handler.  A handler runs to
  its first await within the message task, so every other action is `Quiet`: it
  waits until nobody is at `start`.
* `ClickConfirm`, `ClickDeny`, `EnterPassphrase`, `EnterShortPassphrase`,
  `ClickStalePassphrase`, `EnterPrivateKey`, `ClickDone` [confirm, passphrase,
  keyEntry, dismiss] - the user, who can click only what `panel` shows.
* `PasskeyDone`, `FollowUpAssertion`, `PasskeyFails` [passkey] - the authenticator.
  It may settle either way at any time, and an aborted operation may still
  succeed.
* `Derived...` [derive], `SeedDerived` [seed], `PublicKeys...`, `KeyRecovered`,
  `RebindStarted` [pub], `StageDone`, `NextDigest` [work], `Wrapped` [wrap],
  `EnvelopeOpened` [decrypt] - handlers resuming after WebCrypto.  What they await may
  reject: `StageFails` [work] inside the `try ... finally` that zero-fills the scalar,
  `CryptoFails` [derive, seed, pub, wrap] outside any, so that the scalar stays in memory
  if there is one by then.

A scalar is abstracted to `key`, `zero` or `empty`: enough to tell whether a buffer
is used after it was zero-filled.  `source[r]` says whose buffer a handler reads -
its own, or the recovery session's, which other handlers may wipe.  `panel` records
kind, owner and whose click or text it carries.  `derived`, `reply` are the events
posted.  `tainted` and `outdated` are history variables used by properties only.

### SigningContract and SignerClient

The contract has three state variables - the method, the answer and whether the
key was reported, for each request - and says: a request is accepted once;
`KeyDerived` is posted at most once; a success that needs the key comes after it;
nothing follows the answer; at most one other request is denied by a step.
`SigningLayer` implements it (`ImplementsContract`, checked and proved).

`SignerClient` composes the contract with the Branding Layer.  `toSigner` and
`toBranding` are the `postMessage` queues.  `call[r]` is the promise and pending
entry of an RPC; `waiting` is a `getPublicKey` whose timer for `ChallengeSigned`
runs.  A `request` posts a cancel and then the request.  The continuation of an
RPC runs in the microtasks of the message that settled it, so `HandleMessage`
settles, restores the panel and writes the caches in one step.  A key is
abstracted to the passkey (or imported scalar) it comes from; `address` stands for
the EVM and Bitcoin addresses, `solana` for the Solana one.  `captured[r]` is the
iframe layout call `r` will restore.

### Display

A *task* is a caller of `requestDisplay` or `requestHide` in the Branding Layer.
`layout` is what the container's styles amount to (`hidden`, `passthrough` - laid
out but see-through, while an RPC runs -, `flyout`, `drawer`, `inline`);
`originalLayout` is what `hideLayoutSync` restores.  `running` holds the hide
animations: `hideAnimation` in the code names only the newest, and an older one's
`finally` still runs.  The 250 ms of `completeRpcAccess` are a timer that may fire at
any time after.  `Timeout` is the child's: the host hears nothing of it.

### HostRpc, RpcContract, SolanaWallet

Handshakes are sent by Postmate (`NativePulses`) and by
`withExtendedPostmateHandshake` (`ExtraPulses`); the page answers the first it hears.
`Model` is what the wallet exposes when it connects; `dispatch` starts a
registered handler, answers a method of the model that has none or whose params do not
fit its schema with an error, and drops what is not on the model.  `RpcContract` knows four sets of calls: made, run, resolved,
rejected; `HostRpc` with `SolanaWallet` on top implements it.  `SolanaWallet` adds
the features, which make one call per input in order, and registration in the Wallet
Standard with its `app-ready` listener and teardown.  `Malformed`, `NextMalformed` and
`Refuse` are what the adapter throws itself: an input that cannot be decoded before its
call, an answer that cannot be after it.  `Broadcast` is outside `src/`: the wallet sends a
transaction in its handler, which then may answer, fail, or be forgotten with the proxy
(`HandlerEnds`); `sent` counts the broadcasts and not the answers the adapter accepted.

### ChainRpc

`switchChain` and its consent, `prepareEvmTransaction` one read of the active chain
per step, the events pushed over the same ordered channel as the answers.  `still` and
`missed` are history: nobody switched since the request started; the chain changed
before the boot subscribed.

### SignerNamespaces, CoseKey

Each call of a namespace is a process with two awaits, `getPublicKey` and
`signDigest`.  A batch is the number of digests per item; a signature remembers item,
input and key.

`CoseKey` computes on bytes: both CBOR walkers, the decoder and base64url are translated
in full, the recursion of the code as a recursion over the depth of the stack that is
left (`MaxDepth`; a call without room throws).  What authenticators answer is not a list
of examples but a grammar: `Items` says of a byte string what it is made of - a head, a
string and its length, items that follow each other - which is how RFC 8949 defines
CBOR and not how either walker reads it; `IsRegistration` says what surrounds a key, and
`KeysOf` which keys its entries speak of.

### CredentialIssuance, CredentialPresentation

Each call is a process; the tokens are named after the call they were issued to, so
`session` says whose token the client holds.  `alone` is history: no other call asked
for a token or was answered in between; for a presentation, no other request was
resolved under its definition id while it waited.  `known` is whose request a
presentation starts from: its own for a `request_uri`; for a definition the host page
gives, the one held under its id, of an earlier call, over or not, since
`HttpOid4vpClient` never clears its map.  The issuer is modelled from the example's plugin with the
await between looking a token up and deleting it.

### WalletSession

A task's stage is the ceremony or modal it awaits.  `queue` is `modalQueueRef`, `panel`
the component `ModalHost` has mounted with its phase, whether a ceremony of its own is
under way (`busy`) and whether React kept it from an earlier modal of the same kind
(`inherited`).  `stored`, `cached`, `hasBackup` are local storage and survive `Reload`.

The Signing Layer has two keys here: the passkey's and `sessionKey`, the recovery
session's.  `getPublicKey` and `createCredential` always ask the passkey (`KeyDerived`);
`signDigest` and `createRecoveryData` take the session's if there is one when they choose,
at the start of the one and after the passphrase of the other (`Prepared`, `startSign`,
`PassphraseGiven`; `by` in a panel remembers the choice).  `held` is what `OWSSigner`
has cached since.  A recovery may fail after its session is installed (`HalfRecovers`), and
a call of a modal that was closed still ends (`stray`, `StrayEnds`).  `strayed` and
`crossed` are history: such a recovery ended with nobody to refresh the addresses; during a
session another key answered.

## Runs

| Run | Shows | Bounds |
|---|---|---|
| `signing_all` | type, lock, waiter, panel, session and scalar invariants, `ReplyIsLast`, and the contract | all 17 methods, 2 requests |
| `signing_answered` | every request is answered | 2 requests, six methods that only open Confirm panels |
| `signing_session` | no seal under a wiped key, cleared sessions stay cleared, a waiting Confirm is shown, no orphan passkey prompt | 3 requests, five methods around an imported session |
| `client` | cleared caches, cache agreement, no lost answer | 2 calls of 12 methods, each plus `clearSession`, `destroy` and the timer, 2 passkeys |
| `display` | the panel is up while it is held and down when nobody needs it; no release takes or leaks another's session | 2 tasks, 2 display ids, 1 host RPC and timer, 2 animations, 3 messages and animations under way, both modes and viewports |
| `host` | access count, no lost call of a registered method, destroy settles, what is reported sent was sent, a page that starts in time is connected, the contract | 2 calls, 2 feature calls of up to 2 inputs, 1 native and 1 extra handshake, 1 application |
| `chain` | the dapp follows the chain, one chain per transaction while nobody switches, display sessions given back | 3 chains of which 2 configured, 3 switches, 1 request, 2 messages under way |
| `oid4` | one credential per token, refusals explained, delivery to the verifier a call started from | 3 overlapping calls of 2 offers and 2 presentations, 3 issuers of which 2 trusted, 2 verifiers with one definition id |
| `session` | the modal queue serves its callers, the unlock belongs to a task under way, no dead modal but an inherited one, addresses follow the key that signs, the named exceptions apart | 3 tasks of seven kinds, 2 passkeys |
| `namespaces` | signatures in place and by the key that was fetched, accounts that name no credential excepted; caches of one key | 2 calls, 2 passkeys, 1 recovered scalar, batches `<<1>>`, `<<1,1>>`, `<<2,1>>` |
| `codecs` | the authenticator's key arrives or is refused | 1058 registrations |
| `signing_zero_envelope` | violation: a recovery envelope of zeros is reported as a success | 3 requests |

The passing runs visit between 3 thousand (`codecs`) and 1.8 million (`host`) distinct
states.

Why the bounds are enough.  The Signing Layer has one lock, one waiter, one panel
and one session, so a hazard is between the request that holds such a resource and
one that takes it: two requests, all methods.  Hazards of the session need a third
request that starts it.  An id is used once, so two calls of the client give every
order of one call's events with the other's cancel, clear or teardown.  `client`
takes one method of each set the client and the contract treat alike.

The other components have the same shape: one shared resource, a holder and an
intruder.  `display`: two display ids are a session and the one that replaces it; a
second animation is one that starts while the first still has its `finally` to run;
three messages let a late answer pass a new request and a release.  `host`: two calls
are one answer out of order with another, or the second input of a feature.  `chain`:
three switches are two that overlap and one back.  `oid4`: two calls cross in the
shared session, a third in either half adds the next holder; one definition id, since
two different ids share nothing.  `session`: the owner of the unlock, one that waits
on it and one behind both in the queue.  `namespaces`: a call, and one that changes
the keys under it; a batch with two inputs before a further item makes every slicing
error visible.  `codecs`: six types of key with entries in both orders, arguments of
every width, five further entries and one that cannot be decoded, with and without
extensions, short and long ids, a stack of four calls for items three deep; 32-bit lengths of 2^31 and more are one value beyond
every buffer (`Huge`).

Requests, passkeys, tasks, switches, calls and verifiers are interchangeable where
the runs use symmetry; ids that are numbered by the code are not.  The two runs
with a liveness property, `signing_answered` and `host`, use none.

`CHECK_DEADLOCK FALSE` in `client`, `display`, `host`, `chain`, `oid4`, `namespaces`
and `codecs`: when all ids, calls and messages of the instance are used, it ends; in
the code further calls follow.  `session` and the runs of the Signing Layer check for
deadlock.

The properties of `signing_session` do not hold for all methods, see *Properties the code
does not have*; for which they do is proved.

### Fairness

`FairSpec` of `SigningLayer` is weakly fair for each request's WebCrypto resumptions,
for its authenticator operation and for the user at its panel.  WebCrypto promises
settle; WebAuthn settles because the browser times it out; the user's fairness is what
the property says - *if the user answers what is shown*.  Nothing is assumed of the
parent, which need not call or cancel.

`SolanaSpec` is weakly fair for two actions, the interval that sends handshakes
(`Pulse`) and the delivery of the handshake's reply: `setInterval` fires and the browser
delivers messages.  The page need not start, handlers need not run and the wallet need
not answer; `ConnectsInTime` speaks of a page that listens while handshakes are still to
come.  Everything else is safety: `AnswerOnItsWay` and `ModelCallOnItsWay` say that a
pending call always has a message or an unanswered request behind it, rather than that
somebody answers.

## Proofs

Assumed are only the `ASSUME`s on constants, which TLC evaluates in the runs: the
"none" values are not names of anything, ids are numbers and the calls of one page
finitely many, the default chain is configured, trusted issuers are issuers, passkeys and
scalars differ, a batch is a sequence of positive numbers, the wire methods of the
features the page uses are among its methods (`WiresAssumption`), no layout and no panel
is `None` (`LayoutsAssumption`, `PanelsAssumption`), and a registration is well-formed
(`RegistrationsAssumption`).  The last means: authenticator data as WebAuthn lays it out,
a key that is a CBOR map without floats, 64-bit or indefinite lengths and lengths of 2^31
and more, that nests no deeper than the stack has room for, and that has each of the
labels of kty, crv, x and y once at most, as CTAP2 requires of a map.  Tags and simple
values are among the items, and of wide heads, further entries, their order and what
follows the key nothing is assumed.  The sets themselves are arbitrary,
and so are the bounds.  Four theorems of the Signing Layer name methods that must not be
in the instance; they are the ones with which the property fails.

* **`SigningLayer_proofs`**
  - `TypeCorrect`, `LockCorrect`, `WaiterCorrect`, `ConfirmCorrect`, `SessionCorrect`,
    `ZeroizeCorrect`, `ReplyCorrect`.  The properties are not inductive alone.  That a stale
    handler does not free a lock needs to know that an aborted ceremony is past its Confirm
    (`AbortedPhase`) and that the waiter is the handler suspended on it.  That a scalar
    survives its handler only where no `finally` covers an await needs where each scalar is
    (`KeysAccounted`), hence whose buffer a handler may
    read (`SourcePhase`), hence which methods reach which phase (`MethodPhase`).  `IInv` is
    their conjunction, proved inductive one conjunct and one action at a time.
  - `ClearedCorrect` without `recoverKey` (either path), `ShownCorrect` without
    `createRecoveryData`, `OrphanCorrect` without `createCredential`, `recoverKey` and
    `revealPrivateKey`, `LiveKeysCorrect` without `createRecoveryData`, `recoverKey` and
    `executeBatch`.  Each rests on `FInv`: `IInv` and how a handler came to be where it is
    (`Flow`), with a strengthening of its own: a request that a clear overtook is past the
    panels that let it install a key, or its panel is gone (`Cleared`); an operation in
    flight has its own ceremony's signal (`PasskeyFollows`); only `signDigest` under a
    session meets a zero-filled scalar, and then fails (`LiveKeys`).  The theorems cover
    more methods than the run: it has the five that make up the race, they exclude only
    those with each of which TLC refutes the property, in up to three requests.
  - `ContractCorrect`: every step of `SigningLayer` is a step of the contract or a stutter.
    `ReportedOf` adds to `IInv` at which phase of which method `KeyDerived` was posted.
    Each action is first reduced to what it posts for its own request and whom it denies
    (`StepOf`); two lemmas then turn any such step into a step of the contract and into a
    step that keeps `ReportedOf`.
* **`SignerClient_proofs`**
  - `ClearedCachesCorrect`: the calls made before the last `clearSession` have settled
    (`DroppedIsSettled`), with the iframe gone none is pending (`GoneIsSettled`), and only
    live calls write.
  - `CachesAgreeCorrect`, `AnswerCorrect`, `RequestsCorrect`, from `QueueInv`, which says what
    may be on the two queues: a message asks for what its call was made for
    (`SentAsAsked`); the events that one step posts for a request stay together
    (`TogetherAfter`); a `getPublicKey` whose timer runs has its `ChallengeSigned` next in
    the queue (`WaitingForNext`).  A step of the Signing Layer is
    first reduced to what it appends and to whom (`SignerTurn`), so that the contract is
    opened once.
  - `ResolvedCorrect`: as long as the iframe lives, a call that resolved was answered with
    the success of its method.  Every event under way is one the Signing Layer posted for
    the request it names (`EventOf`), and what it answered it does not take back
    (`EventStays`, `AnsweredInv`).
  - `TypeCorrect`: the caches hold passkeys of requests, and finitely many calls have
    captured the panel's styles, so that a restore finds the last of them (`MemoryTyped`).
* **`Display_proofs`**
  - `ShownCorrect`, `HiddenCorrect`.  What a hide restores is the hidden frame, and the frame
    is hidden unless that is recorded (`RestoresHidden`); the field names an animation
    only while one runs (`AnimationIsRunning`); an animation that runs while the panel is
    held was met by a show (`HeldMeansShownOver`), and a held panel is not see-through
    (`NoPassthroughWhileHeld`); a destroyed proxy is hidden and quiet (`DestroyedIsHidden`).
  - `HolderCorrect`, `ReleaseCorrect`, from `SessionInv`.  Display ids grow along each queue and
    from one to the other: what the host has yet to be asked for is newer than all it was
    asked for, what it is to release older than all it acknowledged since
    (`RequestsGrow`, `AnswersGrow`, `SessionGrows`).  So a release never names a session newer
    than its own, and without timeouts the host's session is being answered, held or
    released (`SessionIsSomebodys`).
  - `TypeCorrect`, with `Typed`; that a caller that waits, holds or hides does so under an id
    is part of what it states (`CallersHaveIds`).
* **`HostRpc_proofs`** - all of `SolanaSpec`, so with the adapter's calls.
  - `AccessCorrect`, `DestroyCorrect`, `RpcContractCorrect`.  A success on the channel belongs
    to a handler that was started (`AnswersHaveRun`), a request on the channel is there once
    and its handler was not (`NotYetRun`), hence a handler runs at most once and only its own
    answer resolves a call; after destroy nothing is under way (`GoneIsQuiet`).  `OpInv` says
    that a feature call that waits is of a feature, so that its next call is of a method.
  - `OnItsWayCorrect`: nothing is called before the handshake and a message asks for what its
    call wanted (`WayInv`), so that a call is in the child's queue, in a handler or in the
    host's queue until it settles.  `SentCorrect`: a sending feature that waits has sent
    the inputs it counts as done and one more at most, that one if its call was answered
    with a success (`SentInv`).
  - `ListedCorrect`: an application lists the wallet exactly while it is registered, since
    the client listens for applications as long as it is, and can undo every registration
    it made (`ListInv`).  `TypeCorrect` adds which account is remembered (`AccountInv`) and
    that no `signAndSendTransaction` sends more than its inputs (`NeverMoreThanGiven`).
* **`ChainRpc_proofs`** - `TypeCorrect`, `DappCorrect`, `OneChainCorrect`,
  `SessionsCorrect`.  The last message on its way tells the active chain, or
  the dapp knows it (`LastIsCurrent`); what a request was shown is the active chain while
  nobody switches (`ShownIsCurrent`); a switch that awaits consent names a configured chain
  (`AskedIsConfigured`).
* **`Marshalling_proofs`**
  - `FetchedKeyCorrect`, `CachesCorrect`.  A call that names a passkey asks for it
    (`AsksForNamed`); what a ceremony answers and what signs is what was asked for or the
    session (`FetchedIsAsked`, `SignerIsAsked`).  Excepted are recovery sessions, and viem
    accounts and Kit signers that name no credential once `OWSSigner` has another one.
  - `InPlaceCorrect`, for batches of any length with any numbers of inputs.  Where the
    signatures of an item start is a recursive sum.  That the sum exists, and that it never
    decreases, is an induction over numbers, made here on sets of numbers (`SetInduction`,
    from the library's well-foundedness of `<`) rather than on predicates, as no installed
    prover takes the library's induction theorem.  `FinalizeFacts` then says that cutting
    the signatures of the flattened batch gives every item its own.
  - `TypeCorrect`, with `NamespacesTyped`: what a call ends with are lists of signatures.
  - `KeyCorrect`: the key arrives, for every registration.  It rests on three theorems of
    their own.  `Base64RoundTrip`: what one package encodes the other decodes, whatever the
    length leaves over.  `WalkersAgree`: both copies of `cborFirstItemLength` return the
    length of every item of the grammar, at any offset (`Walked`); by induction over its
    depth and, within, over the number of items that were walked (`ItemsLengthIs`,
    `LaidWalk`).  `DecoderCorrect`: `decodeCborFirst` returns the number or the bytes an item
    says, and throws exactly for those that hold a tag or another simple value
    (`Decoded`); it needs `WalkersAgree`, since the decoder finds the next item by the
    length of this one.  Then the slice of the authenticator data is the key
    (`Extracted`), the decoded map has the key's entries, each at its place (`EntriesRead`),
    `Map.get` finds the one entry of a label (`GetAnswers`), and each kind of key becomes the
    SPKI key `KeysOf` says, or none (`Ec2Answers`, `OkpAnswers`, `Converted`).
    That the recursive functions are defined for every depth is itself such an
    induction (`Recursion`, `Unfolds`).
* **`Credentials_proofs`** - `RefusedCorrect`, `DeliveredCorrect`, `OneCredentialCorrect`,
  `PresentedCorrect`, `TypeCorrect`.
  `IssueOk`: a call that overlapped no other holds the session and sent its own token;
  `PresentOk`: a presentation whose id nobody resolves while it waits finds the request it
  started from, or none (`known`);
  `VaultInv`: how often a token has bought is what its call's stage says, and everything in
  the vault was bought by a call that stored it.  A step of one call is reduced to lemmas
  on one call (`OneCallKeeps`, `OnePresentKeeps`), the step that overwrites the shared map or
  session to one on all of them.
  `TypedInv`: what is presented fits the call that selected it (`SelectedOk`) and was
  earned; a credential stays earned when the vault that held it is emptied (`VaultStep`).
* **`WalletSession_proofs`** - `TypeCorrect`, `QueueServesCorrect`, `UnlockCorrect`,
  `AnswerableCorrect`, `AddressesCorrect`.  The queue holds exactly the tasks that await a modal,
  each once, through removal from its middle and through reloads.  That the owner of an
  unlock is in it needs what a task can be about at each stage (`KindFits`): a button's task
  may be naming a passkey too and is not an owner.  That the addresses follow the key
  needs what the modal on screen can say of the recovery or the signature behind it
  (`PanelOk`), and that what `OWSSigner` knows is the key that signs until another is announced
  during a session (`KeyOk`).

Only model-checked:

* `EveryRequestAnswered` and `ConnectsInTime`: liveness is out of the prover's reach.
* `EnvelopesHoldKeys` fails (`signing_zero_envelope`).

Every other property the runs check is a theorem, and so is the type invariant of every
module with state; only that of the Signing Layer is also a property of a run.  Proving
them corrected one: `SignerNamespaces.TypeOK` left out the one digest that `signAsViem`
signs whatever the batches are.

## Properties the code does not have

Met while modelling; each was stated, refuted by TLC and left out of the runs (or
checked with the exception named).  Where a definition is given it is in the module,
marked *Not so in the code*.

* `SigningLayer`: a passphrase, key-entry or key panel that a later request takes down
  is never answered (`ui.js:412`; the client's entry stays, `client.ts:45`).  A reveal may
  be let through by the click on another request's Confirm (`ShownOnOwnClick`,
  `ui.js:331-353`).  `recoverKey` installs a session that `clearRecoverySession` has just
  ended, which breaks `ClearedStaysCleared` (`handlers.js:652`).  `createRecoveryData`
  breaks `WaiterIsShown`, as it clears the UI after an await, whoever owns it by then
  (`handlers.js:591`).  `createCredential` breaks `NoOrphanPasskey` by its follow-up assertion
  (`handlers.js:201`), `recoverKey` and `revealPrivateKey` break it by settling the Confirm
  of another request without aborting its prompt (`ui.js:363`).  `createRecoveryData`, `recoverKey` and `executeBatch` break
  `ResultsUnderLiveKey`: they read a scalar once more after an await in which a clear may have
  wiped it (`handlers.js:668` shows it, the others seal and sign with it).  Where these methods are
  left out the four properties are proved.  A scalar stays in memory when `encryptPrivateKey`
  rejects in `createRecoveryData`, which no `finally` follows, or when the derivation rejects
  with the scalar made (`NoScalarLeft`, `handlers.js:614-619`, `crypto/prf.js:110-118`);
  `ScalarsZeroized` excepts these two and nothing else.
* `SignerClient`: a superseded call's `finally` hides the panel under the newer one's
  ceremony (`PanelUpDuringCeremony`, `owssigner.ts:288`); after a batch for another passkey
  `lastPublicKeyData` has its keys under the former credential id (`LastPublicKeyIsOne`,
  `owssigner.ts:240`).
* `ChainRpc`: a transaction that names a chain is checked against the active one before
  the approval and signed for the one active after it (`SignedForNamed`,
  `sign-helper.ts:187-190, 297`).
* `SignerNamespaces`: a Bitcoin transaction is prepared for the last known key; a recovery
  session that starts meanwhile signs with its own (`BitcoinSpendsOwnKey`,
  `bitcoin/namespace.ts:61-62, 87`, `owssigner.ts:548`).  A viem account, or a Kit signer
  built without a `credentialId`, signs for the address it was built with by whatever
  credential `OWSSigner` has later (`AddressOfItsPasskey`, `to-kit-signer.ts:43-50`,
  `solana/namespace.ts:67, 93`).
* `Display`: a drawer shown while one slides out is removed by the old animation's
  `finally` (`DrawerShownWhileHeld`, `DisplayHostHandler.ts:612`).  An anonymous hide that is
  answered late clears a newer session in the child, whose release then says nothing to
  the host (`NoneLeaked`, `child-client.ts:171, 191-194`).
* `HostRpc`: a call of a method outside the wallet's Postmate model is dropped by Postmate
  and pends until destroy, though the documents have unimplemented methods answered with an
  error (`EveryCallOnItsWay`, `ows-wallet.ts:280-337, 411-426`; `ows-provider/README.md:124`).
* `SolanaWallet`: a `signAndSendTransaction` that rejects may have sent everything: the last
  answer may be lost, be an error, or carry a signature `base58.decode` refuses
  (`RejectedIsPartial`, `standard-wallet.ts:251`).
* `CredentialPresentation`: a presentation may go to another verifier than the one whose
  request the user agreed to, if the two share a definition id: when the other request was
  resolved while this one waited, or when the host page gives the definition and a request of
  an earlier call is still held under its id (`DeliveredToTheApproved`,
  `http-oid4vp-client.ts:41-58`).
* `WalletSession`: the next request of the same kind inherits the phase of the modal
  before it and shows no button (`PromptAnswerable`, `ModalHost.tsx:30-37`,
  `SignModals.tsx:38, 94-98`).  A recovery whose modal was cancelled still replaces the
  signer's key and nobody refreshes the addresses (`BackupModals.tsx:226-261`); so does one
  that fails after its session is installed (`handlers.js:653-658`).  After a recovery, an
  unlock or a login stores the passkey's address while the session goes on signing
  (`RecoveredAddressSigns`, `handlers.js:403, 839`).

Smaller observations: a switch of chain before `useWalletBoot` subscribes is never told to
the host (`useWalletBoot.ts:298-310`; `missed` in `ChainRpc`); two address requests with
an empty cache supersede each other in the signer (`useWalletSession.ts:76-78`); both
copies of `cborFirstItemLength` count a float's bytes twice, and the signer's copy reads
4-byte lengths as signed numbers (`webauthn.js:226-232`), neither of which a COSE key has.

## Not modelled

* Cryptography: outcomes only (a scalar is live or zero; a decryption succeeds or
  throws).  Hex, the encodings of transactions and PSBTs, which libraries make, and the
  vendored curves and hashes.
* Wording, layout and styles, except for which document or panel is visible.
* The message listeners' origin checks and malformed messages.
* `overlaySignerIframe`, the creation of the signer iframe, the `setCached*` setters of
  `OWSSigner` other than the EVM address, `DisplayChildClient.destroy`: the repository
  calls none of them from the modelled paths.
* Typed-data signing (`personal_sign` with another digest, and its modal another text),
  read-only RPC calls, fee estimation and the wallet's settings and asset views.
* Matching of credentials on claims, formats and response encryption of OpenID4VC.
* The reference wallet (`ows-signer/reference`), copies of another product's pages that are
  not published; the demo pages, which call the modelled packages in a fixed order; the
  on-chain contracts, another program in another language.

## Plan

1. The remaining operations: `DisplayChildClient.destroy`, the setters, typed data.
2. `Display` on top of `HostRpc`: accesses of the one are calls of the other.
