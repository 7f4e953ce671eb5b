--------------------------- MODULE SignerNamespaces ---------------------------
(***************************************************************************)
(* signer.evm, signer.solana and signer.bitcoin (packages/ows-signer-utils)*)
(* with the viem account and the Kit signer built on them: how a batch     *)
(* becomes digests, which key each call takes for its own, and how the     *)
(* signatures are put back.  Calls overlap at OWSSigner's two awaited RPCs,*)
(* getPublicKey and signDigest; SignerClient has the RPCs themselves.      *)
(***************************************************************************)
EXTENDS Naturals, Sequences

CONSTANTS Passkeys,
          Scalars,   \* keys that can be imported or recovered
          Calls,     \* calls of a namespace's method
          Batches,   \* batches to sign: the number of digests of each item
          None

ASSUME KeysAssumption == Passkeys \cap Scalars = {} /\ None \notin Passkeys \cup Scalars
ASSUME BatchesAssumption == Batches \subseteq Seq(Nat \ {0})

VARIABLES
  call,         \* each call
  credentialId, \* OWSSigner.credentialId
  cached,       \* its cached addresses, by the key they are of
  lastKeys,     \* the keys of lastPublicKeyData
  session,      \* the scalar of the Signing Layer's recovery session
  given         \* history: setCachedAddress was given the EVM address

vars == <<call, credentialId, cached, lastKeys, session, given>>

Keys      == Passkeys \cup Scalars
OrNone(S) == S \cup {None}
Addresses == {"evm", "solana", "Bitcoin", "BitcoinTestnet"}
Kinds     == {"address", "evm", "solana", "bitcoin", "viem", "kit"}
Stages    == {"unused", "getPublicKey", "keyed", "signDigest", "ceremony",
              "signed", "done", "failed"}

\* named: options.credentialId; asked: the credentialId of the request under
\* way; key: whose address or public key the call works with; fetched: it is
\* the answer of the call's own getPublicKey; signer: whose key signs;
\* result: for each item, its signatures in order.
Unused == [kind |-> "address", stage |-> "unused", address |-> "evm", batch |-> <<>>,
           named |-> None, asked |-> None, key |-> None, fetched |-> FALSE,
           signer |-> None, result |-> <<>>]

Signature == [item : Nat, input : Nat, by : Keys, v : {27, 28}]

TypeOK ==
  /\ DOMAIN call = Calls
  /\ \A c \in Calls :
       /\ call[c].kind \in Kinds /\ call[c].stage \in Stages
       /\ call[c].address \in Addresses /\ call[c].batch \in Batches \cup {<<>>, <<1>>}
       /\ {call[c].named, call[c].asked} \subseteq OrNone(Passkeys)
       /\ {call[c].key, call[c].signer} \subseteq OrNone(Keys)
       /\ call[c].result \in Seq(Seq(Signature))
  /\ credentialId \in OrNone(Passkeys)
  /\ cached \in [Addresses -> OrNone(Keys)]
  /\ lastKeys \in OrNone(Keys)
  /\ session \in OrNone(Scalars)
  /\ given \in BOOLEAN

NoAddresses == [a \in Addresses |-> None]

Init ==
  /\ call = [c \in Calls |-> Unused]
  /\ credentialId \in OrNone(Passkeys)
  /\ cached = NoAddresses
  /\ lastKeys = None
  /\ session = None
  /\ given = FALSE

Named(id, default) == IF id # None THEN id ELSE default
Becomes(c, r) == call' = [call EXCEPT ![c] = r]
ownCaches == <<credentialId, cached, lastKeys, given>>

\* cacheAddressesFromPublicKeys.
CacheAddresses(k) ==
  /\ cached' = [a \in Addresses |-> k]
  /\ given' = FALSE

-----------------------------------------------------------------------------
(* Calls. *)

\* The call r goes on to the RPC m, for the credential it names or else the
\* one OWSSigner holds by then, id.
Requesting(r, m, id) == [r EXCEPT !.stage = m, !.asked = Named(r.named, id)]

\* What is common to the three getAccountAddress: the cache, else getPublicKey.
Resolve(r) ==
  IF cached[r.address] # None
  THEN [r EXCEPT !.stage = "done", !.key = cached[r.address]]
  ELSE Requesting(r, "getPublicKey", credentialId)

GetAccountAddress(c, a, named) ==
  /\ call[c].stage = "unused"
  /\ Becomes(c, Resolve([Unused EXCEPT !.address = a, !.named = named]))
  /\ UNCHANGED <<ownCaches, session>>

\* One digest for each item, nothing at all for an empty batch.
SignEach(c, r) ==
  /\ call[c].stage = "unused"
  /\ \A i \in DOMAIN r.batch : r.batch[i] = 1
  /\ Becomes(c, IF r.batch = <<>> THEN [r EXCEPT !.stage = "done"]
                ELSE Requesting(r, "signDigest", credentialId))
  /\ UNCHANGED <<ownCaches, session>>

\* signMessage, signTypedData, signTransaction, signAuthorization.
SignEvm(c, batch, named) ==
  SignEach(c, [Unused EXCEPT !.kind = "evm", !.batch = batch, !.named = named])

\* signMessage, signTransaction.
SignSolana(c, batch, named) ==
  SignEach(c, [Unused EXCEPT !.kind = "solana", !.batch = batch, !.named = named])

\* signer.bitcoin.signTransaction needs the public key before it can compute
\* the sighashes: the last one OWSSigner saw, else it asks for it.
SignBitcoin(c, batch, named) ==
  LET r == [Unused EXCEPT !.kind = "bitcoin", !.batch = batch, !.named = named,
                          !.key = lastKeys]
  IN /\ call[c].stage = "unused"
     /\ Becomes(c, IF batch = <<>> THEN [r EXCEPT !.stage = "done"]
                   ELSE Requesting(r, IF lastKeys # None THEN "signDigest" ELSE "getPublicKey",
                                   credentialId))
     /\ UNCHANGED <<ownCaches, session>>

\* toViemLocalAccount; a given address replaces the cached one.
ToViemLocalAccount(c, address) ==
  LET r == [Unused EXCEPT !.kind = "viem"]
  IN /\ call[c].stage = "unused"
     /\ IF address = None
        THEN Becomes(c, Resolve(r)) /\ UNCHANGED <<cached, given>>
        ELSE /\ Becomes(c, [r EXCEPT !.stage = "done", !.key = address])
             /\ cached' = [cached EXCEPT !["evm"] = address]
             /\ given' = TRUE
     /\ UNCHANGED <<credentialId, lastKeys, session>>

\* toKitPartialSigner; a given address is only used by the signer itself.
ToKitPartialSigner(c, address, named) ==
  LET r == [Unused EXCEPT !.kind = "kit", !.address = "solana", !.named = named]
  IN /\ call[c].stage = "unused"
     /\ Becomes(c, IF address = None THEN Resolve(r)
                   ELSE [r EXCEPT !.stage = "done", !.key = address])
     /\ UNCHANGED <<ownCaches, session>>

\* The account or signer a is asked for signatures.
Built(a, kind) == call[a].stage = "done" /\ call[a].kind = kind

\* viem's methods take one item and pass no options on.
SignAsViem(c, a) ==
  /\ Built(a, "viem")
  /\ SignEach(c, [Unused EXCEPT !.kind = "evm", !.batch = <<1>>,
                                !.key = call[a].key, !.fetched = call[a].fetched])

\* Kit's pass those the signer was built with.
SignAsKit(c, a, batch) ==
  /\ Built(a, "kit")
  /\ SignEach(c, [Unused EXCEPT !.kind = "solana", !.batch = batch, !.named = call[a].named,
                                !.key = call[a].key, !.fetched = call[a].fetched])

-----------------------------------------------------------------------------
(* The answers of the Signing Layer. *)

\* signDigest is accepted: a recovery session answers it without a ceremony.
Accept(c) ==
  /\ call[c].stage = "signDigest"
  /\ Becomes(c, IF session # None THEN [call[c] EXCEPT !.stage = "signed", !.signer = session]
                ELSE [call[c] EXCEPT !.stage = "ceremony"])
  /\ UNCHANGED <<ownCaches, session>>

\* KeyDerived: the passkey the request names, or any if it names none.
KeyDerived(c, k) ==
  /\ call[c].asked \in {None, k}
  /\ \/ call[c].stage = "getPublicKey" /\ Becomes(c, [call[c] EXCEPT !.stage = "keyed", !.signer = k])
     \/ call[c].stage = "ceremony" /\ Becomes(c, [call[c] EXCEPT !.stage = "signed", !.signer = k])
  /\ CacheAddresses(k)
  /\ lastKeys' = k
  /\ UNCHANGED <<credentialId, session>>

\* Fault: the credential of the signature is settled before the key is known.
PublicKeyOfTheStart(c) ==
  LET r == [call[c] EXCEPT !.key = call[c].signer, !.fetched = TRUE, !.signer = None]
  IN /\ call[c].stage = "keyed"
     /\ Becomes(c, IF r.kind = "bitcoin" THEN [r EXCEPT !.stage = "signDigest"]
                   ELSE [r EXCEPT !.stage = "done"])
     /\ credentialId' = call[c].signer
     /\ CacheAddresses(call[c].signer)
     /\ lastKeys' = call[c].signer
     /\ UNCHANGED session

\* getPublicKey's answer, and what the caller does with it in the same task.
PublicKey(c) ==
  LET k == call[c].signer
      r == [call[c] EXCEPT !.key = k, !.fetched = TRUE, !.signer = None]
  IN /\ call[c].stage = "keyed"
     /\ Becomes(c, IF r.kind = "bitcoin" THEN Requesting(r, "signDigest", k)
                   ELSE [r EXCEPT !.stage = "done"])
     /\ credentialId' = k
     /\ CacheAddresses(k)
     /\ lastKeys' = k
     /\ UNCHANGED session

\* The digests of a batch, one after the other: the items' inputs in order.
Offset(batch, i) ==
  LET before[k \in 0..Len(batch)] == IF k = 0 THEN 0 ELSE before[k - 1] + batch[k]
  IN before[i - 1]

ItemOf(batch, n) == CHOOSE i \in DOMAIN batch :
  Offset(batch, i) < n /\ n <= Offset(batch, i) + batch[i]

Digests(batch) ==
  [n \in 1..Offset(batch, Len(batch) + 1) |->
     [item |-> ItemOf(batch, n), input |-> n - Offset(batch, ItemOf(batch, n))]]

\* The recovery ids of ECDSA are data; this choice has all of them.
Recovery(d) == (d.item + 2 * d.input) % 4

\* signWithScheme for every digest, in the order of the request; v is not part
\* of the signatures that signer.bitcoin and signer.solana ask for.
SignParsedDigests(batch, k) ==
  [n \in DOMAIN Digests(batch) |->
     LET d == Digests(batch)[n]
     IN [item |-> d.item, input |-> d.input, by |-> k, v |-> 27 + (Recovery(d) % 2)]]

\* Fault: every transaction takes its signatures from the start of the results.
SliceFromStart(batch, results, i) == SubSeq(results, 1, batch[i])

\* The signatures of item i: results.slice(offset, offset + count).
SliceOf(batch, results, i) ==
  SubSeq(results, Offset(batch, i) + 1, Offset(batch, i) + batch[i])

Finalize(batch, results) == [i \in DOMAIN batch |-> SliceOf(batch, results, i)]

\* signedAuthorizationFromSignature.
YParity(v) == IF v % 2 = 0 THEN 1 ELSE 0

\* signDigest's answer; in a session it names the credential only if asked.
DigestSigned(c) ==
  LET r == call[c]
  IN /\ r.stage = "signed"
     /\ Becomes(c, [r EXCEPT !.stage = "done",
          !.result = Finalize(r.batch, SignParsedDigests(r.batch, r.signer))])
     /\ credentialId' = Named(r.asked, IF r.signer \in Scalars THEN credentialId ELSE r.signer)
     /\ UNCHANGED <<cached, lastKeys, given, session>>

Pending(c) == call[c].stage \in {"getPublicKey", "keyed", "signDigest", "ceremony", "signed"}

\* The user, the authenticator or another call's cancel: the RPC is rejected.
Denied(c) ==
  /\ Pending(c)
  /\ Becomes(c, [call[c] EXCEPT !.stage = "failed"])
  /\ UNCHANGED <<ownCaches, session>>

-----------------------------------------------------------------------------
(* OWSSigner's sessions. *)

\* importPrivateKey, or recoverKey without a credentialId, with its KeyDerived.
StartRecoverySession(k) ==
  /\ session' = k
  /\ CacheAddresses(k)
  /\ lastKeys' = k
  /\ UNCHANGED <<call, credentialId>>

ClearRecoverySession ==
  /\ session # None
  /\ session' = None
  /\ UNCHANGED <<call, ownCaches>>

\* Fault: the Solana address outlives the session.
ClearButSolana ==
  /\ call' = [c \in Calls |-> IF Pending(c) THEN [call[c] EXCEPT !.stage = "failed"] ELSE call[c]]
  /\ credentialId' = None
  /\ cached' = [NoAddresses EXCEPT !["solana"] = cached["solana"]]
  /\ lastKeys' = None
  /\ session' = None
  /\ given' = FALSE

ClearSession ==
  /\ call' = [c \in Calls |-> IF Pending(c) THEN [call[c] EXCEPT !.stage = "failed"] ELSE call[c]]
  /\ credentialId' = None
  /\ cached' = NoAddresses
  /\ lastKeys' = None
  /\ session' = None
  /\ given' = FALSE

Next ==
  \/ \E c \in Calls :
       \/ \E named \in OrNone(Passkeys) :
            \/ \E a \in Addresses : GetAccountAddress(c, a, named)
            \/ \E batch \in Batches \cup {<<>>} :
                 SignEvm(c, batch, named) \/ SignSolana(c, batch, named)
                 \/ SignBitcoin(c, batch, named)
            \/ \E address \in OrNone(Keys) : ToKitPartialSigner(c, address, named)
       \/ \E address \in OrNone(Keys) : ToViemLocalAccount(c, address)
       \/ \E a \in Calls :
            SignAsViem(c, a) \/ \E batch \in Batches \cup {<<>>} : SignAsKit(c, a, batch)
       \/ \E k \in Passkeys : KeyDerived(c, k)
       \/ Accept(c) \/ PublicKey(c) \/ DigestSigned(c) \/ Denied(c)
  \/ \E k \in Scalars : StartRecoverySession(k)
  \/ ClearRecoverySession
  \/ ClearSession

Spec == Init /\ [][Next]_vars

-----------------------------------------------------------------------------
(* Properties. *)

Signed(c) == call[c].stage = "done" /\ call[c].kind \in {"evm", "solana", "bitcoin"}

\* Every item of a batch gets its own signatures, one for each of its digests
\* and in their order, and an authorization's yParity is that of the recovery
\* id (bitcoin/namespace.ts:93 slices one flat list, evm/marshal.ts:61).
SignedInPlace ==
  \A c \in Calls : Signed(c) =>
    /\ DOMAIN call[c].result = DOMAIN call[c].batch
    /\ \A i \in DOMAIN call[c].batch :
         /\ Len(call[c].result[i]) = call[c].batch[i]
         /\ \A j \in DOMAIN call[c].result[i] :
              LET s == call[c].result[i][j]
              IN /\ s.item = i /\ s.input = j /\ s.by = call[c].signer
                 /\ YParity(s.v) = Recovery(s) % 2

\* Between the two RPCs of a call another one may change OWSSigner's credential.
\* A Bitcoin call still signs with the key it fetched: the credential of signDigest
\* is read after getPublicKey was answered (bitcoin/namespace.ts:87).  So does a viem
\* account or Kit signer with a fetched address, if it was built with a
\* credentialId or if OWSSigner's credential is that of the address when the
\* signature is asked for (solana/namespace.ts:67,93, solana/to-kit-signer.ts:43-50).
\* A recovery session is excepted: getPublicKey never uses it, signDigest always does.
FetchedKeySigns ==
  \A c \in Calls :
    Signed(c) /\ call[c].fetched /\ call[c].signer \in Passkeys =>
      \/ call[c].signer = call[c].key
      \/ call[c].kind # "bitcoin" /\ call[c].named = None /\ call[c].asked # call[c].key

\* Not so in the code: a passkey that signs for a fetched address is the passkey of
\* the address.  A viem account, or a Kit signer built without a credentialId, signs
\* for whatever credential OWSSigner has by then (solana/to-kit-signer.ts:43-50).
AddressOfItsPasskey ==
  \A c \in Calls :
    Signed(c) /\ call[c].fetched /\ call[c].signer \in Passkeys =>
      call[c].signer = call[c].key

\* The cached addresses and lastPublicKeyData are of one key, unless the
\* Branding Layer put an EVM address into the cache itself
\* (owssigner.ts:249, evm/to-viem-account.ts:43).
CachesOfOneKey == ~given => \A a \in Addresses : cached[a] = lastKeys

\* Not so in the code: a Bitcoin transaction is signed by the key its script and
\* its sighashes were computed for (bitcoin/marshal.ts:46-48,113-116).  The key is
\* that of lastPublicKeyData; a recovery session started meanwhile signs with its
\* own (bitcoin/namespace.ts:61-62,87).
BitcoinSpendsOwnKey ==
  \A c \in Calls : Signed(c) /\ call[c].kind = "bitcoin" /\ call[c].batch # <<>> =>
    call[c].signer = call[c].key
=============================================================================
