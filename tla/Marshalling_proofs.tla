-------------------------- MODULE Marshalling_proofs --------------------------
(***************************************************************************)
(* What goes from one layer to the other arrives as what it was.           *)
(* SignerNamespaces: the key a call fetched is the key that signs, the     *)
(* caches are of one key and every item of a batch gets its own            *)
(* signatures, for any number of calls, passkeys and scalars, and any      *)
(* batches.  CoseKey: the public key of every registration arrives, for    *)
(* every key, encoding and surroundings.  Both need what a recursive       *)
(* definition computes for every input: induction over the numbers, as a   *)
(* lemma on sets of numbers (SetInduction).                                *)
(***************************************************************************)
EXTENDS SignerNamespaces, CoseKey, SequenceTheorems, WellFoundedInduction, TLAPS

\* A call as far as the argument needs its type: what it signs, for which key
\* and with which result may be anything.
IsCall(r) ==
  r \in [kind : Kinds, stage : Stages, address : {r.address}, batch : {r.batch},
         named : OrNone(Passkeys), asked : OrNone(Passkeys), key : {r.key},
         fetched : BOOLEAN, signer : OrNone(Keys), result : {r.result}]

\* An RPC under way names the credential the caller named.
AsksForNamed(r) ==
  r.stage \in {"getPublicKey", "keyed", "signDigest", "ceremony", "signed"} =>
    r.named \in {None, r.asked}

\* A passkey signs, or answers, if it is the one asked for.
SignerIsAsked(r) ==
  r.signer \in Passkeys => r.asked \in {None, r.signer} /\ r.named \in {None, r.asked}

AnswerHasSigner(r) == r.stage = "keyed" => r.signer \in Passkeys

\* A fetched key is that of the credential the caller named, and the one that a
\* Bitcoin call asks for when it has its digests.
FetchedIsAsked(r) ==
  r.fetched => /\ r.key # None
               /\ r.named \in {None, r.key}
               /\ r.kind = "bitcoin" => r.asked = r.key

CallInv(r) ==
  IsCall(r) /\ AsksForNamed(r) /\ SignerIsAsked(r) /\ AnswerHasSigner(r) /\ FetchedIsAsked(r)

IInv ==
  /\ call = [c \in Calls |-> call[c]]
  /\ \A c \in Calls : CallInv(call[c])
  /\ credentialId \in OrNone(Passkeys)
  /\ session \in OrNone(Scalars)

-----------------------------------------------------------------------------
(* Lemmas about one call. *)

LEMMA UnusedIsCall == IsCall(Unused)
  BY DEF IsCall, Unused, Kinds, Stages, OrNone

\* What a call keeps when it ends or has signatures.
LEMMA EndKeeps ==
  ASSUME NEW r, CallInv(r), NEW s \in {"done", "failed"}
  PROVE  CallInv([r EXCEPT !.stage = s])
<1> DEFINE q == [r EXCEPT !.stage = s]
<1>1. IsCall(r)
  BY DEF CallInv
<1>2. IsCall(q) /\ q.stage = s
  BY <1>1 DEF IsCall, Stages
<1>3. /\ q.named = r.named /\ q.asked = r.asked /\ q.signer = r.signer
      /\ q.key = r.key /\ q.kind = r.kind /\ q.fetched = r.fetched
  BY <1>1 DEF IsCall
<1> HIDE DEF q
<1> QED
  BY <1>2, <1>3 DEF CallInv, AsksForNamed, SignerIsAsked, AnswerHasSigner, FetchedIsAsked, q

\* A call that nobody signed yet starts its RPC.
LEMMA RequestingKeeps ==
  ASSUME NEW r, CallInv(r), r.signer = None, r.kind = "bitcoin" => ~ r.fetched,
         NEW m \in {"getPublicKey", "signDigest"}, NEW id \in OrNone(Passkeys)
  PROVE  CallInv(Requesting(r, m, id))
<1> DEFINE q == Requesting(r, m, id)
<1>1. IsCall(r)
  BY DEF CallInv
<1>2. r.named \in OrNone(Passkeys)
  BY <1>1 DEF IsCall
<1>3. IsCall(q) /\ q.stage = m /\ q.asked = Named(r.named, id)
  BY <1>1, <1>2 DEF IsCall, Stages, Requesting, Named
<1>4. /\ q.named = r.named /\ q.signer = r.signer
      /\ q.key = r.key /\ q.kind = r.kind /\ q.fetched = r.fetched
  BY <1>1 DEF IsCall, Requesting
<1> HIDE DEF q
<1>5. AsksForNamed(q) /\ AnswerHasSigner(q)
  BY <1>3, <1>4 DEF AsksForNamed, AnswerHasSigner, Named
<1>6. SignerIsAsked(q)
  BY <1>4, KeysAssumption DEF SignerIsAsked
<1>7. FetchedIsAsked(q)
  BY <1>4 DEF CallInv, FetchedIsAsked
<1> QED  BY <1>3, <1>5, <1>6, <1>7 DEF CallInv, q

\* An answer by a passkey: a call gets its signer.
LEMMA AnswerKeeps ==
  ASSUME NEW r, CallInv(r), r.stage \in {"getPublicKey", "ceremony"},
         NEW k \in Passkeys, r.asked \in {None, k}, NEW s \in {"keyed", "signed"}
  PROVE  CallInv([r EXCEPT !.stage = s, !.signer = k])
<1> DEFINE q == [r EXCEPT !.stage = s, !.signer = k]
<1>1. IsCall(r)
  BY DEF CallInv
<1>2. IsCall(q) /\ q.stage = s /\ q.signer = k
  BY <1>1 DEF IsCall, Stages, OrNone, Keys
<1>3. /\ q.named = r.named /\ q.asked = r.asked
      /\ q.key = r.key /\ q.kind = r.kind /\ q.fetched = r.fetched
  BY <1>1 DEF IsCall
<1> HIDE DEF q
<1>4. r.named \in {None, r.asked}
  BY DEF CallInv, AsksForNamed
<1> QED
  BY <1>2, <1>3, <1>4
     DEF CallInv, AsksForNamed, SignerIsAsked, AnswerHasSigner, FetchedIsAsked, q

\* The cache answers, or an RPC starts.
LEMMA ResolveKeeps ==
  ASSUME IInv, NEW r, CallInv(r), r.signer = None, ~ r.fetched
  PROVE  CallInv(Resolve(r))
<1>1. CASE cached[r.address] # None
  <2> DEFINE q == Resolve(r)
  <2>1. IsCall(r)
    BY DEF CallInv
  <2>2. IsCall(q) /\ q.stage = "done"
    BY <1>1, <2>1 DEF IsCall, Resolve, Stages
  <2>3. q.signer = r.signer /\ q.fetched = r.fetched
    BY <1>1, <2>1 DEF IsCall, Resolve
  <2> HIDE DEF q
  <2> QED
    BY <2>2, <2>3, KeysAssumption
       DEF CallInv, AsksForNamed, SignerIsAsked, AnswerHasSigner, FetchedIsAsked, q
<1>2. CASE cached[r.address] = None
  BY <1>2, RequestingKeeps DEF Resolve, IInv
<1> QED  BY <1>1, <1>2

\* A call as each of the methods makes it.
Fresh(r) ==
  /\ IsCall(r) /\ r.stage = "unused" /\ r.signer = None
  /\ r.fetched => r.kind # "bitcoin" /\ r.key # None /\ r.named \in {None, r.key}

LEMMA FreshCall ==
  ASSUME NEW r, Fresh(r)
  PROVE  CallInv(r) /\ r.signer = None
  BY KeysAssumption
     DEF Fresh, CallInv, AsksForNamed, SignerIsAsked, AnswerHasSigner, FetchedIsAsked

(* The actions. *)

\* The invariant after a step that changes one call.
LEMMA CallKeeps ==
  ASSUME IInv, NEW c \in Calls, NEW r, CallInv(r), Becomes(c, r),
         credentialId' \in OrNone(Passkeys), session' = session
  PROVE  IInv'
<1>1. call' = [d \in Calls |-> call'[d]]
  BY DEF IInv, Becomes
<1>2. \A d \in Calls : CallInv(call'[d])
  <2> TAKE d \in Calls
  <2>1. call'[d] = IF d = c THEN r ELSE call[d]
    BY DEF IInv, Becomes
  <2> QED  BY <2>1 DEF IInv
<1> QED  BY <1>1, <1>2 DEF IInv

\* A batch of digests to be signed.
LEMMA SignEachKeeps ==
  ASSUME IInv, NEW c \in Calls, NEW r, Fresh(r), r.kind # "bitcoin", SignEach(c, r)
  PROVE  IInv'
<1>1. CallInv(r) /\ r.signer = None
  BY FreshCall
<1>2. CallInv(Requesting(r, "signDigest", credentialId))
  BY <1>1, RequestingKeeps DEF IInv
<1>3. CallInv([r EXCEPT !.stage = "done"])
  BY <1>1, EndKeeps
<1> QED  BY <1>2, <1>3, CallKeeps DEF SignEach, ownCaches, IInv

LEMMA InitInv == Init => IInv
  BY UnusedIsCall, FreshCall DEF Init, IInv, OrNone, Fresh, Unused

LEMMA AddressKeeps ==
  ASSUME IInv, NEW c \in Calls, NEW a, NEW named \in OrNone(Passkeys),
         GetAccountAddress(c, a, named)
  PROVE  IInv'
<1> DEFINE r == [Unused EXCEPT !.address = a, !.named = named]
<1>0. Fresh(r) /\ ~ r.fetched
  BY UnusedIsCall DEF Fresh, Unused, IsCall, Kinds
<1>1. CallInv(r) /\ r.signer = None /\ ~ r.fetched
  BY <1>0, FreshCall
<1> HIDE DEF r
<1>2. CallInv(Resolve(r))
  BY <1>1, ResolveKeeps
<1> QED  BY <1>2, CallKeeps DEF GetAccountAddress, ownCaches, r, IInv

LEMMA BatchKeeps ==
  ASSUME IInv, NEW c \in Calls, NEW batch, NEW named \in OrNone(Passkeys),
         SignEvm(c, batch, named) \/ SignSolana(c, batch, named)
  PROVE  IInv'
<1> SUFFICES ASSUME NEW kind \in {"evm", "solana"},
                    SignEach(c, [Unused EXCEPT !.kind = kind, !.batch = batch, !.named = named])
             PROVE  IInv'
  BY DEF SignEvm, SignSolana
<1> DEFINE r == [Unused EXCEPT !.kind = kind, !.batch = batch, !.named = named]
<1>1. Fresh(r) /\ r.kind # "bitcoin"
  BY UnusedIsCall DEF Fresh, Unused, IsCall, Kinds
<1> HIDE DEF r
<1> QED  BY <1>1, SignEachKeeps DEF r

LEMMA BitcoinKeeps ==
  ASSUME IInv, NEW c \in Calls, NEW batch, NEW named \in OrNone(Passkeys),
         SignBitcoin(c, batch, named)
  PROVE  IInv'
<1> DEFINE r == [Unused EXCEPT !.kind = "bitcoin", !.batch = batch, !.named = named,
                               !.key = lastKeys]
<1>0. Fresh(r) /\ ~ r.fetched
  BY UnusedIsCall DEF Fresh, Unused, IsCall, Kinds
<1>1. CallInv(r) /\ r.signer = None /\ ~ r.fetched
  BY <1>0, FreshCall
<1> HIDE DEF r
<1>2. /\ CallInv(Requesting(r, "signDigest", credentialId))
      /\ CallInv(Requesting(r, "getPublicKey", credentialId))
  BY <1>1, RequestingKeeps DEF IInv
<1>3. CallInv([r EXCEPT !.stage = "done"])
  BY <1>1, EndKeeps
<1> QED  BY <1>2, <1>3, CallKeeps DEF SignBitcoin, ownCaches, r, IInv

LEMMA ViemAccountKeeps ==
  ASSUME IInv, NEW c \in Calls, NEW address, ToViemLocalAccount(c, address)
  PROVE  IInv'
<1> DEFINE r == [Unused EXCEPT !.kind = "viem"]
           q == [r EXCEPT !.stage = "done", !.key = address]
<1>0. Fresh(r) /\ ~ r.fetched
  BY UnusedIsCall DEF Fresh, Unused, IsCall, Kinds
<1>1. CallInv(r) /\ r.signer = None /\ ~ r.fetched
  BY <1>0, FreshCall
<1>2. CallInv([Unused EXCEPT !.kind = "viem", !.key = address])
  <2>1. Fresh([Unused EXCEPT !.kind = "viem", !.key = address])
    BY UnusedIsCall DEF Fresh, Unused, IsCall, Kinds
  <2> QED  BY <2>1, FreshCall
<1>3. q = [[Unused EXCEPT !.kind = "viem", !.key = address] EXCEPT !.stage = "done"]
  BY DEF Unused
<1>4. CallInv(q)
  BY <1>2, <1>3, EndKeeps
<1> HIDE DEF r, q
<1>5. CallInv(Resolve(r))
  BY <1>1, ResolveKeeps
<1>6. Becomes(c, Resolve(r)) \/ Becomes(c, q)
  BY DEF ToViemLocalAccount, r, q
<1> QED  BY <1>4, <1>5, <1>6, CallKeeps DEF ToViemLocalAccount, IInv

LEMMA KitSignerKeeps ==
  ASSUME IInv, NEW c \in Calls, NEW address, NEW named \in OrNone(Passkeys),
         ToKitPartialSigner(c, address, named)
  PROVE  IInv'
<1> DEFINE r == [Unused EXCEPT !.kind = "kit", !.address = "solana", !.named = named]
           q == [r EXCEPT !.stage = "done", !.key = address]
<1>0. Fresh(r) /\ ~ r.fetched
  BY UnusedIsCall DEF Fresh, Unused, IsCall, Kinds
<1>1. CallInv(r) /\ r.signer = None /\ ~ r.fetched
  BY <1>0, FreshCall
<1>2. CallInv([r EXCEPT !.key = address])
  <2>1. Fresh([r EXCEPT !.key = address])
    BY UnusedIsCall DEF Fresh, Unused, IsCall, Kinds
  <2> QED  BY <2>1, FreshCall
<1>3. q = [[r EXCEPT !.key = address] EXCEPT !.stage = "done"]
  BY DEF Unused
<1>4. CallInv(q)
  BY <1>2, <1>3, EndKeeps
<1> HIDE DEF r, q
<1>5. CallInv(Resolve(r))
  BY <1>1, ResolveKeeps
<1>6. Becomes(c, Resolve(r)) \/ Becomes(c, q)
  BY DEF ToKitPartialSigner, r, q
<1> QED  BY <1>4, <1>5, <1>6, CallKeeps DEF ToKitPartialSigner, ownCaches, IInv

LEMMA SignAsKeeps ==
  ASSUME IInv, NEW c \in Calls, NEW a \in Calls,
         SignAsViem(c, a) \/ \E batch \in Batches \cup {<<>>} : SignAsKit(c, a, batch)
  PROVE  IInv'
<1>1. IsCall(call[a]) /\ FetchedIsAsked(call[a])
  BY DEF IInv, CallInv
<1>2. CASE SignAsViem(c, a)
  <2> DEFINE r == [Unused EXCEPT !.kind = "evm", !.batch = <<1>>,
                                 !.key = call[a].key, !.fetched = call[a].fetched]
  <2>1. IsCall(r) /\ r.kind = "evm" /\ r.stage = "unused" /\ r.signer = None
    BY <1>1, UnusedIsCall DEF IsCall, Unused, Kinds
  <2>2. r.named = None /\ r.key = call[a].key /\ r.fetched = call[a].fetched
    BY UnusedIsCall DEF IsCall, Unused
  <2> HIDE DEF r
  <2>3. Fresh(r)
    BY <1>1, <2>1, <2>2 DEF Fresh, FetchedIsAsked
  <2> QED  BY <1>2, <2>1, <2>3, SignEachKeeps DEF SignAsViem, r
<1>3. CASE \E batch \in Batches \cup {<<>>} : SignAsKit(c, a, batch)
  <2>1. PICK batch \in Batches \cup {<<>>} : SignAsKit(c, a, batch)
    BY <1>3
  <2> DEFINE r == [Unused EXCEPT !.kind = "solana", !.batch = batch, !.named = call[a].named,
                                 !.key = call[a].key, !.fetched = call[a].fetched]
  <2>2. IsCall(r) /\ r.kind = "solana" /\ r.stage = "unused" /\ r.signer = None
    BY <1>1, UnusedIsCall DEF IsCall, Unused, Kinds
  <2>3. r.named = call[a].named /\ r.key = call[a].key /\ r.fetched = call[a].fetched
    BY UnusedIsCall DEF IsCall, Unused
  <2> HIDE DEF r
  <2>4. Fresh(r)
    BY <1>1, <2>2, <2>3 DEF Fresh, FetchedIsAsked
  <2> QED  BY <2>1, <2>2, <2>4, SignEachKeeps DEF SignAsKit, r
<1> QED  BY <1>2, <1>3

LEMMA AcceptKeeps ==
  ASSUME IInv, NEW c \in Calls, Accept(c)
  PROVE  IInv'
<1> DEFINE r == call[c]
           q == IF session # None THEN [r EXCEPT !.stage = "signed", !.signer = session]
                ELSE [r EXCEPT !.stage = "ceremony"]
<1>1. CallInv(r) /\ IsCall(r) /\ r.stage = "signDigest"
  BY DEF IInv, CallInv, Accept
<1>2. IsCall(q) /\ q.stage \in {"signed", "ceremony"}
  BY <1>1 DEF IsCall, Stages, IInv, OrNone, Keys
<1>3. /\ q.named = r.named /\ q.asked = r.asked
      /\ q.key = r.key /\ q.kind = r.kind /\ q.fetched = r.fetched
      /\ q.signer = IF session # None THEN session ELSE r.signer
  BY <1>1 DEF IsCall
<1>4. Becomes(c, q)
  BY DEF Accept
<1> HIDE DEF q, r
<1>5. r.named \in {None, r.asked}
  BY <1>1 DEF CallInv, AsksForNamed
<1>6. session # None => session \notin Passkeys
  BY KeysAssumption DEF IInv, OrNone
<1>7. CallInv(q)
  BY <1>1, <1>2, <1>3, <1>5, <1>6
     DEF CallInv, AsksForNamed, SignerIsAsked, AnswerHasSigner, FetchedIsAsked
<1> QED  BY <1>4, <1>7, CallKeeps DEF Accept, ownCaches, IInv

LEMMA KeyDerivedKeeps ==
  ASSUME IInv, NEW c \in Calls, NEW k \in Passkeys, KeyDerived(c, k)
  PROVE  IInv'
<1>1. /\ CallInv([call[c] EXCEPT !.stage = "keyed", !.signer = k])
      /\ CallInv([call[c] EXCEPT !.stage = "signed", !.signer = k])
  BY AnswerKeeps DEF KeyDerived, IInv
<1> QED  BY <1>1, CallKeeps DEF KeyDerived, IInv

LEMMA PublicKeyKeeps ==
  ASSUME IInv, NEW c \in Calls, PublicKey(c)
  PROVE  IInv'
<1> DEFINE k == call[c].signer
           r == [call[c] EXCEPT !.key = k, !.fetched = TRUE, !.signer = None]
           q == IF r.kind = "bitcoin" THEN Requesting(r, "signDigest", k)
                ELSE [r EXCEPT !.stage = "done"]
<1>1. CallInv(call[c]) /\ IsCall(call[c]) /\ call[c].stage = "keyed"
  BY DEF IInv, CallInv, PublicKey
<1>2. k \in Passkeys /\ call[c].asked \in {None, k} /\ call[c].named \in {None, call[c].asked}
  BY <1>1 DEF CallInv, AnswerHasSigner, SignerIsAsked
<1>3. Becomes(c, q) /\ credentialId' = k /\ session' = session
  BY DEF PublicKey
<1>4. /\ IsCall(r) /\ r.named = call[c].named /\ r.asked = call[c].asked
      /\ r.key = k /\ r.fetched /\ r.signer = None /\ r.kind = call[c].kind
  BY <1>1 DEF IsCall, OrNone
<1> HIDE DEF r, k
<1>5. CASE r.kind = "bitcoin"
  <2> DEFINE p == Requesting(r, "signDigest", k)
  <2>1. /\ IsCall(p) /\ p.stage = "signDigest" /\ p.asked = Named(r.named, k)
        /\ p.named = r.named /\ p.key = k /\ p.fetched /\ p.signer = None
    BY <1>2, <1>4 DEF Requesting, IsCall, Stages, Named, OrNone
  <2> HIDE DEF p
  <2>2. p.named \in {None, k} /\ p.asked = k /\ k # None
    BY <1>2, <1>4, <2>1, KeysAssumption DEF Named
  <2>3. CallInv(p)
    BY <2>1, <2>2, KeysAssumption
       DEF CallInv, AsksForNamed, SignerIsAsked, AnswerHasSigner, FetchedIsAsked
  <2> QED  BY <1>2, <1>3, <1>5, <2>3, CallKeeps DEF OrNone, p
<1>6. CASE r.kind # "bitcoin"
  <2> DEFINE p == [r EXCEPT !.stage = "done"]
  <2>1. /\ IsCall(p) /\ p.stage = "done" /\ p.kind = r.kind
        /\ p.named = r.named /\ p.key = k /\ p.fetched /\ p.signer = None
    BY <1>4 DEF IsCall, Stages
  <2> HIDE DEF p
  <2>2. CallInv(p)
    BY <1>2, <1>4, <1>6, <2>1, KeysAssumption
       DEF CallInv, AsksForNamed, SignerIsAsked, AnswerHasSigner, FetchedIsAsked
  <2> QED  BY <1>2, <1>3, <1>6, <2>2, CallKeeps DEF OrNone, p
<1> QED  BY <1>5, <1>6

LEMMA DigestSignedKeeps ==
  ASSUME IInv, NEW c \in Calls, DigestSigned(c)
  PROVE  IInv'
<1> DEFINE r == call[c]
           x == Finalize(r.batch, SignParsedDigests(r.batch, r.signer))
           q == [r EXCEPT !.stage = "done", !.result = x]
<1>1. CallInv(r) /\ IsCall(r) /\ r.stage = "signed"
  BY DEF IInv, CallInv, DigestSigned
<1>2. Becomes(c, q) /\ session' = session
  BY DEF DigestSigned
<1>3. credentialId' \in OrNone(Passkeys)
  <2>1. r.asked \in OrNone(Passkeys) /\ r.signer \in OrNone(Keys)
    BY <1>1 DEF IsCall
  <2> QED  BY <2>1 DEF DigestSigned, Named, IInv, OrNone, Keys
<1> HIDE DEF x
<1>4. IsCall(q) /\ q.stage = "done"
  BY <1>1 DEF IsCall, Stages
<1>5. /\ q.named = r.named /\ q.asked = r.asked /\ q.signer = r.signer
      /\ q.key = r.key /\ q.kind = r.kind /\ q.fetched = r.fetched
  BY <1>1 DEF IsCall
<1> HIDE DEF q, r
<1>6. CallInv(q)
  BY <1>1, <1>4, <1>5
     DEF CallInv, AsksForNamed, SignerIsAsked, AnswerHasSigner, FetchedIsAsked
<1> QED  BY <1>2, <1>3, <1>6, CallKeeps

LEMMA DeniedKeeps ==
  ASSUME IInv, NEW c \in Calls, Denied(c)
  PROVE  IInv'
<1>1. CallInv([call[c] EXCEPT !.stage = "failed"])
  BY EndKeeps DEF IInv
<1> QED  BY <1>1, CallKeeps DEF Denied, ownCaches, IInv

\* clearSession rejects what is pending.
LEMMA ClearKeeps ==
  ASSUME IInv, ClearSession
  PROVE  IInv'
<1>1. \A c \in Calls : CallInv(call'[c])
  <2> TAKE c \in Calls
  <2>1. CallInv([call[c] EXCEPT !.stage = "failed"])
    BY EndKeeps DEF IInv
  <2> QED  BY <2>1 DEF IInv, ClearSession
<1>2. call' = [c \in Calls |-> call'[c]]
  BY DEF ClearSession
<1> QED  BY <1>1, <1>2 DEF IInv, ClearSession, OrNone

LEMMA SessionKeeps ==
  ASSUME IInv, ClearRecoverySession \/ \E k \in Scalars : StartRecoverySession(k)
  PROVE  IInv'
  BY DEF IInv, ClearRecoverySession, StartRecoverySession, ownCaches, OrNone

LEMMA StepInv == IInv /\ [Next]_vars => IInv'
<1> SUFFICES ASSUME IInv, [Next]_vars
             PROVE  IInv'
  OBVIOUS
<1>1. ASSUME NEW c \in Calls, NEW named \in OrNone(Passkeys),
             \/ \E a \in Addresses : GetAccountAddress(c, a, named)
             \/ \E batch \in Batches \cup {<<>>} :
                  SignEvm(c, batch, named) \/ SignSolana(c, batch, named)
                  \/ SignBitcoin(c, batch, named)
             \/ \E address \in OrNone(Keys) : ToKitPartialSigner(c, address, named)
      PROVE  IInv'
  BY <1>1, AddressKeeps, BatchKeeps, BitcoinKeeps, KitSignerKeeps
<1>2. ASSUME NEW c \in Calls,
             \/ \E address \in OrNone(Keys) : ToViemLocalAccount(c, address)
             \/ \E a \in Calls :
                  SignAsViem(c, a) \/ \E batch \in Batches \cup {<<>>} : SignAsKit(c, a, batch)
      PROVE  IInv'
  BY <1>2, ViemAccountKeeps, SignAsKeeps
<1>3. ASSUME NEW c \in Calls,
             \/ \E k \in Passkeys : KeyDerived(c, k)
             \/ Accept(c) \/ PublicKey(c) \/ DigestSigned(c) \/ Denied(c)
      PROVE  IInv'
  BY <1>3, KeyDerivedKeeps, AcceptKeeps, PublicKeyKeeps, DigestSignedKeeps, DeniedKeeps
<1>4. CASE UNCHANGED vars
  BY <1>4 DEF vars, IInv
<1> QED  BY <1>1, <1>2, <1>3, <1>4, SessionKeeps, ClearKeeps DEF Next

-----------------------------------------------------------------------------
(* Theorems. *)

LEMMA FetchedFollows == IInv => FetchedKeySigns
<1> SUFFICES ASSUME IInv, NEW c \in Calls,
                    Signed(c), call[c].fetched, call[c].signer \in Passkeys,
                    \/ call[c].kind = "bitcoin" \/ call[c].named # None
                    \/ call[c].asked = call[c].key
             PROVE  call[c].signer = call[c].key
  BY DEF FetchedKeySigns
<1>1. SignerIsAsked(call[c]) /\ FetchedIsAsked(call[c])
  BY DEF IInv, CallInv
<1> QED  BY <1>1, KeysAssumption DEF SignerIsAsked, FetchedIsAsked

\* A passkey that signs for a key a call fetched is that key, whatever other calls
\* do to OWSSigner meanwhile, for any number of calls; but not for a viem account
\* or Kit signer that names no credential when OWSSigner has another one by then.
THEOREM FetchedKeyCorrect == Spec => []FetchedKeySigns
<1>1. IInv => FetchedKeySigns
  BY FetchedFollows
<1> QED  BY <1>1, InitInv, StepInv, PTL DEF Spec

\* The caches and lastPublicKeyData are of one key.  Every write sets them all,
\* to viem's given address excepted.
LEMMA CachesInit == Init => CachesOfOneKey
  BY DEF Init, CachesOfOneKey, NoAddresses

LEMMA CachesStep == CachesOfOneKey /\ [Next]_vars => CachesOfOneKey'
<1> SUFFICES ASSUME CachesOfOneKey, [Next]_vars
             PROVE  CachesOfOneKey'
  OBVIOUS
<1> DEFINE Keep == UNCHANGED <<cached, lastKeys, given>>
           Fill == cached' = [a \in Addresses |-> lastKeys']
<1>1. CASE Keep
  BY <1>1 DEF CachesOfOneKey
<1>2. CASE Fill
  BY <1>2 DEF CachesOfOneKey
<1>3. CASE given'
  BY <1>3 DEF CachesOfOneKey
<1>4. ASSUME NEW c \in Calls, NEW named \in OrNone(Passkeys)
      PROVE  /\ \A a \in Addresses : GetAccountAddress(c, a, named) => Keep
             /\ \A batch \in Batches \cup {<<>>} :
                  SignEvm(c, batch, named) \/ SignSolana(c, batch, named)
                  \/ SignBitcoin(c, batch, named) => Keep
             /\ \A address \in OrNone(Keys) : ToKitPartialSigner(c, address, named) => Keep
  BY DEF GetAccountAddress, SignEach, SignEvm, SignSolana, SignBitcoin, ToKitPartialSigner,
         ownCaches
<1>5. ASSUME NEW c \in Calls
      PROVE  /\ \A address \in OrNone(Keys) :
                  ToViemLocalAccount(c, address) => Keep \/ given'
             /\ \A a \in Calls : SignAsViem(c, a) => Keep
             /\ \A a \in Calls, batch \in Batches \cup {<<>>} : SignAsKit(c, a, batch) => Keep
             /\ Accept(c) \/ Denied(c) \/ DigestSigned(c) => Keep
             /\ PublicKey(c) => Fill
             /\ \A k \in Passkeys : KeyDerived(c, k) => Fill
  BY DEF SignEach, ToViemLocalAccount, SignAsViem, SignAsKit, Accept, Denied, DigestSigned,
         PublicKey, KeyDerived, CacheAddresses, ownCaches
<1>6. /\ \A k \in Scalars : StartRecoverySession(k) => Fill
      /\ ClearRecoverySession => Keep
      /\ ClearSession => Fill
  BY DEF StartRecoverySession, ClearRecoverySession, ClearSession, CacheAddresses, ownCaches,
         NoAddresses
<1>7. CASE UNCHANGED vars
  BY <1>1, <1>7 DEF vars
<1> QED  BY <1>1, <1>2, <1>3, <1>4, <1>5, <1>6, <1>7 DEF Next

\* The cached addresses are of the key of lastPublicKeyData, for any number of
\* calls, as long as the Branding Layer gives no address of its own.
THEOREM CachesCorrect == Spec => []CachesOfOneKey
  BY CachesInit, CachesStep, PTL DEF Spec

-----------------------------------------------------------------------------
(* Induction over a set of numbers.  The library's theorems on induction take an *)
(* operator; its minimum of a well-founded order, WFMin, takes a set.             *)

\* Every set of numbers with a member has a least one.
LEMMA LeastNatural ==
  ASSUME NEW T \in SUBSET Nat, T # {}
  PROVE  \E n \in T : \A m \in T : n <= m
<1>1. PICK R : R = OpToRel(<, Nat)
  OBVIOUS
<1>2. IsWellFoundedOn(R, Nat)
  BY <1>1, NatLessThanWellFounded
<1>3. PICK n \in T : \A m \in T : <<m, n>> \notin R
  BY <1>2, WFMin
<1>4. \A m \in T : ~(m < n)
  <2>1. R = {ss \in Nat \X Nat : ss[1] < ss[2]}
    BY <1>1 DEF OpToRel
  <2>2. \A m \in Nat, k \in Nat : m < k => <<m, k>> \in R
    BY <2>1
  <2> QED  BY <1>3, <2>2
<1> QED  BY <1>4

\* A set that has 0, and with each number the next, has them all.
LEMMA SetInduction ==
  ASSUME NEW S \in SUBSET Nat, 0 \in S, \A n \in S : n + 1 \in S
  PROVE  S = Nat
<1> SUFFICES ASSUME Nat \ S # {}
             PROVE  FALSE
  OBVIOUS
<1>1. PICK n \in Nat \ S : \A m \in Nat \ S : n <= m
  BY LeastNatural
<1>2. n # 0 /\ n - 1 \in Nat /\ (n - 1) + 1 = n /\ ~(n <= n - 1)
  BY <1>1
<1>3. n - 1 \in S
  BY <1>1, <1>2
<1> QED  BY <1>1, <1>2, <1>3

-----------------------------------------------------------------------------
(* Where the digests of an item are. *)

\* f adds up the first n items of b.
Sums(f, b, n) == f \in [0..n -> Nat] /\ f[0] = 0 /\ \A k \in 1..n : f[k] = f[k - 1] + b[k]

\* The recursion that adds up a batch has a solution.
LEMMA SumsExist ==
  ASSUME NEW b \in Seq(Nat), NEW n \in 0..Len(b)
  PROVE  \E f : Sums(f, b, n)
<1> DEFINE S == {m \in Nat : m <= Len(b) => \E f : Sums(f, b, m)}
<1>1. 0 \in S
  <2>1. Sums([k \in 0..0 |-> 0], b, 0)
    BY DEF Sums
  <2> QED  BY <2>1
<1>2. ASSUME NEW m \in S
      PROVE  m + 1 \in S
  <2> SUFFICES ASSUME m + 1 <= Len(b)
               PROVE  \E f : Sums(f, b, m + 1)
    OBVIOUS
  <2>1. m \in Nat /\ m <= Len(b) /\ b[m + 1] \in Nat
    OBVIOUS
  <2>2. PICK f : Sums(f, b, m)
    BY <2>1
  <2>3. PICK g : g = [k \in 0..m + 1 |-> IF k <= m THEN f[k] ELSE f[m] + b[m + 1]]
    OBVIOUS
  <2>4. /\ f \in [0..m -> Nat] /\ f[0] = 0 /\ \A k \in 1..m : f[k] = f[k - 1] + b[k]
    BY <2>2 DEF Sums
  <2>5. /\ \A k \in 0..m : g[k] = f[k]
        /\ g[m + 1] = f[m] + b[m + 1]
    BY <2>1, <2>3
  <2>6. f[m] \in Nat /\ \A k \in 0..m : f[k] \in Nat
    BY <2>1, <2>4
  <2>7. g \in [0..m + 1 -> Nat]
    BY <2>1, <2>3, <2>6
  <2>8. g[0] = 0
    BY <2>1, <2>4, <2>5
  <2>9. ASSUME NEW k \in 1..m + 1
        PROVE  g[k] = g[k - 1] + b[k]
    <3>1. CASE k = m + 1
      <4>1. k - 1 = m /\ g[m] = f[m]
        BY <2>1, <2>5, <3>1
      <4> QED  BY <2>5, <3>1, <4>1
    <3>2. CASE k # m + 1
      <4>1. k \in 1..m /\ k \in 0..m /\ k - 1 \in 0..m
        BY <2>1, <3>2
      <4> QED  BY <2>4, <2>5, <4>1
    <3> QED  BY <3>1, <3>2
  <2>10. Sums(g, b, m + 1)
    BY <2>7, <2>8, <2>9 DEF Sums
  <2> QED  BY <2>10
<1> HIDE DEF S
<1>3. S \in SUBSET Nat
  BY DEF S
<1>4. S = Nat
  BY <1>1, <1>2, <1>3, SetInduction
<1> QED  BY <1>4 DEF S

\* Each item's digests begin where those of the item before it end.
LEMMA OffsetFacts ==
  ASSUME NEW b \in Seq(Nat)
  PROVE  /\ Offset(b, 1) = 0
         /\ \A i \in 1..Len(b) + 1 : Offset(b, i) \in Nat
         /\ \A i \in 1..Len(b) : Offset(b, i + 1) = Offset(b, i) + b[i]
<1>1. PICK f : Sums(f, b, Len(b))
  BY SumsExist
<1> DEFINE F == CHOOSE g : g = [k \in 0..Len(b) |-> IF k = 0 THEN 0 ELSE g[k - 1] + b[k]]
<1>2. f = [k \in 0..Len(b) |-> IF k = 0 THEN 0 ELSE f[k - 1] + b[k]]
  BY <1>1 DEF Sums
<1>3. F = [k \in 0..Len(b) |-> IF k = 0 THEN 0 ELSE F[k - 1] + b[k]]
  BY <1>2
<1>4. \A i : Offset(b, i) = F[i - 1]
  BY DEF Offset
<1> HIDE DEF F
<1> DEFINE S == {m \in Nat : m <= Len(b) => F[m] \in Nat}
<1>5. Len(b) \in Nat
  OBVIOUS
<1>6. F[0] = 0 /\ \A k \in 1..Len(b) : F[k] = F[k - 1] + b[k]
  BY <1>3, <1>5
<1>7. S = Nat
  <2>1. 0 \in S
    BY <1>6
  <2>2. ASSUME NEW m \in S
        PROVE  m + 1 \in S
    <3> SUFFICES ASSUME m + 1 <= Len(b)
                 PROVE  F[m + 1] \in Nat
      OBVIOUS
    <3>1. m + 1 \in 1..Len(b) /\ (m + 1) - 1 = m /\ F[m] \in Nat /\ b[m + 1] \in Nat
      BY <1>5
    <3> QED  BY <1>6, <3>1
  <2> HIDE DEF S
  <2>3. S \in SUBSET Nat
    BY DEF S
  <2> QED  BY <2>1, <2>2, <2>3, SetInduction
<1>8. \A i \in 1..Len(b) + 1 : Offset(b, i) \in Nat
  BY <1>4, <1>5, <1>7
<1>9. \A i \in 1..Len(b) : Offset(b, i + 1) = Offset(b, i) + b[i]
  <2> TAKE i \in 1..Len(b)
  <2>1. (i + 1) - 1 = i
    BY <1>5
  <2> QED  BY <1>4, <1>6, <2>1
<1> QED  BY <1>4, <1>6, <1>8, <1>9

\* Later items come after the digests of earlier ones.
LEMMA OffsetGrows ==
  ASSUME NEW b \in Seq(Nat), NEW i \in 1..Len(b), NEW j \in 1..Len(b) + 1, i < j
  PROVE  Offset(b, i) + b[i] <= Offset(b, j)
<1> DEFINE S == {m \in Nat : i < m /\ m <= Len(b) + 1 => Offset(b, i) + b[i] <= Offset(b, m)}
<1>1. Len(b) \in Nat /\ i \in Nat /\ j \in Nat
  OBVIOUS
<1>2. 0 \in S
  BY <1>1
<1>3. ASSUME NEW m \in S
      PROVE  m + 1 \in S
  <2> SUFFICES ASSUME i < m + 1, m + 1 <= Len(b) + 1
               PROVE  Offset(b, i) + b[i] <= Offset(b, m + 1)
    OBVIOUS
  <2>1. m \in 1..Len(b) /\ m \in 1..Len(b) + 1 /\ i \in 1..Len(b) + 1
    BY <1>1
  <2>2. /\ Offset(b, m + 1) = Offset(b, m) + b[m] /\ b[m] \in Nat /\ b[i] \in Nat
        /\ Offset(b, m) \in Nat /\ Offset(b, i) \in Nat
    <3>1. b[m] \in Nat /\ b[i] \in Nat
      BY <2>1
    <3>2. \A h \in 1..Len(b) : Offset(b, h + 1) = Offset(b, h) + b[h]
      BY OffsetFacts
    <3>3. \A h \in 1..Len(b) + 1 : Offset(b, h) \in Nat
      BY OffsetFacts
    <3> QED  BY <2>1, <3>1, <3>2, <3>3
  <2>3. CASE i = m
    <3>1. Offset(b, i) + b[i] = Offset(b, m + 1)
      BY <2>2, <2>3
    <3> QED  BY <2>2, <3>1
  <2>4. CASE i < m
    <3>1. Offset(b, i) + b[i] <= Offset(b, m)
      BY <2>1, <2>4
    <3>2. \A x, y, z, w \in Nat : x + y <= z => x + y <= z + w
      OBVIOUS
    <3>3. Offset(b, i) + b[i] <= Offset(b, m) + b[m]
      BY <2>2, <3>1, <3>2
    <3> QED  BY <2>2, <3>3
  <2> QED  BY <1>1, <2>1, <2>3, <2>4
<1> HIDE DEF S
<1>4. S = Nat
  <2>1. S \in SUBSET Nat
    BY DEF S
  <2> QED  BY <1>2, <1>3, <2>1, SetInduction
<1> QED  BY <1>1, <1>4 DEF S

\* The j-th digest of item i is known for it.
LEMMA DigestFacts ==
  ASSUME NEW b \in Seq(Nat), NEW i \in 1..Len(b), NEW j \in 1..b[i]
  PROVE  /\ Offset(b, i) + j \in DOMAIN Digests(b)
         /\ Digests(b)[Offset(b, i) + j] = [item |-> i, input |-> j]
<1> DEFINE n == Offset(b, i) + j
<1>1. /\ Len(b) \in Nat /\ i \in 1..Len(b) + 1 /\ Len(b) + 1 \in 1..Len(b) + 1 /\ i < Len(b) + 1
      /\ b[i] \in Nat /\ j \in Nat /\ DOMAIN b = 1..Len(b)
  OBVIOUS
<1>2. Offset(b, i) \in Nat /\ Offset(b, Len(b) + 1) \in Nat
  BY <1>1, OffsetFacts
<1>3. Offset(b, i) < n /\ n <= Offset(b, i) + b[i] /\ n \in Nat
  BY <1>1, <1>2
<1>4. n \in 1..Offset(b, Len(b) + 1)
  <2>1. Offset(b, i) + b[i] <= Offset(b, Len(b) + 1)
    BY <1>1, OffsetGrows
  <2> QED  BY <1>1, <1>2, <1>3, <2>1
<1>5. ASSUME NEW h \in 1..Len(b), Offset(b, h) < n, n <= Offset(b, h) + b[h]
      PROVE  h = i
  <2>1. h \in 1..Len(b) + 1 /\ b[h] \in Nat
    BY <1>1
  <2>2. Offset(b, h) \in Nat
    BY <2>1, OffsetFacts
  <2>3. CASE h < i
    <3>1. Offset(b, h) + b[h] <= Offset(b, i)
      BY <1>1, <2>3, OffsetGrows
    <3> QED  BY <1>2, <1>3, <1>5, <2>1, <2>2, <3>1
  <2>4. CASE i < h
    <3>1. Offset(b, i) + b[i] <= Offset(b, h)
      BY <2>1, <2>4, OffsetGrows
    <3> QED  BY <1>1, <1>2, <1>3, <1>5, <2>2, <3>1
  <2> QED  BY <1>1, <2>1, <2>3, <2>4
<1> DEFINE I == CHOOSE h \in DOMAIN b : Offset(b, h) < n /\ n <= Offset(b, h) + b[h]
<1>6. I = i
  BY <1>1, <1>3, <1>5
<1>7. ItemOf(b, n) = i
  BY <1>6 DEF ItemOf
<1>8. n - Offset(b, i) = j
  BY <1>1, <1>2
<1> HIDE DEF n
<1>9. n \in DOMAIN Digests(b) /\ Digests(b)[n] = [item |-> i, input |-> j]
  BY <1>4, <1>7, <1>8 DEF Digests
<1> QED  BY <1>9 DEF n

\* The signature of that digest.
LEMMA SignatureFacts ==
  ASSUME NEW b \in Seq(Nat), NEW k, NEW i \in 1..Len(b), NEW j \in 1..b[i]
  PROVE  LET s == SignParsedDigests(b, k)[Offset(b, i) + j]
         IN s.item = i /\ s.input = j /\ s.by = k /\ YParity(s.v) = Recovery(s) % 2
<1> DEFINE n == Offset(b, i) + j
           d == Digests(b)[n]
<1>1. n \in DOMAIN Digests(b) /\ d = [item |-> i, input |-> j]
  BY DigestFacts
<1>2. PICK s : s = [item |-> d.item, input |-> d.input, by |-> k, v |-> 27 + (Recovery(d) % 2)]
  OBVIOUS
<1>3. SignParsedDigests(b, k)[n] = s
  BY <1>1, <1>2 DEF SignParsedDigests
<1>4. /\ s.item = i /\ s.input = j /\ s.by = k /\ s.v = 27 + (Recovery(d) % 2)
      /\ d.item = i /\ d.input = j
  BY <1>1, <1>2
<1>5. Recovery(d) = (i + 2 * j) % 4 /\ Recovery(s) = (i + 2 * j) % 4
  BY <1>4 DEF Recovery
<1>6. Recovery(d) \in Nat /\ Recovery(d) % 2 \in 0..1
  <2>1. i \in Nat /\ j \in Nat
    OBVIOUS
  <2> QED  BY <1>5, <2>1
<1>7. YParity(s.v) = Recovery(s) % 2
  <2>1. CASE Recovery(d) % 2 = 0
    <3>1. s.v = 27 /\ 27 % 2 = 1
      BY <1>4, <2>1
    <3> QED  BY <1>5, <2>1, <3>1 DEF YParity
  <2>2. CASE Recovery(d) % 2 = 1
    <3>1. s.v = 28 /\ 28 % 2 = 0
      BY <1>4, <2>2
    <3> QED  BY <1>5, <2>2, <3>1 DEF YParity
  <2> QED  BY <1>6, <2>1, <2>2
<1> QED  BY <1>3, <1>4, <1>7

\* Every item of a batch, in place.
InPlace(result, b, k) ==
  /\ DOMAIN result = DOMAIN b
  /\ \A i \in DOMAIN b :
       /\ Len(result[i]) = b[i]
       /\ \A j \in DOMAIN result[i] :
            LET s == result[i][j]
            IN s.item = i /\ s.input = j /\ s.by = k /\ YParity(s.v) = Recovery(s) % 2

\* Slicing the signatures puts them in place.
LEMMA FinalizeFacts ==
  ASSUME NEW b \in Seq(Nat), NEW k
  PROVE  InPlace(Finalize(b, SignParsedDigests(b, k)), b, k)
<1> DEFINE R == SignParsedDigests(b, k)
           T == {R[n] : n \in Nat}
<1> HIDE DEF R, T
<1>1. DOMAIN Finalize(b, R) = DOMAIN b
  BY DEF Finalize
<1>2. ASSUME NEW i \in DOMAIN b
      PROVE  /\ Len(Finalize(b, R)[i]) = b[i]
             /\ \A j \in DOMAIN Finalize(b, R)[i] :
                  LET s == Finalize(b, R)[i][j]
                  IN s.item = i /\ s.input = j /\ s.by = k /\ YParity(s.v) = Recovery(s) % 2
  <2> DEFINE o == Offset(b, i)
             q == SubSeq(R, o + 1, o + b[i])
  <2>1. Finalize(b, R)[i] = q
    BY DEF Finalize, SliceOf
  <2>2. i \in 1..Len(b) /\ i \in 1..Len(b) + 1 /\ b[i] \in Nat
    OBVIOUS
  <2>3. o \in Nat
    BY <2>2, OffsetFacts
  <2> HIDE DEF o
  <2>4. PICK x \in Int, y \in Int : x = o + 1 /\ y = o + b[i]
    BY <2>2, <2>3
  <2>5. \A n \in x..y : R[n] \in T
    BY <2>2, <2>3, <2>4 DEF T
  <2>6. q = SubSeq(R, x, y)
    BY <2>4
  <2> HIDE DEF q
  <2>7. /\ q \in Seq(T) /\ Len(q) = IF x <= y THEN y - x + 1 ELSE 0
        /\ \A j \in 1..y - x + 1 : q[j] = R[x + j - 1]
    BY <2>5, <2>6, SubSeqProperties
  <2>8. Len(q) = b[i] /\ y - x + 1 = b[i]
    BY <2>2, <2>3, <2>4, <2>7
  <2>9. DOMAIN q = 1..b[i]
    BY <2>7, <2>8
  <2>10. ASSUME NEW j \in 1..b[i]
         PROVE  q[j] = R[o + j]
    <3>1. x + j - 1 = o + j
      BY <2>2, <2>3, <2>4
    <3> QED  BY <2>7, <2>8, <3>1
  <2>11. \A j \in 1..b[i] : LET s == q[j]
                           IN s.item = i /\ s.input = j /\ s.by = k /\ YParity(s.v) = Recovery(s) % 2
    BY <2>2, <2>10, SignatureFacts DEF o, R
  <2> QED  BY <2>1, <2>8, <2>9, <2>11
<1> QED  BY <1>1, <1>2 DEF InPlace, R

\* The kinds of call that sign.
Namespaces == {"evm", "solana", "bitcoin"}

\* A namespace's call that is done has its signatures in place; evm and solana never
\* ask for the public key.
BatchOf(r) ==
  /\ r.batch \in Seq(Nat)
  /\ r.stage \in {"getPublicKey", "keyed"} => r.kind \notin {"evm", "solana"}
  /\ r.stage = "done" /\ r.kind \in Namespaces => InPlace(r.result, r.batch, r.signer)

\* All of them.
BatchInv == \A c \in Calls : BatchOf(call[c])

\* Nothing signed for nothing to sign.
LEMMA EmptyInPlace ==
  ASSUME NEW k
  PROVE  InPlace(<<>>, <<>>, k)
BY DEF InPlace

\* One call goes on.
LEMMA OneBatchKeeps ==
  ASSUME IInv, BatchInv, NEW c \in Calls, NEW r, BatchOf(r), Becomes(c, r)
  PROVE  BatchInv'
<1> SUFFICES ASSUME NEW d \in Calls
             PROVE  BatchOf(call'[d])
  BY DEF BatchInv, BatchOf, InPlace, Recovery, YParity
<1>1. call'[d] = IF d = c THEN r ELSE call[d]
  BY DEF IInv, Becomes
<1> QED  BY <1>1 DEF BatchInv

\* It starts an RPC.
LEMMA RequestingInPlace ==
  ASSUME NEW r, IsCall(r), r.batch \in Seq(Nat),
         NEW m \in {"getPublicKey", "signDigest"}, NEW id,
         m = "getPublicKey" => r.kind \notin {"evm", "solana"}
  PROVE  BatchOf(Requesting(r, m, id))
<1>1. PICK q : q = Requesting(r, m, id)
  OBVIOUS
<1>2. q.batch = r.batch /\ q.kind = r.kind /\ q.stage = m
  BY <1>1 DEF IsCall, Requesting
<1> QED  BY <1>1, <1>2 DEF BatchOf

\* It ends with nothing in place, or is no call for signatures.
LEMMA EndInPlace ==
  ASSUME NEW r, IsCall(r), r.batch \in Seq(Nat), NEW s \in {"done", "failed"},
         \/ s = "failed" \/ r.kind \notin Namespaces \/ (r.batch = <<>> /\ r.result = <<>>)
  PROVE  BatchOf([r EXCEPT !.stage = s])
<1>1. PICK q : q = [r EXCEPT !.stage = s]
  OBVIOUS
<1>2. q.batch = r.batch /\ q.kind = r.kind /\ q.stage = s /\ q.result = r.result
  BY <1>1 DEF IsCall
<1>3. r.batch = <<>> /\ r.result = <<>> => InPlace(q.result, q.batch, q.signer)
  BY <1>2, EmptyInPlace
<1> QED  BY <1>1, <1>2, <1>3 DEF BatchOf

\* The cache answers, or getPublicKey is asked.
LEMMA ResolveInPlace ==
  ASSUME NEW r, IsCall(r), r.batch \in Seq(Nat), r.kind \notin Namespaces
  PROVE  BatchOf(Resolve(r))
<1>1. CASE cached[r.address] # None
  <2>1. PICK q : q = [r EXCEPT !.stage = "done", !.key = cached[r.address]]
    OBVIOUS
  <2>2. q.batch = r.batch /\ q.kind = r.kind /\ q.stage = "done"
    BY <2>1 DEF IsCall
  <2>3. Resolve(r) = q
    BY <1>1, <2>1 DEF Resolve
  <2> QED  BY <2>2, <2>3 DEF BatchOf
<1>2. CASE cached[r.address] = None
  <2>1. BatchOf(Requesting(r, "getPublicKey", credentialId))
    BY RequestingInPlace DEF Namespaces
  <2> QED  BY <1>2, <2>1 DEF Resolve
<1> QED  BY <1>1, <1>2

\* An unused call, made for a batch or for none.
Asks(r, batch) == IsCall(r) /\ r.batch = batch /\ r.result = <<>>

\* One digest for each item.
LEMMA SignEachInPlace ==
  ASSUME IInv, BatchInv, NEW c \in Calls, NEW batch \in Seq(Nat), NEW r, Asks(r, batch),
         SignEach(c, r)
  PROVE  BatchInv'
<1>1. BatchOf(Requesting(r, "signDigest", credentialId))
  BY RequestingInPlace DEF Asks
<1>2. CASE r.batch = <<>>
  <2>1. BatchOf([r EXCEPT !.stage = "done"])
    BY <1>2, EndInPlace DEF Asks
  <2>2. Becomes(c, [r EXCEPT !.stage = "done"])
    BY <1>2 DEF SignEach
  <2> QED  BY <2>1, <2>2, OneBatchKeeps
<1>3. CASE r.batch # <<>>
  <2>1. Becomes(c, Requesting(r, "signDigest", credentialId))
    BY <1>3 DEF SignEach
  <2> QED  BY <1>1, <2>1, OneBatchKeeps
<1> QED  BY <1>2, <1>3

\* The batches that are signed.
LEMMA BatchesAreNumbers == \A batch \in Batches \cup {<<>>, <<1>>} : batch \in Seq(Nat)
<1>1. ASSUME NEW batch \in Batches
      PROVE  batch \in Seq(Nat)
  <2>1. batch \in Seq(Nat \ {0})
    BY BatchesAssumption
  <2>2. Len(batch) \in Nat /\ batch \in [1..Len(batch) -> Nat]
    BY <2>1
  <2> QED  BY <2>2, SeqDef
<1>2. <<>> \in Seq(Nat) /\ <<1>> \in Seq(Nat)
  OBVIOUS
<1> QED  BY <1>1, <1>2

\* A namespace is called, by its caller or for a viem account or a Kit signer.
LEMMA BatchAsked ==
  ASSUME IInv, BatchInv, NEW c \in Calls,
         \/ \E batch \in Batches \cup {<<>>}, named \in OrNone(Passkeys) :
              SignEvm(c, batch, named) \/ SignSolana(c, batch, named)
         \/ \E a \in Calls : \/ SignAsViem(c, a)
                             \/ \E batch \in Batches \cup {<<>>} : SignAsKit(c, a, batch)
  PROVE  BatchInv'
<1>1. ASSUME NEW batch \in Batches \cup {<<>>}, NEW named \in OrNone(Passkeys),
             SignEvm(c, batch, named) \/ SignSolana(c, batch, named)
      PROVE  BatchInv'
  <2>1. PICK kind \in {"evm", "solana"} :
          SignEach(c, [Unused EXCEPT !.kind = kind, !.batch = batch, !.named = named])
    BY <1>1 DEF SignEvm, SignSolana
  <2>2. PICK r : r = [Unused EXCEPT !.kind = kind, !.batch = batch, !.named = named]
    OBVIOUS
  <2>3. Asks(r, batch)
    BY <2>2, UnusedIsCall DEF Asks, IsCall, Unused, Kinds
  <2> QED  BY <2>1, <2>2, <2>3, BatchesAreNumbers, SignEachInPlace
<1>2. ASSUME NEW a \in Calls, SignAsViem(c, a)
      PROVE  BatchInv'
  <2>1. PICK r : r = [Unused EXCEPT !.kind = "evm", !.batch = <<1>>,
                                    !.key = call[a].key, !.fetched = call[a].fetched]
    OBVIOUS
  <2>2. call[a].fetched \in BOOLEAN
    BY DEF IInv, CallInv, IsCall
  <2>3. Asks(r, <<1>>)
    BY <2>1, <2>2, UnusedIsCall DEF Asks, IsCall, Unused, Kinds
  <2> QED  BY <1>2, <2>1, <2>3, BatchesAreNumbers, SignEachInPlace DEF SignAsViem
<1>3. ASSUME NEW a \in Calls, NEW batch \in Batches \cup {<<>>}, SignAsKit(c, a, batch)
      PROVE  BatchInv'
  <2>1. PICK r : r = [Unused EXCEPT !.kind = "solana", !.batch = batch,
                                    !.named = call[a].named,
                                    !.key = call[a].key, !.fetched = call[a].fetched]
    OBVIOUS
  <2>2. call[a].fetched \in BOOLEAN /\ call[a].named \in OrNone(Passkeys)
    BY DEF IInv, CallInv, IsCall
  <2>3. Asks(r, batch)
    BY <2>1, <2>2, UnusedIsCall DEF Asks, IsCall, Unused, Kinds
  <2> QED  BY <1>3, <2>1, <2>3, BatchesAreNumbers, SignEachInPlace DEF SignAsKit
<1> QED  BY <1>1, <1>2, <1>3

\* signer.bitcoin, with the last public key or after asking for it.
LEMMA BitcoinAsked ==
  ASSUME IInv, BatchInv, NEW c \in Calls, NEW batch \in Batches \cup {<<>>},
         NEW named \in OrNone(Passkeys), SignBitcoin(c, batch, named)
  PROVE  BatchInv'
<1>1. PICK r : r = [Unused EXCEPT !.kind = "bitcoin", !.batch = batch, !.named = named,
                                  !.key = lastKeys]
  OBVIOUS
<1>2. Asks(r, batch) /\ r.kind = "bitcoin" /\ batch \in Seq(Nat)
  BY <1>1, UnusedIsCall, BatchesAreNumbers DEF Asks, IsCall, Unused, Kinds
<1>3. CASE batch = <<>>
  <2>1. Becomes(c, [r EXCEPT !.stage = "done"])
    BY <1>1, <1>3 DEF SignBitcoin
  <2>2. BatchOf([r EXCEPT !.stage = "done"])
    BY <1>2, <1>3, EndInPlace DEF Asks
  <2> QED  BY <2>1, <2>2, OneBatchKeeps
<1>4. CASE batch # <<>>
  <2>1. PICK m \in {"getPublicKey", "signDigest"} :
          m = IF lastKeys # None THEN "signDigest" ELSE "getPublicKey"
    OBVIOUS
  <2>2. Becomes(c, Requesting(r, m, credentialId))
    BY <1>1, <1>4, <2>1 DEF SignBitcoin
  <2>3. BatchOf(Requesting(r, m, credentialId))
    BY <1>2, RequestingInPlace DEF Asks
  <2> QED  BY <2>2, <2>3, OneBatchKeeps
<1> QED  BY <1>3, <1>4

\* Somebody wants an address, an account or a signer.
LEMMA AddressAsked ==
  ASSUME IInv, BatchInv, NEW c \in Calls,
         \/ \E a \in Addresses, named \in OrNone(Passkeys) : GetAccountAddress(c, a, named)
         \/ \E address \in OrNone(Keys) : ToViemLocalAccount(c, address)
         \/ \E address \in OrNone(Keys), named \in OrNone(Passkeys) :
              ToKitPartialSigner(c, address, named)
  PROVE  BatchInv'
<1>1. ASSUME NEW r, IsCall(r), r.kind \notin Namespaces, r.batch = <<>>, NEW k,
             Becomes(c, Resolve(r)) \/ Becomes(c, [r EXCEPT !.stage = "done", !.key = k])
      PROVE  BatchInv'
  <2>0. r.batch \in Seq(Nat)
    BY <1>1, BatchesAreNumbers
  <2>1. BatchOf(Resolve(r))
    BY <1>1, <2>0, ResolveInPlace
  <2>2. BatchOf([r EXCEPT !.stage = "done", !.key = k])
    <3>1. PICK q : q = [r EXCEPT !.stage = "done", !.key = k]
      OBVIOUS
    <3>2. q.batch = <<>> /\ q.kind = r.kind /\ q.stage = "done"
      BY <1>1, <3>1 DEF IsCall
    <3> QED  BY <1>1, <2>0, <3>1, <3>2 DEF BatchOf, Namespaces
  <2> QED  BY <1>1, <2>1, <2>2, OneBatchKeeps
<1>2. ASSUME NEW a \in Addresses, NEW named \in OrNone(Passkeys), GetAccountAddress(c, a, named)
      PROVE  BatchInv'
  <2>1. PICK r : r = [Unused EXCEPT !.address = a, !.named = named]
    OBVIOUS
  <2>2. IsCall(r) /\ r.kind = "address" /\ r.batch = <<>>
    BY <2>1, UnusedIsCall DEF IsCall, Unused, Kinds
  <2>3. Becomes(c, Resolve(r))
    BY <1>2, <2>1 DEF GetAccountAddress
  <2> QED  BY <1>1, <2>2, <2>3 DEF Namespaces
<1>3. ASSUME NEW address \in OrNone(Keys), ToViemLocalAccount(c, address)
      PROVE  BatchInv'
  <2>1. PICK r : r = [Unused EXCEPT !.kind = "viem"]
    OBVIOUS
  <2>2. IsCall(r) /\ r.kind = "viem" /\ r.batch = <<>>
    BY <2>1, UnusedIsCall DEF IsCall, Unused, Kinds
  <2>3. Becomes(c, Resolve(r)) \/ Becomes(c, [r EXCEPT !.stage = "done", !.key = address])
    BY <1>3, <2>1 DEF ToViemLocalAccount
  <2> QED  BY <1>1, <2>2, <2>3 DEF Namespaces
<1>4. ASSUME NEW address \in OrNone(Keys), NEW named \in OrNone(Passkeys),
             ToKitPartialSigner(c, address, named)
      PROVE  BatchInv'
  <2>1. PICK r : r = [Unused EXCEPT !.kind = "kit", !.address = "solana", !.named = named]
    OBVIOUS
  <2>2. IsCall(r) /\ r.kind = "kit" /\ r.batch = <<>>
    BY <2>1, UnusedIsCall DEF IsCall, Unused, Kinds
  <2>3. Becomes(c, Resolve(r)) \/ Becomes(c, [r EXCEPT !.stage = "done", !.key = address])
    BY <1>4, <2>1 DEF ToKitPartialSigner
  <2> QED  BY <1>1, <2>2, <2>3 DEF Namespaces
<1> QED  BY <1>2, <1>3, <1>4

\* The Signing Layer accepts the request or reports a key.
LEMMA AnswerInPlace ==
  ASSUME IInv, BatchInv, NEW c \in Calls, Accept(c) \/ \E k \in Passkeys : KeyDerived(c, k)
  PROVE  BatchInv'
<1>1. IsCall(call[c]) /\ BatchOf(call[c])
  BY DEF IInv, CallInv, BatchInv
<1>2. ASSUME NEW s \in {"signed", "ceremony", "keyed"}, NEW q,
             q.batch = call[c].batch, q.kind = call[c].kind, q.stage = s,
             s = "keyed" => call[c].stage = "getPublicKey"
      PROVE  BatchOf(q)
  BY <1>1, <1>2 DEF BatchOf
<1>3. ASSUME NEW s \in {"signed", "keyed"}, NEW k,
             s = "keyed" => call[c].stage = "getPublicKey",
             Becomes(c, [call[c] EXCEPT !.stage = s, !.signer = k])
      PROVE  BatchInv'
  <2>1. PICK q : q = [call[c] EXCEPT !.stage = s, !.signer = k]
    OBVIOUS
  <2>2. q.batch = call[c].batch /\ q.kind = call[c].kind /\ q.stage = s
    BY <1>1, <2>1 DEF IsCall
  <2>3. BatchOf(q)
    BY <1>2, <1>3, <2>2
  <2> QED  BY <1>3, <2>1, <2>3, OneBatchKeeps
<1>4. CASE Accept(c) /\ session # None
  <2>1. Becomes(c, [call[c] EXCEPT !.stage = "signed", !.signer = session])
    BY <1>4 DEF Accept
  <2> QED  BY <1>3, <2>1
<1>5. CASE Accept(c) /\ session = None
  <2>1. PICK q : q = [call[c] EXCEPT !.stage = "ceremony"]
    OBVIOUS
  <2>2. q.batch = call[c].batch /\ q.kind = call[c].kind /\ q.stage = "ceremony"
    BY <1>1, <2>1 DEF IsCall
  <2>3. BatchOf(q) /\ Becomes(c, q)
    BY <1>2, <1>5, <2>1, <2>2 DEF Accept
  <2> QED  BY <2>3, OneBatchKeeps
<1>6. ASSUME NEW k \in Passkeys, KeyDerived(c, k)
      PROVE  BatchInv'
  <2>1. CASE call[c].stage = "getPublicKey"
    <3>1. Becomes(c, [call[c] EXCEPT !.stage = "keyed", !.signer = k])
      BY <1>6, <2>1 DEF KeyDerived
    <3> QED  BY <1>3, <2>1, <3>1
  <2>2. CASE call[c].stage # "getPublicKey"
    <3>1. Becomes(c, [call[c] EXCEPT !.stage = "signed", !.signer = k])
      BY <1>6, <2>2 DEF KeyDerived
    <3> QED  BY <1>3, <3>1
  <2> QED  BY <2>1, <2>2
<1> QED  BY <1>4, <1>5, <1>6

\* getPublicKey's answer: a Bitcoin call goes on, an address is known.
LEMMA PublicKeyInPlace ==
  ASSUME IInv, BatchInv, NEW c \in Calls, PublicKey(c)
  PROVE  BatchInv'
<1>1. IsCall(call[c]) /\ BatchOf(call[c]) /\ call[c].stage = "keyed"
  BY DEF IInv, CallInv, BatchInv, PublicKey
<1>2. PICK k : k = call[c].signer
  OBVIOUS
<1>3. PICK r : r = [call[c] EXCEPT !.key = k, !.fetched = TRUE, !.signer = None]
  OBVIOUS
<1>4. IsCall(r) /\ r.kind = call[c].kind /\ r.batch = call[c].batch
  BY <1>1, <1>3 DEF IsCall, OrNone
<1>5. r.kind \notin {"evm", "solana"} /\ r.batch \in Seq(Nat)
  BY <1>1, <1>4 DEF BatchOf
<1>6. CASE r.kind = "bitcoin"
  <2>1. BatchOf(Requesting(r, "signDigest", k))
    BY <1>4, <1>5, RequestingInPlace
  <2>2. Becomes(c, Requesting(r, "signDigest", k))
    BY <1>2, <1>3, <1>6 DEF PublicKey
  <2> QED  BY <2>1, <2>2, OneBatchKeeps
<1>7. CASE r.kind # "bitcoin"
  <2>1. BatchOf([r EXCEPT !.stage = "done"])
    BY <1>4, <1>5, <1>7, EndInPlace DEF Namespaces
  <2>2. Becomes(c, [r EXCEPT !.stage = "done"])
    BY <1>2, <1>3, <1>7 DEF PublicKey
  <2> QED  BY <2>1, <2>2, OneBatchKeeps
<1> QED  BY <1>6, <1>7

\* The signatures are sliced.
LEMMA DigestSignedInPlace ==
  ASSUME IInv, BatchInv, NEW c \in Calls, DigestSigned(c)
  PROVE  BatchInv'
<1>1. IsCall(call[c]) /\ BatchOf(call[c])
  BY DEF IInv, CallInv, BatchInv
<1>2. PICK b, k : b = call[c].batch /\ k = call[c].signer
  OBVIOUS
<1>3. PICK x : x = Finalize(b, SignParsedDigests(b, k))
  OBVIOUS
<1>4. PICK q : q = [call[c] EXCEPT !.stage = "done", !.result = x]
  OBVIOUS
<1>5. Becomes(c, q)
  BY <1>2, <1>3, <1>4 DEF DigestSigned
<1>6. q.batch = b /\ q.signer = k /\ q.result = x /\ q.stage = "done"
  BY <1>1, <1>2, <1>4 DEF IsCall
<1>7. b \in Seq(Nat)
  BY <1>1, <1>2 DEF BatchOf
<1>8. BatchOf(q)
  BY <1>3, <1>6, <1>7, FinalizeFacts DEF BatchOf
<1> QED  BY <1>5, <1>8, OneBatchKeeps

\* A call is rejected, or all pending ones are.
LEMMA RejectedInPlace ==
  ASSUME IInv, BatchInv, ClearSession \/ \E c \in Calls : Denied(c)
  PROVE  BatchInv'
<1>1. ASSUME NEW d \in Calls
      PROVE  BatchOf([call[d] EXCEPT !.stage = "failed"])
  BY EndInPlace DEF IInv, CallInv, BatchInv, BatchOf
<1>2. CASE \E c \in Calls : Denied(c)
  BY <1>1, <1>2, OneBatchKeeps DEF Denied
<1>3. CASE ClearSession
  <2> SUFFICES ASSUME NEW d \in Calls
               PROVE  BatchOf(call'[d])
    BY DEF BatchInv, BatchOf, InPlace, Recovery, YParity
  <2>1. call'[d] = IF Pending(d) THEN [call[d] EXCEPT !.stage = "failed"] ELSE call[d]
    BY <1>3 DEF ClearSession
  <2> QED  BY <1>1, <2>1 DEF BatchInv
<1> QED  BY <1>2, <1>3

\* No call has been made.
LEMMA BatchInit == Init => BatchInv
<1>1. Unused.batch \in Seq(Nat) /\ Unused.stage = "unused"
  BY DEF Unused
<1> QED  BY <1>1 DEF Init, BatchInv, BatchOf

\* Every step keeps signatures in place.
LEMMA BatchStep == IInv /\ BatchInv /\ [Next]_vars => BatchInv'
<1> SUFFICES ASSUME IInv, BatchInv, [Next]_vars
             PROVE  BatchInv'
  OBVIOUS
<1>1. CASE call' = call
  BY <1>1 DEF BatchInv, BatchOf, InPlace, Recovery, YParity
<1>2. ASSUME NEW c \in Calls, NEW named \in OrNone(Passkeys),
             \/ \E a \in Addresses : GetAccountAddress(c, a, named)
             \/ \E batch \in Batches \cup {<<>>} :
                  SignEvm(c, batch, named) \/ SignSolana(c, batch, named)
                  \/ SignBitcoin(c, batch, named)
             \/ \E address \in OrNone(Keys) : ToKitPartialSigner(c, address, named)
      PROVE  BatchInv'
  BY <1>2, AddressAsked, BatchAsked, BitcoinAsked
<1>3. ASSUME NEW c \in Calls,
             \/ \E address \in OrNone(Keys) : ToViemLocalAccount(c, address)
             \/ \E a \in Calls :
                  SignAsViem(c, a) \/ \E batch \in Batches \cup {<<>>} : SignAsKit(c, a, batch)
      PROVE  BatchInv'
  BY <1>3, AddressAsked, BatchAsked
<1>4. ASSUME NEW c \in Calls,
             \/ \E k \in Passkeys : KeyDerived(c, k)
             \/ Accept(c) \/ PublicKey(c) \/ DigestSigned(c) \/ Denied(c)
      PROVE  BatchInv'
  BY <1>4, AnswerInPlace, PublicKeyInPlace, DigestSignedInPlace, RejectedInPlace
<1>5. (\E k \in Scalars : StartRecoverySession(k)) \/ ClearRecoverySession \/ UNCHANGED vars
        => call' = call
  BY DEF StartRecoverySession, ClearRecoverySession, vars
<1> QED  BY <1>1, <1>2, <1>3, <1>4, <1>5, RejectedInPlace DEF Next

-----------------------------------------------------------------------------
(* Signatures in place. *)

\* Whatever the batches, however calls overlap: every item has its own signatures,
\* one for each of its digests and in their order (bitcoin/namespace.ts:93,
\* evm/marshal.ts:61).
THEOREM InPlaceCorrect == Spec => []SignedInPlace
<1>1. BatchInv => SignedInPlace
  BY DEF BatchInv, BatchOf, SignedInPlace, Signed, InPlace, Namespaces
<1> QED  BY <1>1, InitInv, StepInv, BatchInit, BatchStep, PTL DEF Spec

-----------------------------------------------------------------------------
(* The type of the namespaces. *)

\* A call with the type of every field; <<1>> is what viem's methods sign.
TypedCall == [kind : Kinds, stage : Stages, address : Addresses,
              batch : Batches \cup {<<>>, <<1>>},
              named : OrNone(Passkeys), asked : OrNone(Passkeys), key : OrNone(Keys),
              fetched : BOOLEAN, signer : OrNone(Keys), result : Seq(Seq(Signature))]

\* What has signatures knows who signed.
SignedBySomebody(r) == r.stage = "signed" => r.signer # None

NamespacesTyped ==
  /\ call \in [Calls -> TypedCall]
  /\ \A c \in Calls : SignedBySomebody(call[c])
  /\ cached \in [Addresses -> OrNone(Keys)]
  /\ lastKeys \in OrNone(Keys)
  /\ given \in BOOLEAN

LEMMA UnusedTyped == Unused \in TypedCall /\ Unused.stage = "unused"
<1>1. <<>> \in Seq(Seq(Signature))
  OBVIOUS
<1> QED  BY <1>1 DEF Unused, TypedCall, Kinds, Stages, Addresses, OrNone

LEMMA NamespacesInit == Init => NamespacesTyped
  BY UnusedTyped DEF Init, NamespacesTyped, SignedBySomebody, NoAddresses, OrNone

\* Whatever signs a batch, its signatures are signatures.
LEMMA FinalizeTyped ==
  ASSUME NEW b \in Seq(Nat), NEW k \in Keys
  PROVE  Finalize(b, SignParsedDigests(b, k)) \in Seq(Seq(Signature))
<1> DEFINE R == SignParsedDigests(b, k)
<1>1. ASSUME NEW i \in 1..Len(b), NEW j \in 1..b[i]
      PROVE  R[Offset(b, i) + j] \in Signature
  <2> DEFINE n == Offset(b, i) + j
             d == Digests(b)[n]
  <2>1. n \in DOMAIN Digests(b) /\ d = [item |-> i, input |-> j]
    BY DigestFacts
  <2>2. PICK s : s = [item |-> d.item, input |-> d.input, by |-> k, v |-> 27 + (Recovery(d) % 2)]
    OBVIOUS
  <2>3. R[n] = s
    BY <2>1, <2>2 DEF SignParsedDigests
  <2>4. d.item = i /\ d.input = j /\ i \in Nat /\ j \in Nat
    BY <2>1
  <2>5. Recovery(d) = (i + 2 * j) % 4
    BY <2>4 DEF Recovery
  <2>6. Recovery(d) % 2 \in 0..1
    BY <2>4, <2>5
  <2>7. 27 + (Recovery(d) % 2) \in {27, 28}
    BY <2>6
  <2> QED  BY <2>2, <2>3, <2>4, <2>7 DEF Signature
<1> HIDE DEF R
<1>2. ASSUME NEW i \in 1..Len(b)
      PROVE  SliceOf(b, R, i) \in Seq(Signature)
  <2> DEFINE o == Offset(b, i)
             q == SubSeq(R, o + 1, o + b[i])
  <2>1. i \in 1..Len(b) + 1 /\ b[i] \in Nat
    OBVIOUS
  <2>2. o \in Nat
    BY <2>1, OffsetFacts
  <2>3. \A j \in 1..b[i] : R[o + j] \in Signature
    BY <1>1
  <2>4. q = SliceOf(b, R, i)
    BY DEF SliceOf
  <2> HIDE DEF o
  <2>5. PICK x \in Int, y \in Int : x = o + 1 /\ y = o + b[i]
    BY <2>1, <2>2
  <2>6. \A n \in x..y : R[n] \in Signature
    <3> SUFFICES ASSUME NEW n \in x..y
                 PROVE  R[n] \in Signature
      OBVIOUS
    <3>1. n - o \in 1..b[i] /\ o + (n - o) = n
      BY <2>1, <2>2, <2>5
    <3> QED  BY <2>3, <3>1
  <2>7. q = SubSeq(R, x, y)
    BY <2>5
  <2> HIDE DEF q
  <2>8. q \in Seq(Signature)
    BY <2>6, <2>7, SubSeqProperties
  <2> QED  BY <2>4, <2>8
<1>3. Finalize(b, R) = [i \in 1..Len(b) |-> SliceOf(b, R, i)] /\ Len(b) \in Nat
  BY DEF Finalize
<1>4. Finalize(b, R) \in [1..Len(b) -> Seq(Signature)]
  BY <1>2, <1>3
<1>5. Finalize(b, R) \in Seq(Seq(Signature))
  BY <1>3, <1>4, SeqDef
<1> QED  BY <1>5 DEF R

\* One call goes on.
LEMMA OneCallTyped ==
  ASSUME NamespacesTyped, NEW c \in Calls, NEW r \in TypedCall, SignedBySomebody(r), Becomes(c, r)
  PROVE  /\ call' \in [Calls -> TypedCall]
         /\ \A d \in Calls : SignedBySomebody(call[d])'
  BY DEF NamespacesTyped, SignedBySomebody, Becomes

\* It starts an RPC, ends, or ends with a key.
LEMMA RequestingTyped ==
  ASSUME NEW r \in TypedCall, NEW m \in {"getPublicKey", "signDigest"}, NEW id \in OrNone(Passkeys)
  PROVE  Requesting(r, m, id) \in TypedCall /\ Requesting(r, m, id).stage = m
  BY DEF TypedCall, Requesting, Named, Stages, OrNone

LEMMA EndTyped ==
  ASSUME NEW r \in TypedCall
  PROVE  [r EXCEPT !.stage = "done"] \in TypedCall /\ [r EXCEPT !.stage = "done"].stage = "done"
  BY DEF TypedCall, Stages

LEMMA KeyTyped ==
  ASSUME NEW r \in TypedCall, NEW k \in OrNone(Keys)
  PROVE  /\ [r EXCEPT !.stage = "done", !.key = k] \in TypedCall
         /\ [r EXCEPT !.stage = "done", !.key = k].stage = "done"
  BY DEF TypedCall, Stages

LEMMA ResolveTyped ==
  ASSUME IInv, NamespacesTyped, NEW r \in TypedCall
  PROVE  Resolve(r) \in TypedCall /\ Resolve(r).stage # "signed"
<1>1. cached[r.address] \in OrNone(Keys)
  BY DEF NamespacesTyped, TypedCall
<1> QED  BY <1>1, KeyTyped, RequestingTyped DEF Resolve, IInv

\* One digest for each item.
LEMMA SignEachTyped ==
  ASSUME IInv, NamespacesTyped, NEW c \in Calls, NEW r \in TypedCall, SignEach(c, r)
  PROVE  NamespacesTyped'
<1>1. PICK q : /\ Becomes(c, q)
               /\ q = IF r.batch = <<>> THEN [r EXCEPT !.stage = "done"]
                      ELSE Requesting(r, "signDigest", credentialId)
  BY DEF SignEach
<1>2. q \in TypedCall /\ SignedBySomebody(q)
  <2>1. credentialId \in OrNone(Passkeys)
    BY DEF IInv
  <2>2. /\ Requesting(r, "signDigest", credentialId) \in TypedCall
        /\ Requesting(r, "signDigest", credentialId).stage = "signDigest"
    BY <2>1, RequestingTyped
  <2>3. q \in TypedCall /\ q.stage # "signed"
    BY <1>1, <2>2, EndTyped
  <2> QED  BY <2>3 DEF SignedBySomebody
<1>3. UNCHANGED <<cached, lastKeys, given>>
  BY DEF SignEach, ownCaches
<1> QED  BY <1>1, <1>2, <1>3, OneCallTyped DEF NamespacesTyped

\* A namespace is called.
LEMMA SignTyped ==
  ASSUME IInv, NamespacesTyped, NEW c \in Calls,
         \/ \E batch \in Batches \cup {<<>>}, named \in OrNone(Passkeys) :
              \/ SignEvm(c, batch, named) \/ SignSolana(c, batch, named)
              \/ SignBitcoin(c, batch, named)
         \/ \E a \in Calls : \/ SignAsViem(c, a)
                             \/ \E batch \in Batches \cup {<<>>} : SignAsKit(c, a, batch)
  PROVE  NamespacesTyped'
<1>1. ASSUME NEW a \in Calls
      PROVE  /\ call[a].named \in OrNone(Passkeys) /\ call[a].key \in OrNone(Keys)
             /\ call[a].fetched \in BOOLEAN
  BY DEF NamespacesTyped, TypedCall
<1>2. ASSUME NEW batch \in Batches \cup {<<>>}, NEW named \in OrNone(Passkeys),
             SignEvm(c, batch, named) \/ SignSolana(c, batch, named)
      PROVE  NamespacesTyped'
  <2>1. PICK kind \in {"evm", "solana"} :
          SignEach(c, [Unused EXCEPT !.kind = kind, !.batch = batch, !.named = named])
    BY <1>2 DEF SignEvm, SignSolana
  <2>2. PICK r : r = [Unused EXCEPT !.kind = kind, !.batch = batch, !.named = named]
    OBVIOUS
  <2>3. r \in TypedCall
    BY <2>2, UnusedTyped DEF TypedCall, Kinds
  <2> QED  BY <2>1, <2>2, <2>3, SignEachTyped
<1>3. ASSUME NEW batch \in Batches \cup {<<>>}, NEW named \in OrNone(Passkeys),
             SignBitcoin(c, batch, named)
      PROVE  NamespacesTyped'
  <2>1. PICK r : r = [Unused EXCEPT !.kind = "bitcoin", !.batch = batch, !.named = named,
                                    !.key = lastKeys]
    OBVIOUS
  <2>2. r \in TypedCall
    BY <2>1, UnusedTyped DEF TypedCall, Kinds, NamespacesTyped
  <2>3. PICK m \in {"getPublicKey", "signDigest"} :
          m = IF lastKeys # None THEN "signDigest" ELSE "getPublicKey"
    OBVIOUS
  <2>4. PICK q : /\ Becomes(c, q)
                 /\ q = IF batch = <<>> THEN [r EXCEPT !.stage = "done"]
                        ELSE Requesting(r, m, credentialId)
    BY <1>3, <2>1, <2>3 DEF SignBitcoin
  <2>5. q \in TypedCall /\ SignedBySomebody(q)
    <3>1. credentialId \in OrNone(Passkeys)
      BY DEF IInv
    <3>2. /\ Requesting(r, m, credentialId) \in TypedCall
          /\ Requesting(r, m, credentialId).stage = m
      BY <2>2, <3>1, RequestingTyped
    <3>3. q \in TypedCall /\ q.stage # "signed"
      BY <2>2, <2>4, <3>2, EndTyped
    <3> QED  BY <3>3 DEF SignedBySomebody
  <2>6. UNCHANGED <<cached, lastKeys, given>>
    BY <1>3 DEF SignBitcoin, ownCaches
  <2> QED  BY <2>4, <2>5, <2>6, OneCallTyped DEF NamespacesTyped
<1>4. ASSUME NEW a \in Calls, SignAsViem(c, a)
      PROVE  NamespacesTyped'
  <2>1. PICK r : r = [Unused EXCEPT !.kind = "evm", !.batch = <<1>>,
                                    !.key = call[a].key, !.fetched = call[a].fetched]
    OBVIOUS
  <2>2. r \in TypedCall
    BY <1>1, <2>1, UnusedTyped DEF TypedCall, Kinds
  <2> QED  BY <1>4, <2>1, <2>2, SignEachTyped DEF SignAsViem
<1>5. ASSUME NEW a \in Calls, NEW batch \in Batches \cup {<<>>}, SignAsKit(c, a, batch)
      PROVE  NamespacesTyped'
  <2>1. PICK r : r = [Unused EXCEPT !.kind = "solana", !.batch = batch,
                                    !.named = call[a].named,
                                    !.key = call[a].key, !.fetched = call[a].fetched]
    OBVIOUS
  <2>2. r \in TypedCall
    BY <1>1, <2>1, UnusedTyped DEF TypedCall, Kinds
  <2> QED  BY <1>5, <2>1, <2>2, SignEachTyped DEF SignAsKit
<1> QED  BY <1>2, <1>3, <1>4, <1>5

\* Somebody wants an address, an account or a signer.
LEMMA AddressTyped ==
  ASSUME IInv, NamespacesTyped, NEW c \in Calls,
         \/ \E a \in Addresses, named \in OrNone(Passkeys) : GetAccountAddress(c, a, named)
         \/ \E address \in OrNone(Keys) : ToViemLocalAccount(c, address)
         \/ \E address \in OrNone(Keys), named \in OrNone(Passkeys) :
              ToKitPartialSigner(c, address, named)
  PROVE  NamespacesTyped'
<1>1. ASSUME NEW r \in TypedCall, NEW k \in OrNone(Keys),
             Becomes(c, Resolve(r)) \/ Becomes(c, [r EXCEPT !.stage = "done", !.key = k])
      PROVE  /\ call' \in [Calls -> TypedCall]
             /\ \A d \in Calls : SignedBySomebody(call[d])'
  <2>1. PICK q : /\ Becomes(c, q)
                 /\ q = Resolve(r) \/ q = [r EXCEPT !.stage = "done", !.key = k]
    BY <1>1
  <2>2. q \in TypedCall /\ SignedBySomebody(q)
    <3>1. q \in TypedCall /\ q.stage # "signed"
      BY <2>1, ResolveTyped, KeyTyped
    <3> QED  BY <3>1 DEF SignedBySomebody
  <2> QED  BY <2>1, <2>2, OneCallTyped
<1>2. ASSUME NEW a \in Addresses, NEW named \in OrNone(Passkeys), GetAccountAddress(c, a, named)
      PROVE  NamespacesTyped'
  <2>1. PICK r : r = [Unused EXCEPT !.address = a, !.named = named]
    OBVIOUS
  <2>2. r \in TypedCall /\ None \in OrNone(Keys)
    BY <2>1, UnusedTyped DEF TypedCall, OrNone
  <2>3. Becomes(c, Resolve(r)) /\ UNCHANGED <<cached, lastKeys, given>>
    BY <1>2, <2>1 DEF GetAccountAddress, ownCaches
  <2> QED  BY <1>1, <2>2, <2>3 DEF NamespacesTyped
<1>3. ASSUME NEW address \in OrNone(Keys), ToViemLocalAccount(c, address)
      PROVE  NamespacesTyped'
  <2>1. PICK r : r = [Unused EXCEPT !.kind = "viem"]
    OBVIOUS
  <2>2. r \in TypedCall
    BY <2>1, UnusedTyped DEF TypedCall, Kinds
  <2>3. /\ Becomes(c, Resolve(r)) \/ Becomes(c, [r EXCEPT !.stage = "done", !.key = address])
        /\ cached' = cached \/ cached' = [cached EXCEPT !["evm"] = address]
        /\ given' \in {given, TRUE} /\ lastKeys' = lastKeys
    BY <1>3, <2>1 DEF ToViemLocalAccount
  <2> QED  BY <1>1, <2>2, <2>3 DEF NamespacesTyped
<1>4. ASSUME NEW address \in OrNone(Keys), NEW named \in OrNone(Passkeys),
             ToKitPartialSigner(c, address, named)
      PROVE  NamespacesTyped'
  <2>1. PICK r : r = [Unused EXCEPT !.kind = "kit", !.address = "solana", !.named = named]
    OBVIOUS
  <2>2. r \in TypedCall
    BY <2>1, UnusedTyped DEF TypedCall, Kinds, Addresses
  <2>3. /\ Becomes(c, Resolve(r)) \/ Becomes(c, [r EXCEPT !.stage = "done", !.key = address])
        /\ UNCHANGED <<cached, lastKeys, given>>
    BY <1>4, <2>1 DEF ToKitPartialSigner, ownCaches
  <2> QED  BY <1>1, <2>2, <2>3 DEF NamespacesTyped
<1> QED  BY <1>2, <1>3, <1>4

\* What the caches hold of a key.
LEMMA CachesTyped ==
  ASSUME NEW k \in Keys, CacheAddresses(k)
  PROVE  cached' \in [Addresses -> OrNone(Keys)] /\ given' \in BOOLEAN
  BY DEF CacheAddresses, OrNone

\* The Signing Layer answers.
LEMMA AnswerTyped ==
  ASSUME IInv, NamespacesTyped, NEW c \in Calls,
         \/ Accept(c) \/ PublicKey(c) \/ DigestSigned(c) \/ Denied(c)
         \/ \E k \in Passkeys : KeyDerived(c, k)
  PROVE  NamespacesTyped'
<1>0. /\ call[c] \in TypedCall /\ CallInv(call[c]) /\ SignedBySomebody(call[c])
      /\ session \in OrNone(Scalars)
  BY DEF IInv, NamespacesTyped
<1>1. ASSUME NEW s \in {"keyed", "signed"}, NEW k \in Keys
      PROVE  /\ [call[c] EXCEPT !.stage = s, !.signer = k] \in TypedCall
             /\ SignedBySomebody([call[c] EXCEPT !.stage = s, !.signer = k])
  BY <1>0, KeysAssumption DEF TypedCall, Stages, OrNone, SignedBySomebody, Keys
<1>2. CASE Accept(c)
  <2>1. session # None => session \in Keys
    BY <1>0 DEF OrNone, Keys
  <2>2. PICK q : /\ Becomes(c, q)
                 /\ q = IF session # None
                        THEN [call[c] EXCEPT !.stage = "signed", !.signer = session]
                        ELSE [call[c] EXCEPT !.stage = "ceremony"]
    BY <1>2 DEF Accept
  <2>3. [call[c] EXCEPT !.stage = "ceremony"] \in TypedCall
        /\ [call[c] EXCEPT !.stage = "ceremony"].stage = "ceremony"
    BY <1>0 DEF TypedCall, Stages
  <2>4. q \in TypedCall /\ SignedBySomebody(q)
    BY <1>1, <2>1, <2>2, <2>3 DEF SignedBySomebody
  <2>5. UNCHANGED <<cached, lastKeys, given>>
    BY <1>2 DEF Accept, ownCaches
  <2> QED  BY <2>2, <2>4, <2>5, OneCallTyped DEF NamespacesTyped
<1>3. ASSUME NEW k \in Passkeys, KeyDerived(c, k)
      PROVE  NamespacesTyped'
  <2>1. k \in Keys
    BY DEF Keys
  <2>2. PICK s \in {"keyed", "signed"} : Becomes(c, [call[c] EXCEPT !.stage = s, !.signer = k])
    BY <1>3 DEF KeyDerived
  <2>3. CacheAddresses(k) /\ lastKeys' = k
    BY <1>3 DEF KeyDerived
  <2>4. /\ call' \in [Calls -> TypedCall]
        /\ \A d \in Calls : SignedBySomebody(call[d])'
    BY <1>1, <2>1, <2>2, OneCallTyped
  <2> QED  BY <2>1, <2>3, <2>4, CachesTyped DEF NamespacesTyped, OrNone
<1>4. CASE PublicKey(c)
  <2>1. PICK k : k = call[c].signer
    OBVIOUS
  <2>2. k \in Passkeys /\ k \in Keys
    BY <1>0, <1>4, <2>1 DEF PublicKey, CallInv, AnswerHasSigner, Keys
  <2>3. PICK r : r = [call[c] EXCEPT !.key = k, !.fetched = TRUE, !.signer = None]
    OBVIOUS
  <2>4. r \in TypedCall
    BY <1>0, <2>2, <2>3 DEF TypedCall, OrNone
  <2>5. PICK q : /\ Becomes(c, q)
                 /\ q = IF r.kind = "bitcoin" THEN Requesting(r, "signDigest", k)
                        ELSE [r EXCEPT !.stage = "done"]
    BY <1>4, <2>1, <2>3 DEF PublicKey
  <2>6. q \in TypedCall /\ SignedBySomebody(q)
    BY <2>2, <2>4, <2>5, EndTyped, RequestingTyped DEF SignedBySomebody, OrNone
  <2>7. CacheAddresses(k) /\ lastKeys' = k
    BY <1>4, <2>1 DEF PublicKey
  <2> QED  BY <2>2, <2>5, <2>6, <2>7, OneCallTyped, CachesTyped DEF NamespacesTyped, OrNone
<1>5. CASE DigestSigned(c)
  <2>1. PICK b, k : b = call[c].batch /\ k = call[c].signer
    OBVIOUS
  <2>2. b \in Seq(Nat) /\ k \in Keys
    BY <1>0, <1>5, <2>1, BatchesAreNumbers
       DEF DigestSigned, TypedCall, SignedBySomebody, OrNone
  <2>3. PICK x : x = Finalize(b, SignParsedDigests(b, k))
    OBVIOUS
  <2>4. x \in Seq(Seq(Signature))
    BY <2>2, <2>3, FinalizeTyped
  <2>5. PICK q : q = [call[c] EXCEPT !.stage = "done", !.result = x]
    OBVIOUS
  <2>6. q \in TypedCall /\ SignedBySomebody(q)
    BY <1>0, <2>4, <2>5 DEF TypedCall, Stages, SignedBySomebody
  <2>7. Becomes(c, q) /\ UNCHANGED <<cached, lastKeys, given>>
    BY <1>5, <2>1, <2>3, <2>5 DEF DigestSigned
  <2> QED  BY <2>6, <2>7, OneCallTyped DEF NamespacesTyped
<1>6. CASE Denied(c)
  <2>1. Becomes(c, [call[c] EXCEPT !.stage = "failed"]) /\ UNCHANGED <<cached, lastKeys, given>>
    BY <1>6 DEF Denied, ownCaches
  <2>2. /\ [call[c] EXCEPT !.stage = "failed"] \in TypedCall
        /\ SignedBySomebody([call[c] EXCEPT !.stage = "failed"])
    BY <1>0 DEF TypedCall, Stages, SignedBySomebody
  <2> QED  BY <2>1, <2>2, OneCallTyped DEF NamespacesTyped
<1> QED  BY <1>2, <1>3, <1>4, <1>5, <1>6

\* Sessions start and end.
LEMMA SessionsTyped ==
  ASSUME NamespacesTyped,
         \/ \E k \in Scalars : StartRecoverySession(k)
         \/ ClearRecoverySession \/ ClearSession \/ UNCHANGED vars
  PROVE  NamespacesTyped'
<1>1. ASSUME NEW k \in Scalars, StartRecoverySession(k)
      PROVE  NamespacesTyped'
  BY <1>1, CachesTyped DEF StartRecoverySession, NamespacesTyped, SignedBySomebody, Keys, OrNone
<1>2. CASE ClearRecoverySession \/ UNCHANGED vars
  BY <1>2 DEF ClearRecoverySession, vars, ownCaches, NamespacesTyped, SignedBySomebody
<1>3. CASE ClearSession
  <2>1. ASSUME NEW d \in Calls
        PROVE  call'[d] \in TypedCall /\ SignedBySomebody(call'[d])
    <3>1. call[d] \in TypedCall /\ SignedBySomebody(call[d])
      BY DEF NamespacesTyped
    <3>2. /\ [call[d] EXCEPT !.stage = "failed"] \in TypedCall
          /\ SignedBySomebody([call[d] EXCEPT !.stage = "failed"])
      BY <3>1 DEF TypedCall, Stages, SignedBySomebody
    <3> QED  BY <1>3, <3>1, <3>2 DEF ClearSession
  <2>2. call' \in [Calls -> TypedCall]
    BY <1>3, <2>1 DEF ClearSession
  <2> QED
    BY <1>3, <2>1, <2>2 DEF ClearSession, NamespacesTyped, SignedBySomebody, NoAddresses, OrNone
<1> QED  BY <1>1, <1>2, <1>3

LEMMA NamespacesStep == IInv /\ NamespacesTyped /\ [Next]_vars => NamespacesTyped'
  BY SignTyped, AddressTyped, AnswerTyped, SessionsTyped DEF Next

\* Every variable of the namespaces keeps its type: what a call ends with are lists
\* of signatures, and the keys OWSSigner caches are keys.
THEOREM TypeCorrect == Spec => []TypeOK
<1>1. IInv /\ NamespacesTyped => TypeOK
  BY DEF IInv, NamespacesTyped, TypedCall, TypeOK
<1> QED  BY <1>1, InitInv, StepInv, NamespacesInit, NamespacesStep, PTL DEF Spec

-----------------------------------------------------------------------------
(* The passkey's public key.  Bytes.                                            *)

\* A byte that is in the buffer, and what stands for one that is not.
LEMMA BytesAt ==
  ASSUME NEW b \in Buffers, NEW o \in Int
  PROVE  /\ ByteAt(b, o) \in Byte
         /\ o \in 0..Len(b) - 1 => ByteAt(b, o) = b[o + 1]
<1>1. DOMAIN b = 1..Len(b) /\ Len(b) \in Nat /\ \A i \in 1..Len(b) : b[i] \in Byte
  BY DEF Buffers
<1>2. o \in 0..Len(b) - 1 => o + 1 \in 1..Len(b)
  BY <1>1
<1> QED  BY <1>1, <1>2 DEF ByteAt, Byte

-----------------------------------------------------------------------------
(* base64url. *)

\* Three bytes are four sextets.
LEMMA Sextets ==
  ASSUME NEW x \in Byte, NEW y \in Byte, NEW z \in Byte
  PROVE  /\ 4 * (x \div 4) + (16 * (x % 4) + y \div 16) \div 16 = x
         /\ 16 * ((16 * (x % 4) + y \div 16) % 16) + (4 * (y % 16) + z \div 64) \div 4 = y
         /\ 64 * ((4 * (y % 16) + z \div 64) % 4) + (z % 64) = z
BY DEF Byte

\* Which group a sextet and a byte are in.
LEMMA Groups ==
  ASSUME NEW q \in Nat
  PROVE  /\ ((4 * q + 1) - 1) \div 4 = q /\ (4 * q + 1) % 4 = 1
         /\ ((4 * q + 2) - 1) \div 4 = q /\ (4 * q + 2) % 4 = 2
         /\ ((4 * q + 3) - 1) \div 4 = q /\ (4 * q + 3) % 4 = 3
         /\ ((4 * q + 4) - 1) \div 4 = q /\ (4 * q + 4) % 4 = 0
         /\ ((3 * q + 1) - 1) \div 3 = q /\ (3 * q + 1) % 3 = 1
         /\ ((3 * q + 2) - 1) \div 3 = q /\ (3 * q + 2) % 3 = 2
         /\ ((3 * q + 3) - 1) \div 3 = q /\ (3 * q + 3) % 3 = 0
OBVIOUS

\* The sextets of each group of three bytes.
LEMMA SextetsOf ==
  ASSUME NEW b \in Seq(Byte)
  PROVE  LET s == bufferToBase64Url(b)
         IN /\ s \in Seq(0..63)
            /\ Len(s) = (4 * Len(b) + 2) \div 3
            /\ \A q \in Nat :
                 /\ 4 * q + 1 <= Len(s) => s[4 * q + 1] = ByteAt(b, 3 * q) \div 4
                 /\ 4 * q + 2 <= Len(s) =>
                      s[4 * q + 2] = 16 * (ByteAt(b, 3 * q) % 4) + ByteAt(b, 3 * q + 1) \div 16
                 /\ 4 * q + 3 <= Len(s) =>
                      s[4 * q + 3] = 4 * (ByteAt(b, 3 * q + 1) % 16) + ByteAt(b, 3 * q + 2) \div 64
                 /\ 4 * q + 4 <= Len(s) => s[4 * q + 4] = ByteAt(b, 3 * q + 2) % 64
<1> DEFINE n == (4 * Len(b) + 2) \div 3
           Part(r, b0, b1, b2) == CASE r = 1 -> b0 \div 4
                                    [] r = 2 -> 16 * (b0 % 4) + b1 \div 16
                                    [] r = 3 -> 4 * (b1 % 16) + b2 \div 64
                                    [] r = 0 -> b2 % 64
           At(r, o) == Part(r, ByteAt(b, o), ByteAt(b, o + 1), ByteAt(b, o + 2))
           Sextet(k) == At(k % 4, 3 * ((k - 1) \div 4))
           s == bufferToBase64Url(b)
<1>1. n \in Nat
  <2>1. Len(b) \in Nat
    OBVIOUS
  <2> QED  BY <2>1
<1>2. s = [k \in 1..n |-> Sextet(k)]
  BY DEF bufferToBase64Url
<1>3. \A q \in Nat :
        /\ Sextet(4 * q + 1) = ByteAt(b, 3 * q) \div 4
        /\ Sextet(4 * q + 2) = 16 * (ByteAt(b, 3 * q) % 4) + ByteAt(b, 3 * q + 1) \div 16
        /\ Sextet(4 * q + 3) = 4 * (ByteAt(b, 3 * q + 1) % 16) + ByteAt(b, 3 * q + 2) \div 64
        /\ Sextet(4 * q + 4) = ByteAt(b, 3 * q + 2) % 64
  <2> TAKE q \in Nat
  <2>1. /\ ((4 * q + 1) - 1) \div 4 = q /\ (4 * q + 1) % 4 = 1
        /\ ((4 * q + 2) - 1) \div 4 = q /\ (4 * q + 2) % 4 = 2
        /\ ((4 * q + 3) - 1) \div 4 = q /\ (4 * q + 3) % 4 = 3
        /\ ((4 * q + 4) - 1) \div 4 = q /\ (4 * q + 4) % 4 = 0
    BY Groups
  <2>2. /\ Sextet(4 * q + 1) = At(1, 3 * q) /\ Sextet(4 * q + 2) = At(2, 3 * q)
        /\ Sextet(4 * q + 3) = At(3, 3 * q) /\ Sextet(4 * q + 4) = At(0, 3 * q)
    <3> HIDE DEF At
    <3> QED  BY <2>1, Zenon
  <2>3. \A b0, b1, b2 : /\ Part(1, b0, b1, b2) = b0 \div 4
                        /\ Part(2, b0, b1, b2) = 16 * (b0 % 4) + b1 \div 16
                        /\ Part(3, b0, b1, b2) = 4 * (b1 % 16) + b2 \div 64
                        /\ Part(0, b0, b1, b2) = b2 % 64
    OBVIOUS
  <2> HIDE DEF Part, Sextet
  <2> QED  BY <2>2, <2>3
<1>4. ASSUME NEW k \in 1..n
      PROVE  Sextet(k) \in 0..63
  <2> DEFINE q == (k - 1) \div 4
  <2>1. q \in Nat /\ k \in {4 * q + 1, 4 * q + 2, 4 * q + 3, 4 * q + 4}
    BY <1>1
  <2>2. PICK x, y, z \in Byte : x = ByteAt(b, 3 * q) /\ y = ByteAt(b, 3 * q + 1) /\ z = ByteAt(b, 3 * q + 2)
    <3>1. 3 * q \in Int /\ 3 * q + 1 \in Int /\ 3 * q + 2 \in Int
      BY <2>1
    <3> HIDE DEF q
    <3> QED  BY <3>1, BytesAt DEF Buffers
  <2>3. /\ x \div 4 \in 0..63 /\ 16 * (x % 4) + y \div 16 \in 0..63
        /\ 4 * (y % 16) + z \div 64 \in 0..63 /\ z % 64 \in 0..63
    BY DEF Byte
  <2> HIDE DEF q, Sextet
  <2> QED  BY <1>3, <2>1, <2>2, <2>3
<1> HIDE DEF Sextet, n
<1>5. s \in Seq(0..63)
  BY <1>1, <1>2, <1>4
<1>6. Len(s) = n
  <2>1. DOMAIN s = 1..n /\ DOMAIN s = 1..Len(s) /\ Len(s) \in Nat
    BY <1>2, <1>5, LenProperties
  <2> QED  BY <1>1, <2>1
<1>7. \A k \in 1..n : s[k] = Sextet(k)
  BY <1>2
<1>8. Len(s) = (4 * Len(b) + 2) \div 3
  BY <1>6 DEF n
<1> HIDE DEF s
<1>9. ASSUME NEW q \in Nat, NEW i \in {1, 2, 3, 4}, 4 * q + i <= Len(s)
      PROVE  s[4 * q + i] = Sextet(4 * q + i)
  BY <1>1, <1>6, <1>7, <1>9
<1> QED  BY <1>3, <1>5, <1>8, <1>9 DEF s

\* What base64UrlToBytes computes from a byte's sextets is the byte.
LEMMA RoundTrip ==
  ASSUME NEW b \in Seq(Byte)
  PROVE  base64UrlToBytes(bufferToBase64Url(b)) = b
<1> DEFINE s == bufferToBase64Url(b)
           L == Len(b)
<1>1. /\ s \in Seq(0..63)
      /\ Len(s) = (4 * L + 2) \div 3
      /\ \A q \in Nat :
           /\ 4 * q + 1 <= Len(s) => s[4 * q + 1] = ByteAt(b, 3 * q) \div 4
           /\ 4 * q + 2 <= Len(s) =>
                s[4 * q + 2] = 16 * (ByteAt(b, 3 * q) % 4) + ByteAt(b, 3 * q + 1) \div 16
           /\ 4 * q + 3 <= Len(s) =>
                s[4 * q + 3] = 4 * (ByteAt(b, 3 * q + 1) % 16) + ByteAt(b, 3 * q + 2) \div 64
           /\ 4 * q + 4 <= Len(s) => s[4 * q + 4] = ByteAt(b, 3 * q + 2) % 64
  BY SextetsOf
<1>2. L \in Nat /\ b = [k \in 1..L |-> b[k]]
  OBVIOUS
<1> HIDE DEF s
<1>3. (3 * Len(s)) \div 4 = L
  <2>1. \A l \in Nat : (3 * ((4 * l + 2) \div 3)) \div 4 = l
    OBVIOUS
  <2> QED  BY <1>1, <1>2, <2>1
<1> DEFINE Part(r, o) == CASE r = 1 -> 4 * s[o + 1] + s[o + 2] \div 16
                           [] r = 2 -> 16 * (s[o + 2] % 16) + s[o + 3] \div 4
                           [] r = 0 -> 64 * (s[o + 3] % 4) + s[o + 4]
           Back(k) == Part(k % 3, 4 * ((k - 1) \div 3))
<1>4. ASSUME NEW k \in 1..L
      PROVE  Back(k) = b[k]
  <2>1. PICK q \in Nat : k \in {3 * q + 1, 3 * q + 2, 3 * q + 3}
    <3>1. (k - 1) \div 3 \in Nat /\ k \in {3 * ((k - 1) \div 3) + 1, 3 * ((k - 1) \div 3) + 2, 3 * ((k - 1) \div 3) + 3}
      <4>1. k \in Nat /\ k >= 1
        BY <1>2
      <4> QED  BY <4>1
    <3> QED  BY <3>1
  <2>2. PICK x, y, z \in Byte : x = ByteAt(b, 3 * q) /\ y = ByteAt(b, 3 * q + 1) /\ z = ByteAt(b, 3 * q + 2)
    <3>1. 3 * q \in Int /\ 3 * q + 1 \in Int /\ 3 * q + 2 \in Int
      OBVIOUS
    <3> QED  BY <3>1, BytesAt DEF Buffers
  <2>3. /\ 4 * (x \div 4) + (16 * (x % 4) + y \div 16) \div 16 = x
        /\ 16 * ((16 * (x % 4) + y \div 16) % 16) + (4 * (y % 16) + z \div 64) \div 4 = y
        /\ 64 * ((4 * (y % 16) + z \div 64) % 4) + (z % 64) = z
    BY Sextets
  <2>4. b[k] = ByteAt(b, k - 1)
    <3>1. k - 1 \in 0..L - 1 /\ (k - 1) + 1 = k
      BY <1>2
    <3> QED  BY <3>1, BytesAt DEF Buffers
  <2>5. CASE k = 3 * q + 1
    <3>1. (k - 1) \div 3 = q /\ k % 3 = 1 /\ k - 1 = 3 * q
      BY <2>5
    <3>2. Back(k) = Part(1, 4 * q)
      BY <3>1, Zenon
    <3>5. Part(1, 4 * q) = 4 * s[4 * q + 1] + s[4 * q + 2] \div 16
      OBVIOUS
    <3>3. 4 * q + 1 <= Len(s) /\ 4 * q + 2 <= Len(s)
      BY <1>1, <1>2, <2>5
    <3>4. s[4 * q + 1] = x \div 4 /\ s[4 * q + 2] = 16 * (x % 4) + y \div 16
      BY <1>1, <2>2, <3>3
    <3> HIDE DEF Back, Part
    <3> QED  BY <2>2, <2>3, <2>4, <3>1, <3>2, <3>4, <3>5
  <2>6. CASE k = 3 * q + 2
    <3>1. (k - 1) \div 3 = q /\ k % 3 = 2 /\ k - 1 = 3 * q + 1
      BY <2>6
    <3>2. Back(k) = Part(2, 4 * q)
      BY <3>1, Zenon
    <3>5. Part(2, 4 * q) = 16 * (s[4 * q + 2] % 16) + s[4 * q + 3] \div 4
      OBVIOUS
    <3>3. 4 * q + 2 <= Len(s) /\ 4 * q + 3 <= Len(s)
      BY <1>1, <1>2, <2>6
    <3>4. s[4 * q + 2] = 16 * (x % 4) + y \div 16 /\ s[4 * q + 3] = 4 * (y % 16) + z \div 64
      BY <1>1, <2>2, <3>3
    <3> HIDE DEF Back, Part
    <3> QED  BY <2>2, <2>3, <2>4, <3>1, <3>2, <3>4, <3>5
  <2>7. CASE k = 3 * q + 3
    <3>1. (k - 1) \div 3 = q /\ k % 3 = 0 /\ k - 1 = 3 * q + 2
      BY <2>7
    <3>2. Back(k) = Part(0, 4 * q)
      BY <3>1, Zenon
    <3>5. Part(0, 4 * q) = 64 * (s[4 * q + 3] % 4) + s[4 * q + 4]
      OBVIOUS
    <3>3. 4 * q + 3 <= Len(s) /\ 4 * q + 4 <= Len(s)
      BY <1>1, <1>2, <2>7
    <3>4. s[4 * q + 3] = 4 * (y % 16) + z \div 64 /\ s[4 * q + 4] = z % 64
      BY <1>1, <2>2, <3>3
    <3> HIDE DEF Back, Part
    <3> QED  BY <2>2, <2>3, <2>4, <3>1, <3>2, <3>4, <3>5
  <2> QED  BY <2>1, <2>5, <2>6, <2>7
<1>5. base64UrlToBytes(s) = [k \in 1..(3 * Len(s)) \div 4 |-> Back(k)]
  BY DEF base64UrlToBytes
<1> HIDE DEF Back
<1>6. [k \in 1..L |-> Back(k)] = [k \in 1..L |-> b[k]]
  BY <1>4
<1> QED  BY <1>2, <1>3, <1>5, <1>6 DEF s

-----------------------------------------------------------------------------
(* Recursion over the depth of the stack, and over the number of items. *)

\* Two sequences that take the same steps from the same start agree as far as both go.
LEMMA SameSteps ==
  ASSUME NEW f, NEW g, NEW G, NEW n \in Nat, f[0] = g[0],
         \A m \in Nat : m < n => f[m + 1] = G[m][f[m]] /\ g[m + 1] = G[m][g[m]]
  PROVE  f[n] = g[n]
<1> DEFINE T == {m \in Nat : m <= n => f[m] = g[m]}
<1>1. 0 \in T
  OBVIOUS
<1>2. ASSUME NEW m \in T
      PROVE  m + 1 \in T
  <2>1. m \in Nat /\ (m + 1 <= n => m < n /\ m <= n)
    OBVIOUS
  <2>2. m + 1 <= n => f[m] = g[m] /\ f[m + 1] = G[m][f[m]] /\ g[m + 1] = G[m][g[m]]
    BY <2>1
  <2> QED  BY <2>1, <2>2
<1> HIDE DEF T
<1>3. T \in SUBSET Nat
  BY DEF T
<1>4. T = Nat
  BY <1>1, <1>2, <1>3, SetInduction
<1> QED  BY <1>4 DEF T

\* f starts with s and takes the steps G.
Steps(S) == [Nat -> [S -> S]]
Unfolds(f, S, s, G) == f \in [Nat -> S] /\ f[0] = s /\ \A n \in Nat : f[n + 1] = G[n][f[n]]

\* Any first value and any steps make a sequence.
LEMMA Recursion ==
  ASSUME NEW S, NEW s \in S, NEW G \in Steps(S)
  PROVE  \E f : Unfolds(f, S, s, G)
<1>0. G \in [Nat -> [S -> S]]
  BY DEF Steps
<1> DEFINE Starts(n, f) == /\ f \in [0..n -> S] /\ f[0] = s
                           /\ \A m \in Nat : m < n => f[m + 1] = G[m][f[m]]
           T == {n \in Nat : \E f : Starts(n, f)}
<1>1. 0 \in T
  <2>1. Starts(0, [m \in 0..0 |-> s])
    OBVIOUS
  <2> HIDE DEF Starts
  <2> QED  BY <2>1
<1>2. ASSUME NEW n \in T
      PROVE  n + 1 \in T
  <2>1. n \in Nat
    OBVIOUS
  <2>2. PICK f : Starts(n, f)
    OBVIOUS
  <2> DEFINE g == [m \in 0..n + 1 |-> IF m <= n THEN f[m] ELSE G[n][f[n]]]
  <2>3. f[n] \in S /\ G[n][f[n]] \in S
    BY <1>0, <2>1, <2>2
  <2>4. g \in [0..n + 1 -> S]
    BY <2>1, <2>2, <2>3
  <2>5. (\A m \in 0..n : g[m] = f[m]) /\ g[n + 1] = G[n][f[n]]
    BY <2>1
  <2> HIDE DEF g
  <2>6. g[0] = s
    BY <2>1, <2>2, <2>5
  <2>7. ASSUME NEW m \in Nat, m < n + 1
        PROVE  g[m + 1] = G[m][g[m]]
    <3>1. CASE m = n
      <4>1. n \in 0..n
        BY <2>1
      <4> QED  BY <2>5, <3>1, <4>1
    <3>2. CASE m < n
      <4>1. m \in 0..n /\ m + 1 \in 0..n
        BY <2>1, <3>2
      <4> QED  BY <2>2, <2>5, <3>2, <4>1
    <3> QED  BY <2>1, <2>7, <3>1, <3>2
  <2>8. Starts(n + 1, g)
    BY <2>4, <2>6, <2>7
  <2> HIDE DEF Starts
  <2> QED  BY <2>1, <2>8
<1>3. T = Nat
  <2> HIDE DEF T
  <2>1. T \in SUBSET Nat
    BY DEF T
  <2> QED  BY <1>1, <1>2, <2>1, SetInduction
<1> DEFINE Start(n) == CHOOSE f : Starts(n, f)
<1>4. \A n \in Nat : Starts(n, Start(n))
  <2> HIDE DEF Starts
  <2>1. \A n \in Nat : \E f : Starts(n, f)
    BY <1>3
  <2> QED  BY <2>1
<1> HIDE DEF Start, T
<1>5. \A n \in Nat : Start(n + 1)[n] = Start(n)[n]
  <2> TAKE n \in Nat
  <2>1. n + 1 \in Nat /\ Starts(n, Start(n)) /\ Starts(n + 1, Start(n + 1))
    BY <1>4
  <2>2. \A m \in Nat : m < n => m < n + 1
    OBVIOUS
  <2>3. PICK f, g : f = Start(n) /\ g = Start(n + 1)
    OBVIOUS
  <2>4. /\ f[0] = g[0]
        /\ \A m \in Nat : m < n => g[m + 1] = G[m][g[m]] /\ f[m + 1] = G[m][f[m]]
    BY <2>1, <2>2, <2>3
  <2>5. g[n] = f[n]
    BY <2>4, SameSteps
  <2> QED  BY <2>3, <2>5
<1> DEFINE f == [n \in Nat |-> Start(n)[n]]
<1>6. f \in [Nat -> S]
  <2>1. \A n \in Nat : n \in 0..n
    OBVIOUS
  <2> QED  BY <1>4, <2>1
<1>7. f[0] = s
  BY <1>4
<1>8. ASSUME NEW n \in Nat
      PROVE  f[n + 1] = G[n][f[n]]
  <2>1. n + 1 \in Nat /\ n < n + 1
    OBVIOUS
  <2>2. Start(n + 1)[n + 1] = G[n][Start(n + 1)[n]]
    BY <1>4, <2>1
  <2> QED  BY <1>5, <2>1, <2>2
<1>9. Unfolds(f, S, s, G)
  <2> HIDE DEF f
  <2> QED  BY <1>6, <1>7, <1>8 DEF Unfolds
<1> QED  BY <1>9

\* The items that follow each other, one by one.
LEMMA ItemsLengthIs ==
  ASSUME NEW len \in [Int -> Int]
  PROVE  /\ ItemsLength(len) \in [Nat -> [Int -> Int]]
         /\ \A o \in Int : ItemsLength(len)[0][o] = 0
         /\ \A n \in Nat, o \in Int :
              ItemsLength(len)[n + 1][o] =
                LET rest == ItemsLength(len)[n][o + len[o]]
                IN IF len[o] = Thrown \/ rest = Thrown THEN Thrown ELSE len[o] + rest
<1> DEFINE S == [Int -> Int]
           Step(s) == [o \in Int |-> LET rest == s[o + len[o]]
                                     IN IF len[o] = Thrown \/ rest = Thrown THEN Thrown ELSE len[o] + rest]
           G == [n \in Nat |-> [s \in S |-> Step(s)]]
           zero == [o \in Int |-> 0]
           sum == CHOOSE f : f = [count \in Nat |->
                    [o \in Int |->
                       IF count = 0 THEN 0
                       ELSE LET rest == f[count - 1][o + len[o]]
                            IN IF len[o] = Thrown \/ rest = Thrown THEN Thrown ELSE len[o] + rest]]
<1>1. zero \in S /\ \A s \in S : Step(s) \in S
  BY DEF Thrown, Huge
<1> HIDE DEF S, Step
<1>2. G \in Steps(S)
  BY <1>1 DEF Steps
<1> HIDE DEF zero
<1>3. \E f : Unfolds(f, S, zero, G)
  <2> HIDE DEF G
  <2> QED  BY <1>1, <1>2, Recursion
<1>4. PICK f \in [Nat -> S] : f[0] = zero /\ \A n \in Nat : f[n + 1] = Step(f[n])
  BY <1>3 DEF Unfolds
<1>5. ASSUME NEW count \in Nat
      PROVE  f[count] = [o \in Int |->
                       IF count = 0 THEN 0
                       ELSE LET rest == f[count - 1][o + len[o]]
                            IN IF len[o] = Thrown \/ rest = Thrown THEN Thrown ELSE len[o] + rest]
  <2>1. CASE count = 0
    BY <1>4, <2>1 DEF zero
  <2>2. CASE count # 0
    <3>1. count - 1 \in Nat /\ (count - 1) + 1 = count
      BY <2>2
    <3>2. f[count] = Step(f[count - 1])
      BY <1>4, <3>1
    <3> QED  BY <2>2, <3>2 DEF Step
  <2> QED  BY <2>1, <2>2
<1>6. f = [count \in Nat |-> [o \in Int |->
                       IF count = 0 THEN 0
                       ELSE LET rest == f[count - 1][o + len[o]]
                            IN IF len[o] = Thrown \/ rest = Thrown THEN Thrown ELSE len[o] + rest]]
  BY <1>5
<1>7. sum = [count \in Nat |-> [o \in Int |->
                       IF count = 0 THEN 0
                       ELSE LET rest == sum[count - 1][o + len[o]]
                            IN IF len[o] = Thrown \/ rest = Thrown THEN Thrown ELSE len[o] + rest]]
  BY <1>6
<1>8. ItemsLength(len) = sum
  BY DEF ItemsLength
<1> HIDE DEF sum
<1>9. sum[0] = zero
  BY <1>7 DEF zero
<1>10. \A n \in Nat : sum[n + 1] = Step(sum[n])
  <2> TAKE n \in Nat
  <2>1. n + 1 \in Nat /\ n + 1 # 0 /\ (n + 1) - 1 = n
    OBVIOUS
  <2> QED  BY <1>7, <2>1 DEF Step
<1>11. sum \in [Nat -> S]
  <2> DEFINE T == {n \in Nat : sum[n] \in S}
  <2>1. 0 \in T
    BY <1>1, <1>9
  <2>2. \A n \in T : n + 1 \in T
    BY <1>1, <1>10
  <2>3. T = Nat
    <3> HIDE DEF T
    <3>1. T \in SUBSET Nat
      BY DEF T
    <3> QED  BY <2>1, <2>2, <3>1, SetInduction
  <2> QED  BY <1>7, <2>3
<1>12. \A o \in Int : sum[0][o] = 0
  BY <1>9 DEF zero
<1>13. \A n \in Nat, o \in Int :
         sum[n + 1][o] = LET rest == sum[n][o + len[o]]
                         IN IF len[o] = Thrown \/ rest = Thrown THEN Thrown ELSE len[o] + rest
  BY <1>10 DEF Step
<1>14. sum \in [Nat -> [Int -> Int]]
  BY <1>11 DEF S
<1> QED  BY <1>8, <1>12, <1>13, <1>14, Zenon

-----------------------------------------------------------------------------
(* The lengths of items, the items and their values are what their recursions say. *)

\* What the additional information of an initial byte says of the head.
LEMMA HeadIs ==
  ASSUME NEW buf, NEW o, Additional(buf, o) \in 0..31, NEW u
  PROVE  /\ Additional(buf, o) < 24 =>
              HeadLength(buf, o) = 1 /\ Argument(buf, o, u) = Additional(buf, o)
         /\ Additional(buf, o) = 24 =>
              HeadLength(buf, o) = 2 /\ Argument(buf, o, u) = ByteAt(buf, o + 1)
         /\ Additional(buf, o) = 25 =>
              /\ HeadLength(buf, o) = 3
              /\ Argument(buf, o, u) = 256 * ByteAt(buf, o + 1) + ByteAt(buf, o + 2)
         /\ Additional(buf, o) = 26 =>
              HeadLength(buf, o) = 5 /\ Argument(buf, o, u) = Word(buf, o + 1, u)
<1> DEFINE LengthOf(a) == CASE a < 24 -> 1 [] a = 24 -> 2 [] a = 25 -> 3 [] a = 26 -> 5
           Of(h) == CASE h = 1 -> Additional(buf, o) [] h = 2 -> ByteAt(buf, o + 1)
                      [] h = 3 -> 256 * ByteAt(buf, o + 1) + ByteAt(buf, o + 2)
                      [] h = 5 -> Word(buf, o + 1, u)
<1>1. HeadLength(buf, o) = LengthOf(Additional(buf, o))
  BY Zenon DEF HeadLength
<1>2. Argument(buf, o, u) = Of(HeadLength(buf, o))
  BY Zenon DEF Argument
<1>3. /\ \A a \in 0..31 : a < 24 => LengthOf(a) = 1
      /\ LengthOf(24) = 2 /\ LengthOf(25) = 3 /\ LengthOf(26) = 5
  OBVIOUS
<1>4. /\ Of(1) = Additional(buf, o) /\ Of(2) = ByteAt(buf, o + 1)
      /\ Of(3) = 256 * ByteAt(buf, o + 1) + ByteAt(buf, o + 2) /\ Of(5) = Word(buf, o + 1, u)
  OBVIOUS
<1> HIDE DEF LengthOf, Of
<1> QED  BY <1>1, <1>2, <1>3, <1>4

\* What a word of four bytes is.
LEMMA WordIs ==
  ASSUME NEW buf \in Buffers, NEW o \in Int
  PROVE  /\ Word(buf, o, "unsigned") \in Nat /\ Word(buf, o, "signed") \in Int
         /\ ByteAt(buf, o) < 128 => \A u \in Shifts :
              Word(buf, o, u) = BigEndian(ByteAt(buf, o), ByteAt(buf, o + 1),
                                          ByteAt(buf, o + 2), ByteAt(buf, o + 3))
<1>1. PICK x, y, z, w \in 0..255 : /\ x = ByteAt(buf, o) /\ y = ByteAt(buf, o + 1)
                                   /\ z = ByteAt(buf, o + 2) /\ w = ByteAt(buf, o + 3)
  <2>1. o + 1 \in Int /\ o + 2 \in Int /\ o + 3 \in Int
    OBVIOUS
  <2>2. \A i \in Int : ByteAt(buf, i) \in 0..255
    BY BytesAt DEF Byte
  <2> QED  BY <2>1, <2>2
<1>2. /\ \A u \in Shifts : x < 128 => Word(buf, o, u) = BigEndian(x, y, z, w)
      /\ ~(x < 128) => /\ Word(buf, o, "unsigned") = Huge
                       /\ Word(buf, o, "signed") = BigEndian(x - 256, y, z, w)
  BY <1>1 DEF Word, Shifts
<1>3. Huge \in Nat
  BY SMT DEF Huge
<1>4. BigEndian(x, y, z, w) \in Nat /\ BigEndian(x - 256, y, z, w) \in Int
  BY SMT DEF BigEndian
<1>5. Word(buf, o, "unsigned") \in Nat /\ Word(buf, o, "signed") \in Int
  <2>1. "unsigned" \in Shifts /\ "signed" \in Shifts
    BY DEF Shifts
  <2> QED  BY <1>2, <1>3, <1>4, <2>1
<1> QED  BY <1>1, <1>2, <1>5

\* The initial byte of an item.
LEMMA HeadTypes ==
  ASSUME NEW buf \in Buffers, NEW o \in Int
  PROVE  /\ Major(buf, o) \in 0..7 /\ Additional(buf, o) \in 0..31
         /\ Supported(buf, o) => /\ HeadLength(buf, o) \in {1, 2, 3, 5}
                                 /\ Argument(buf, o, "unsigned") \in Nat
                                 /\ Argument(buf, o, "signed") \in Int
<1>1. \A i \in Int : ByteAt(buf, i) \in 0..255
  BY BytesAt DEF Byte
<1>2. Major(buf, o) \in 0..7 /\ Additional(buf, o) \in 0..31
  <2>1. PICK x \in 0..255 : x = ByteAt(buf, o)
    BY <1>1
  <2> QED  BY <2>1 DEF Major, Additional
<1> SUFFICES ASSUME Supported(buf, o)
             PROVE  /\ HeadLength(buf, o) \in {1, 2, 3, 5}
                    /\ Argument(buf, o, "unsigned") \in Nat
                    /\ Argument(buf, o, "signed") \in Int
  BY <1>2
<1>3. Additional(buf, o) <= 26
  BY DEF Supported
<1>4. PICK a \in 0..26, x, y \in 0..255, n \in Nat, m \in Int :
        /\ a = Additional(buf, o) /\ x = ByteAt(buf, o + 1) /\ y = ByteAt(buf, o + 2)
        /\ n = Word(buf, o + 1, "unsigned") /\ m = Word(buf, o + 1, "signed")
  <2>1. o + 1 \in Int /\ o + 2 \in Int
    OBVIOUS
  <2>2. Word(buf, o + 1, "unsigned") \in Nat /\ Word(buf, o + 1, "signed") \in Int
    BY <2>1, WordIs
  <2>3. \E a \in 0..26 : a = Additional(buf, o)
    BY <1>2, <1>3
  <2> QED  BY <1>1, <2>1, <2>2, <2>3
<1>5. PICK h, t, f : /\ h = HeadLength(buf, o) /\ t = Argument(buf, o, "unsigned")
                    /\ f = Argument(buf, o, "signed")
  OBVIOUS
<1>6. /\ a < 24 => h = 1 /\ t = a /\ f = a
      /\ a = 24 => h = 2 /\ t = x /\ f = x
      /\ a = 25 => h = 3 /\ t = 256 * x + y /\ f = 256 * x + y
      /\ a = 26 => h = 5 /\ t = n /\ f = m
  BY <1>2, <1>4, <1>5, HeadIs
<1>7. h \in {1, 2, 3, 5} /\ t \in Nat /\ f \in Int
  BY <1>6
<1> QED  BY <1>5, <1>7

\* A call of cborFirstItemLength gives a number or throws.
LEMMA WalkOnceType ==
  ASSUME NEW buf \in Buffers, NEW shift \in Shifts, NEW len \in [Int -> Int], NEW o \in Int,
         Supported(buf, o)
  PROVE  WalkOnce(buf, shift, len, o) \in Int
<1>1. Thrown \in Int
  BY SMT DEF Thrown, Huge
<1> DEFINE major == Major(buf, o)
           head  == HeadLength(buf, o)
           n     == Argument(buf, o, shift)
           count == Contained(major, n)
           inner == ItemsLength(len)[IF count < 0 THEN 0 ELSE count][o + head]
<1>2. major \in 0..7 /\ head \in Int
  <2>1. Major(buf, o) \in 0..7 /\ HeadLength(buf, o) \in {1, 2, 3, 5}
    BY HeadTypes
  <2> QED  BY <2>1
<1>3. n \in Int
  <2>1. Argument(buf, o, "unsigned") \in Nat /\ Argument(buf, o, "signed") \in Int
    BY HeadTypes
  <2>2. CASE shift = "unsigned"
    BY <2>1, <2>2
  <2>3. CASE shift = "signed"
    BY <2>1, <2>3
  <2> QED  BY <2>2, <2>3 DEF Shifts
<1>4. ASSUME major \in {4, 5, 6}
      PROVE  inner \in Int
  <2>1. count \in Int
    BY <1>3, <1>4 DEF Contained
  <2>2. ItemsLength(len) \in [Nat -> [Int -> Int]]
    BY ItemsLengthIs
  <2> HIDE DEF count, head
  <2> QED  BY <1>2, <2>1, <2>2
<1> HIDE DEF inner, n, head, major
<1>5. WalkOnce(buf, shift, len, o) =
        CASE major \in {0, 1} -> head
            [] major \in {2, 3} -> head + n
            [] major = 7 -> IF Additional(buf, o) \in {25, 26} THEN 2 * head - 1 ELSE head
            [] major \in {4, 5, 6} -> IF inner = Thrown THEN Thrown ELSE head + inner
  BY DEF WalkOnce, inner, n, head, major
<1> QED  BY <1>1, <1>2, <1>3, <1>4, <1>5

\* cborFirstItemLength at each depth, from the depth below.
LEMMA ItemLengthIs ==
  ASSUME NEW buf \in Buffers, NEW shift \in Shifts
  PROVE  /\ ItemLength(buf, shift) \in [Nat -> [Int -> Int]]
         /\ \A d \in Nat, o \in Int :
              ItemLength(buf, shift)[d + 1][o] =
                IF Supported(buf, o) THEN WalkOnce(buf, shift, ItemLength(buf, shift)[d], o)
                ELSE Thrown
<1> DEFINE S == [Int -> Int]
           Step(s) == [o \in Int |-> IF Supported(buf, o) THEN WalkOnce(buf, shift, s, o)
                                    ELSE Thrown]
           G == [n \in Nat |-> [s \in S |-> Step(s)]]
           none == [o \in Int |-> Thrown]
           Body(f) == [depth \in Nat |->
                         [o \in Int |-> IF depth = 0 \/ ~Supported(buf, o) THEN Thrown
                                       ELSE WalkOnce(buf, shift, f[depth - 1], o)]]
           walk == CHOOSE f : f = Body(f)
<1>1. none \in S
  BY SMT DEF Thrown, Huge
<1>2. \A s \in S : Step(s) \in S
  <2> TAKE s \in S
  <2>1. \A o \in Int : Step(s)[o] \in Int
    <3> TAKE o \in Int
    <3>1. CASE Supported(buf, o)
      <4>1. WalkOnce(buf, shift, s, o) \in Int
        BY <3>1, WalkOnceType
      <4> QED  BY <3>1, <4>1
    <3>2. CASE ~Supported(buf, o)
      BY <3>2, SMT DEF Thrown, Huge
    <3> QED  BY <3>1, <3>2
  <2> QED  BY <2>1
<1>3. ItemLength(buf, shift) = walk
  BY DEF ItemLength
<1> HIDE DEF S, Step
<1>4. G \in Steps(S)
  BY <1>2 DEF Steps
<1> HIDE DEF none
<1>5. \E f : Unfolds(f, S, none, G)
  <2> HIDE DEF G
  <2> QED  BY <1>1, <1>4, Recursion
<1>6. PICK f \in [Nat -> S] : f[0] = none /\ \A n \in Nat : f[n + 1] = Step(f[n])
  BY <1>5 DEF Unfolds
<1>7. f = Body(f)
  <2>1. ASSUME NEW depth \in Nat
        PROVE  f[depth] = [o \in Int |-> IF depth = 0 \/ ~Supported(buf, o) THEN Thrown
                                        ELSE WalkOnce(buf, shift, f[depth - 1], o)]
    <3>1. CASE depth = 0
      BY <1>6, <3>1 DEF none
    <3>2. CASE depth # 0
      <4>1. depth - 1 \in Nat /\ (depth - 1) + 1 = depth
        BY <3>2
      <4>2. f[depth] = Step(f[depth - 1])
        BY <1>6, <4>1
      <4> QED  BY <3>2, <4>2 DEF Step
    <3> QED  BY <3>1, <3>2
  <2> QED  BY <2>1
<1>8. walk = Body(walk)
  <2> HIDE DEF Body
  <2> QED  BY <1>7
<1> HIDE DEF walk
<1>9. walk[0] = none
  BY <1>8 DEF none
<1>10. \A n \in Nat : walk[n + 1] = Step(walk[n])
  <2> TAKE n \in Nat
  <2>1. n + 1 \in Nat /\ n + 1 # 0 /\ (n + 1) - 1 = n
    OBVIOUS
  <2> QED  BY <1>8, <2>1 DEF Step
<1>11. walk \in [Nat -> S]
  <2> DEFINE T == {n \in Nat : walk[n] \in S}
  <2>1. 0 \in T
    BY <1>1, <1>9
  <2>2. \A n \in T : n + 1 \in T
    BY <1>2, <1>10
  <2>3. T = Nat
    <3> HIDE DEF T
    <3>1. T \in SUBSET Nat
      BY DEF T
    <3> QED  BY <2>1, <2>2, <3>1, SetInduction
  <2> QED  BY <1>8, <2>3
<1>12. \A d \in Nat, o \in Int :
         walk[d + 1][o] = IF Supported(buf, o) THEN WalkOnce(buf, shift, walk[d], o) ELSE Thrown
  BY <1>10 DEF Step
<1> QED  BY <1>3, <1>11, <1>12, Zenon DEF S

\* subarray gives bytes, whatever it is asked for.
LEMMA SliceType ==
  ASSUME NEW buf \in Buffers, NEW from \in Int, NEW to \in Int
  PROVE  Slice(buf, from, to) \in Buffers
<1>1. PICK L \in Nat : L = Len(buf)
  BY DEF Buffers
<1>2. PICK n \in Int : n = (IF to < L THEN to ELSE L) - from
  BY <1>1
<1>3. Slice(buf, from, to) = [k \in 1..n |-> ByteAt(buf, from + k - 1)]
  BY <1>1, <1>2 DEF Slice
<1>4. \A k \in 1..n : ByteAt(buf, from + k - 1) \in Byte
  <2> TAKE k \in 1..n
  <2>1. from + k - 1 \in Int
    BY <1>2
  <2> QED  BY <2>1, BytesAt
<1>5. PICK m \in Nat : 1..m = 1..n
  <2>1. CASE n \in Nat
    BY <2>1
  <2>2. CASE n \notin Nat
    <3>1. 1..n = 1..0
      BY <1>2, <2>2
    <3> QED  BY <3>1
  <2> QED  BY <2>1, <2>2
<1>6. Slice(buf, from, to) \in [1..m -> Byte]
  BY <1>3, <1>4, <1>5
<1> QED  BY <1>6 DEF Buffers

\* What the decoder may return.
Values == [kind : ValueKinds, n : Int, bytes : Buffers]

\* Every value the decoder makes is one of Values.
LEMMA ValueTypes ==
  /\ \A kind \in ValueKinds : Value(kind) \in Values
  /\ \A n \in Int : [Value("number") EXCEPT !.n = n] \in Values
  /\ \A b \in Buffers : [Value("bytes") EXCEPT !.bytes = b] \in Values
  /\ \A kind \in ValueKinds : \A values, len, start, count :
       Container(kind, values, len, start, count) \in Values
<1>1. <<>> \in Buffers
  BY DEF Buffers
<1>2. \A kind \in ValueKinds : Value(kind) \in Values
  BY <1>1 DEF Value, Values
<1>3. {"number", "bytes", "thrown"} \subseteq ValueKinds
  BY DEF ValueKinds
<1>4. \A kind \in ValueKinds : \A values, len, start, count :
        Container(kind, values, len, start, count) \in {Value(kind), Value("thrown")}
  BY Zenon DEF Container
<1>5. \A n \in Int : [Value("number") EXCEPT !.n = n] \in Values
  <2> TAKE n \in Int
  <2>1. [Value("number") EXCEPT !.n = n] = [kind |-> "number", n |-> n, bytes |-> <<>>]
    BY DEF Value
  <2> QED  BY <1>1, <1>3, <2>1 DEF Values
<1>6. \A b \in Buffers : [Value("bytes") EXCEPT !.bytes = b] \in Values
  <2> TAKE b \in Buffers
  <2>1. [Value("bytes") EXCEPT !.bytes = b] = [kind |-> "bytes", n |-> 0, bytes |-> b]
    BY DEF Value
  <2> QED  BY <1>3, <2>1 DEF Values
<1> QED  BY <1>2, <1>3, <1>4, <1>5, <1>6

\* Its cases.
LEMMA DecodeOnceIs ==
  ASSUME NEW buf, NEW len, NEW value, NEW o, NEW n, NEW start, NEW major, NEW v,
         n = Argument(buf, o, "unsigned"), start = o + HeadLength(buf, o),
         major = Major(buf, o), v = DecodeOnce(buf, len, value, o)
  PROVE  /\ major = 0 => v = [Value("number") EXCEPT !.n = n]
         /\ major = 1 => v = [Value("number") EXCEPT !.n = -1 - n]
         /\ major = 2 => v = [Value("bytes") EXCEPT !.bytes = Slice(buf, start, start + n)]
         /\ major = 3 => v = Value("text")
         /\ major = 4 => v = Container("array", value, len, start, n)
         /\ major = 5 => v = Container("map", value, len, start, 2 * n)
         /\ major = 6 => v = Value("thrown")
         /\ major = 7 => v = IF Additional(buf, o) \in 20..22 THEN Value("simple")
                             ELSE Value("thrown")
<1> DEFINE Case(t, a, b, c, d, e, f, g, h) ==
             CASE t = 0 -> a [] t = 1 -> b [] t = 2 -> c [] t = 3 -> d
               [] t = 4 -> e [] t = 5 -> f [] t = 6 -> g [] t = 7 -> h
<1>1. \A a, b, c, d, e, f, g, h :
        /\ Case(0, a, b, c, d, e, f, g, h) = a /\ Case(1, a, b, c, d, e, f, g, h) = b
        /\ Case(2, a, b, c, d, e, f, g, h) = c /\ Case(3, a, b, c, d, e, f, g, h) = d
        /\ Case(4, a, b, c, d, e, f, g, h) = e /\ Case(5, a, b, c, d, e, f, g, h) = f
        /\ Case(6, a, b, c, d, e, f, g, h) = g /\ Case(7, a, b, c, d, e, f, g, h) = h
  OBVIOUS
<1>2. PICK a, b, c, d, e, f, g, h :
        /\ a = [Value("number") EXCEPT !.n = n]
        /\ b = [Value("number") EXCEPT !.n = -1 - n]
        /\ c = [Value("bytes") EXCEPT !.bytes = Slice(buf, start, start + n)]
        /\ d = Value("text")
        /\ e = Container("array", value, len, start, n)
        /\ f = Container("map", value, len, start, 2 * n)
        /\ g = Value("thrown")
        /\ h = IF Additional(buf, o) \in 20..22 THEN Value("simple") ELSE Value("thrown")
  OBVIOUS
<1>3. v = Case(major, a, b, c, d, e, f, g, h)
  BY <1>2, Zenon DEF DecodeOnce
<1> HIDE DEF Case
<1>4. /\ major = 0 => v = a
      /\ major = 1 => v = b
      /\ major = 2 => v = c
      /\ major = 3 => v = d
      /\ major = 4 => v = e
      /\ major = 5 => v = f
      /\ major = 6 => v = g
      /\ major = 7 => v = h
  BY <1>1, <1>3
<1> QED  BY <1>2, <1>4, Zenon

\* A call of decodeCborFirst gives a value.
LEMMA DecodeOnceType ==
  ASSUME NEW buf \in Buffers, NEW len, NEW value, NEW o \in Int, Supported(buf, o)
  PROVE  DecodeOnce(buf, len, value, o) \in Values
<1>1. PICK n \in Nat : n = Argument(buf, o, "unsigned")
  BY HeadTypes
<1>2. PICK h \in Int : h = HeadLength(buf, o)
  <2>1. HeadLength(buf, o) \in {1, 2, 3, 5}
    BY HeadTypes
  <2> QED  BY <2>1
<1>3. PICK major \in 0..7 : major = Major(buf, o)
  BY HeadTypes
<1>4. n \in Int /\ -1 - n \in Int /\ o + h \in Int /\ o + h + n \in Int
  OBVIOUS
<1>5. Slice(buf, o + h, o + h + n) \in Buffers
  BY <1>4, SliceType
<1>6. {"number", "bytes", "text", "array", "map", "simple", "thrown"} \subseteq ValueKinds
  BY DEF ValueKinds
<1>7. /\ [Value("number") EXCEPT !.n = n] \in Values
      /\ [Value("number") EXCEPT !.n = -1 - n] \in Values
      /\ [Value("bytes") EXCEPT !.bytes = Slice(buf, o + h, o + h + n)] \in Values
      /\ Value("text") \in Values /\ Value("thrown") \in Values /\ Value("simple") \in Values
      /\ Container("array", value, len, o + h, n) \in Values
      /\ Container("map", value, len, o + h, 2 * n) \in Values
  BY <1>4, <1>5, <1>6, ValueTypes, Zenon
<1>8. PICK v : v = DecodeOnce(buf, len, value, o)
  OBVIOUS
<1>9. /\ major = 0 => v = [Value("number") EXCEPT !.n = n]
      /\ major = 1 => v = [Value("number") EXCEPT !.n = -1 - n]
      /\ major = 2 => v = [Value("bytes") EXCEPT !.bytes = Slice(buf, o + h, o + h + n)]
      /\ major = 3 => v = Value("text")
      /\ major = 4 => v = Container("array", value, len, o + h, n)
      /\ major = 5 => v = Container("map", value, len, o + h, 2 * n)
      /\ major = 6 => v = Value("thrown")
      /\ major = 7 => v \in {Value("simple"), Value("thrown")}
  <2>1. PICK start : start = o + h
    OBVIOUS
  <2>2. /\ n = Argument(buf, o, "unsigned") /\ start = o + HeadLength(buf, o)
        /\ major = Major(buf, o) /\ v = DecodeOnce(buf, len, value, o)
    BY <1>1, <1>2, <1>3, <1>8, <2>1, Zenon
  <2>3. /\ major = 0 => v = [Value("number") EXCEPT !.n = n]
        /\ major = 1 => v = [Value("number") EXCEPT !.n = -1 - n]
        /\ major = 2 => v = [Value("bytes") EXCEPT !.bytes = Slice(buf, start, start + n)]
        /\ major = 3 => v = Value("text")
        /\ major = 4 => v = Container("array", value, len, start, n)
        /\ major = 5 => v = Container("map", value, len, start, 2 * n)
        /\ major = 6 => v = Value("thrown")
        /\ major = 7 => v = IF Additional(buf, o) \in 20..22 THEN Value("simple")
                            ELSE Value("thrown")
    BY <2>2, DecodeOnceIs
  <2>4. major = 7 => v \in {Value("simple"), Value("thrown")}
    BY <2>3, Zenon
  <2> QED  BY <2>1, <2>3, <2>4, Zenon
<1>10. major = 7 => v \in Values
  BY <1>7, <1>9, Zenon
<1>11. major \in {0, 1, 2, 3, 4, 5, 6} => v \in Values
  BY <1>7, <1>9, Zenon
<1>12. major = 7 \/ major \in {0, 1, 2, 3, 4, 5, 6}
  OBVIOUS
<1> QED  BY <1>8, <1>10, <1>11, <1>12

\* decodeCborFirst at each depth, from the depth below.
LEMMA DecodeIs ==
  ASSUME NEW buf \in Buffers
  PROVE  /\ Decode(buf) \in [Nat -> [Int -> Values]]
         /\ \A d \in Nat, o \in Int :
              Decode(buf)[d + 1][o] =
                IF Supported(buf, o)
                THEN DecodeOnce(buf, UtilsItemLength(buf)[d], Decode(buf)[d], o)
                ELSE Value("thrown")
<1> DEFINE S == [Int -> Values]
           Step(n, s) == [o \in Int |-> IF Supported(buf, o)
                                        THEN DecodeOnce(buf, UtilsItemLength(buf)[n], s, o)
                                        ELSE Value("thrown")]
           G == [n \in Nat |-> [s \in S |-> Step(n, s)]]
           none == [o \in Int |-> Value("thrown")]
           Body(f) == [depth \in Nat |->
                         [o \in Int |->
                            IF depth = 0 \/ ~Supported(buf, o) THEN Value("thrown")
                            ELSE DecodeOnce(buf, UtilsItemLength(buf)[depth - 1], f[depth - 1], o)]]
           value == CHOOSE f : f = Body(f)
<1>0. Value("thrown") \in Values
  <2>1. "thrown" \in ValueKinds
    BY DEF ValueKinds
  <2> QED  BY <2>1, ValueTypes
<1>1. none \in S
  BY <1>0
<1>2. \A n \in Nat, s \in S : Step(n, s) \in S
  BY <1>0, DecodeOnceType
<1>3. Decode(buf) = value
  BY DEF Decode
<1> HIDE DEF S, Step
<1>4. G \in Steps(S)
  BY <1>2 DEF Steps
<1> HIDE DEF none
<1>5. \E f : Unfolds(f, S, none, G)
  <2> HIDE DEF G
  <2> QED  BY <1>1, <1>4, Recursion
<1>6. PICK f \in [Nat -> S] : f[0] = none /\ \A n \in Nat : f[n + 1] = Step(n, f[n])
  BY <1>5 DEF Unfolds
<1>7. f = Body(f)
  <2>1. ASSUME NEW depth \in Nat
        PROVE  f[depth] = [o \in Int |->
                             IF depth = 0 \/ ~Supported(buf, o) THEN Value("thrown")
                             ELSE DecodeOnce(buf, UtilsItemLength(buf)[depth - 1], f[depth - 1], o)]
    <3>1. CASE depth = 0
      BY <1>6, <3>1 DEF none
    <3>2. CASE depth # 0
      <4>1. depth - 1 \in Nat /\ (depth - 1) + 1 = depth
        BY <3>2
      <4>2. f[depth] = Step(depth - 1, f[depth - 1])
        BY <1>6, <4>1
      <4> QED  BY <3>2, <4>2 DEF Step
    <3> QED  BY <3>1, <3>2
  <2> QED  BY <2>1
<1>8. value = Body(value)
  <2> HIDE DEF Body
  <2> QED  BY <1>7
<1> HIDE DEF value
<1>9. value[0] = none
  BY <1>8 DEF none
<1>10. \A n \in Nat : value[n + 1] = Step(n, value[n])
  <2> TAKE n \in Nat
  <2>1. n + 1 \in Nat /\ n + 1 # 0 /\ (n + 1) - 1 = n
    OBVIOUS
  <2> QED  BY <1>8, <2>1 DEF Step
<1>11. value \in [Nat -> S]
  <2> DEFINE T == {n \in Nat : value[n] \in S}
  <2>1. 0 \in T
    BY <1>1, <1>9
  <2>2. \A n \in T : n + 1 \in T
    BY <1>2, <1>10
  <2>3. T = Nat
    <3> HIDE DEF T
    <3>1. T \in SUBSET Nat
      BY DEF T
    <3> QED  BY <2>1, <2>2, <3>1, SetInduction
  <2> QED  BY <1>8, <2>3
<1>12. \A d \in Nat, o \in Int :
         value[d + 1][o] = IF Supported(buf, o)
                           THEN DecodeOnce(buf, UtilsItemLength(buf)[d], value[d], o)
                           ELSE Value("thrown")
  BY <1>10 DEF Step
<1> QED  BY <1>3, <1>11, <1>12, Zenon DEF S

\* The items of every depth.
LEMMA ItemsIs ==
  ASSUME NEW simple, NEW majors
  PROVE  /\ Items(simple, majors)[0] = {}
         /\ \A d \in Nat :
              Items(simple, majors)[d + 1] = Made(simple, majors, Items(simple, majors)[d])
<1> DEFINE S == SUBSET Buffers
           G == [n \in Nat |-> [s \in S |-> Made(simple, majors, s)]]
           none == {}
           Body(f) == [depth \in Nat |-> IF depth = 0 THEN {} ELSE Made(simple, majors, f[depth - 1])]
           items == CHOOSE f : f = Body(f)
<1>1. none \in S
  OBVIOUS
<1>2. \A s \in S : Made(simple, majors, s) \in S
  BY DEF Made
<1>3. Items(simple, majors) = items
  BY DEF Items
<1> HIDE DEF S
<1>4. G \in Steps(S)
  BY <1>2 DEF Steps
<1> HIDE DEF none
<1>5. \E f : Unfolds(f, S, none, G)
  <2> HIDE DEF G
  <2> QED  BY <1>1, <1>4, Recursion
<1>6. PICK f \in [Nat -> S] : f[0] = none /\ \A n \in Nat : f[n + 1] = Made(simple, majors, f[n])
  BY <1>5 DEF Unfolds
<1>7. f = Body(f)
  <2>1. ASSUME NEW depth \in Nat
        PROVE  f[depth] = IF depth = 0 THEN {} ELSE Made(simple, majors, f[depth - 1])
    <3>1. CASE depth = 0
      BY <1>6, <3>1 DEF none
    <3>2. CASE depth # 0
      <4>1. depth - 1 \in Nat /\ (depth - 1) + 1 = depth
        BY <3>2
      <4>2. f[depth] = Made(simple, majors, f[depth - 1])
        BY <1>6, <4>1
      <4> QED  BY <3>2, <4>2
    <3> QED  BY <3>1, <3>2
  <2> QED  BY <2>1
<1>8. items = Body(items)
  <2> HIDE DEF Body
  <2> QED  BY <1>7
<1> HIDE DEF items
<1>9. items[0] = {}
  BY <1>8
<1>10. \A n \in Nat : items[n + 1] = Made(simple, majors, items[n])
  <2> TAKE n \in Nat
  <2>1. n + 1 \in Nat /\ n + 1 # 0 /\ (n + 1) - 1 = n
    OBVIOUS
  <2> QED  BY <1>8, <2>1
<1> QED  BY <1>3, <1>9, <1>10, Zenon

-----------------------------------------------------------------------------
(* An item inside a buffer: what the code reads there is what the item says. *)

\* buf holds b from offset o on.
Holds(buf, o, b) == /\ o \in Nat
                    /\ o + Len(b) <= Len(buf)
                    /\ \A i \in 1..Len(b) : buf[o + i] = b[i]

\* Each byte of what is held is where it should be.
LEMMA HeldBytes ==
  ASSUME NEW buf \in Buffers, NEW b \in Buffers, NEW o, Holds(buf, o, b), NEW i \in 1..Len(b)
  PROVE  ByteAt(buf, o + i - 1) = b[i] /\ b[i] \in 0..255
<1>1. /\ o \in Nat /\ o + Len(b) <= Len(buf) /\ buf[o + i] = b[i]
      /\ Len(b) \in Nat /\ Len(buf) \in Nat /\ b[i] \in Byte
  BY DEF Holds, Buffers
<1>2. o + i - 1 \in 0..Len(buf) - 1 /\ (o + i - 1) + 1 = o + i /\ o + i - 1 \in Int
  BY <1>1
<1>3. ByteAt(buf, o + i - 1) = buf[(o + i - 1) + 1]
  BY <1>2, BytesAt
<1> QED  BY <1>1, <1>2, <1>3 DEF Byte

\* The parts of what is held are held.
LEMMA HeldPart ==
  ASSUME NEW buf \in Buffers, NEW b \in Buffers, NEW o, Holds(buf, o, b),
         NEW i \in Nat, NEW j \in Nat, i <= j, j <= Len(b)
  PROVE  /\ SubSeq(b, i + 1, j) \in Buffers
         /\ Len(SubSeq(b, i + 1, j)) = j - i
         /\ Holds(buf, o + i, SubSeq(b, i + 1, j))
<1>1. /\ o \in Nat /\ o + Len(b) <= Len(buf) /\ \A k \in 1..Len(b) : buf[o + k] = b[k]
      /\ b \in Seq(Byte) /\ Len(b) \in Nat /\ Len(buf) \in Nat
  BY DEF Holds, Buffers
<1>2. PICK p : p = SubSeq(b, i + 1, j)
  OBVIOUS
<1>3. p \in Seq(Byte) /\ Len(p) = j - i /\ \A k \in 1..j - i : p[k] = b[i + k]
  <2>1. i + 1 \in 1..Len(b) + 1 /\ j \in i..Len(b)
    BY <1>1
  <2>2. /\ p \in Seq(Byte)
        /\ Len(p) = IF i + 1 <= j THEN j - (i + 1) + 1 ELSE 0
        /\ \A k \in 1..j - (i + 1) + 1 : p[k] = b[(i + 1) + k - 1]
    BY <1>1, <1>2, <2>1, SubSeqProperties
  <2>3. Len(p) = j - i
    BY <2>2
  <2>4. ASSUME NEW k \in 1..j - i
        PROVE  p[k] = b[i + k]
    <3>1. k \in 1..j - (i + 1) + 1 /\ (i + 1) + k - 1 = i + k
      OBVIOUS
    <3> QED  BY <2>2, <3>1
  <2> QED  BY <2>2, <2>3, <2>4
<1>4. Holds(buf, o + i, p)
  <2>1. o + i \in Nat /\ (o + i) + Len(p) <= Len(buf)
    BY <1>1, <1>3
  <2>2. ASSUME NEW k \in 1..Len(p)
        PROVE  buf[(o + i) + k] = p[k]
    <3>1. k \in 1..j - i /\ i + k \in 1..Len(b) /\ o + (i + k) = (o + i) + k
      BY <1>1, <1>3
    <3> QED  BY <1>1, <1>3, <3>1
  <2> QED  BY <2>1, <2>2 DEF Holds
<1> QED  BY <1>2, <1>3, <1>4 DEF Buffers

\* The first byte of a head tells its type.
LEMMA HeadFacts ==
  ASSUME NEW major \in 0..7, NEW h \in Heads(major)
  PROVE  /\ h \in Buffers /\ Len(h) \in {1, 2, 3, 5}
         /\ h[1] \in 32 * major..32 * major + 26
         /\ Len(h) = 1 => h[1] <= 32 * major + 23
         /\ Len(h) = 2 => h[1] = 32 * major + 24
         /\ Len(h) = 3 => h[1] = 32 * major + 25
         /\ Len(h) = 5 => h[1] = 32 * major + 26 /\ h[2] < 128
<1>1. h \in Buffers /\ \/ Len(h) = 1 /\ h[1] \in 32 * major..32 * major + 23
                       \/ Len(h) = 2 /\ h[1] = 32 * major + 24
                       \/ Len(h) = 3 /\ h[1] = 32 * major + 25
                       \/ Len(h) = 5 /\ h[1] = 32 * major + 26 /\ h[2] < 128
  BY DEF Heads
<1>2. PICK l, x, y : l = Len(h) /\ x = h[1] /\ y = h[2]
  OBVIOUS
<1>3. \/ l = 1 /\ x \in 32 * major..32 * major + 23
      \/ l = 2 /\ x = 32 * major + 24
      \/ l = 3 /\ x = 32 * major + 25
      \/ l = 5 /\ x = 32 * major + 26 /\ y < 128
  BY <1>1, <1>2
<1>4. /\ l \in {1, 2, 3, 5} /\ x \in 32 * major..32 * major + 26
      /\ l = 1 => x <= 32 * major + 23
      /\ l = 2 => x = 32 * major + 24
      /\ l = 3 => x = 32 * major + 25
      /\ l = 5 => x = 32 * major + 26 /\ y < 128
  BY <1>3
<1> QED  BY <1>1, <1>2, <1>4

\* A head is read as it was written.
LEMMA HeldHead ==
  ASSUME NEW buf \in Buffers, NEW o, NEW major \in 0..7, NEW h \in Heads(major), Holds(buf, o, h),
         NEW shift \in Shifts
  PROVE  /\ o \in Nat /\ Supported(buf, o) /\ Major(buf, o) = major
         /\ HeadLength(buf, o) = Len(h)
         /\ Argument(buf, o, shift) = Counts(h) /\ Counts(h) \in Nat
<1>1. /\ h \in Buffers /\ Len(h) \in {1, 2, 3, 5}
      /\ h[1] \in 32 * major..32 * major + 26
      /\ Len(h) = 1 => h[1] <= 32 * major + 23
      /\ Len(h) = 2 => h[1] = 32 * major + 24
      /\ Len(h) = 3 => h[1] = 32 * major + 25
      /\ Len(h) = 5 => h[1] = 32 * major + 26 /\ h[2] < 128
  BY HeadFacts
<1>2. o \in Nat /\ o + Len(h) <= Len(buf) /\ Len(buf) \in Nat
  BY DEF Holds, Buffers
<1>3. o < Len(buf)
  BY <1>1, <1>2
<1>4. PICK l \in {1, 2, 3, 5} : l = Len(h)
  BY <1>1
<1>5. \A i \in 1..l : ByteAt(buf, o + i - 1) = h[i] /\ h[i] \in 0..255
  BY <1>1, <1>4, HeldBytes
<1>6. ByteAt(buf, o) = h[1] /\ h[1] \in 0..255
  <2>1. 1 \in 1..l /\ o + 1 - 1 = o
    BY <1>2
  <2> QED  BY <1>5, <2>1
<1>7. PICK x \in 0..255, a \in 0..26 : x = h[1] /\ x = 32 * major + a
  <2>1. PICK x \in 0..255 : x = h[1] /\ x \in 32 * major..32 * major + 26
    BY <1>1, <1>6
  <2>2. x - 32 * major \in 0..26 /\ x = 32 * major + (x - 32 * major)
    BY <2>1
  <2> QED  BY <2>1, <2>2
<1>8. Major(buf, o) = major /\ Additional(buf, o) = a
  <2>1. (32 * major + a) \div 32 = major /\ (32 * major + a) % 32 = a
    OBVIOUS
  <2> QED  BY <1>6, <1>7, <2>1 DEF Major, Additional
<1>9. Supported(buf, o)
  <2>1. Additional(buf, o) <= 26
    BY <1>8
  <2> QED  BY <1>3, <2>1 DEF Supported
<1>10. /\ l = 1 => a < 24
       /\ l = 2 => a = 24
       /\ l = 3 => a = 25
       /\ l = 5 => a = 26
  <2>1. /\ l = 1 => x <= 32 * major + 23
        /\ l = 2 => x = 32 * major + 24
        /\ l = 3 => x = 32 * major + 25
        /\ l = 5 => x = 32 * major + 26
    BY <1>1, <1>4, <1>7
  <2> QED  BY <1>7, <2>1
<1>11. /\ a < 24 => HeadLength(buf, o) = 1 /\ Argument(buf, o, shift) = a
       /\ a = 24 => HeadLength(buf, o) = 2 /\ Argument(buf, o, shift) = ByteAt(buf, o + 1)
       /\ a = 25 => /\ HeadLength(buf, o) = 3
                    /\ Argument(buf, o, shift) = 256 * ByteAt(buf, o + 1) + ByteAt(buf, o + 2)
       /\ a = 26 => HeadLength(buf, o) = 5 /\ Argument(buf, o, shift) = Word(buf, o + 1, shift)
  <2>1. Additional(buf, o) \in 0..31
    BY <1>8
  <2> QED  BY <1>8, <2>1, HeadIs
<1> DEFINE C(n) == CASE n = 1 -> h[1] % 32
                    [] n = 2 -> h[2]
                    [] n = 3 -> 256 * h[2] + h[3]
                    [] n = 5 -> BigEndian(h[2], h[3], h[4], h[5])
<1>12. Counts(h) = C(l)
  BY <1>4, Zenon DEF Counts
<1>13. /\ C(1) = h[1] % 32 /\ C(2) = h[2] /\ C(3) = 256 * h[2] + h[3]
       /\ C(5) = BigEndian(h[2], h[3], h[4], h[5])
  OBVIOUS
<1> HIDE DEF C
<1> DEFINE P == /\ HeadLength(buf, o) = l /\ Argument(buf, o, shift) = Counts(h) /\ Counts(h) \in Nat
<1> SUFFICES P
  BY <1>2, <1>4, <1>8, <1>9
<1>14. CASE l = 1
  <2>1. h[1] % 32 = a
    BY <1>6, <1>8 DEF Additional
  <2>2. Counts(h) = a
    BY <1>12, <1>13, <1>14, <2>1
  <2> QED  BY <1>10, <1>11, <1>14, <2>2
<1>15. CASE l = 2
  <2>1. ByteAt(buf, o + 1) = h[2] /\ h[2] \in 0..255
    <3>1. 2 \in 1..l /\ o + 2 - 1 = o + 1
      BY <1>2, <1>15
    <3> QED  BY <1>5, <3>1
  <2>2. Counts(h) = h[2]
    BY <1>12, <1>13, <1>15
  <2> QED  BY <1>10, <1>11, <1>15, <2>1, <2>2
<1>16. CASE l = 3
  <2>1. /\ ByteAt(buf, o + 1) = h[2] /\ h[2] \in 0..255
        /\ ByteAt(buf, o + 2) = h[3] /\ h[3] \in 0..255
    <3>1. 2 \in 1..l /\ o + 2 - 1 = o + 1 /\ 3 \in 1..l /\ o + 3 - 1 = o + 2
      BY <1>2, <1>16
    <3> QED  BY <1>5, <3>1
  <2>2. Counts(h) = 256 * h[2] + h[3]
    BY <1>12, <1>13, <1>16
  <2>3. Argument(buf, o, shift) = 256 * h[2] + h[3] /\ HeadLength(buf, o) = l
    BY <1>10, <1>11, <1>16, <2>1
  <2>4. 256 * h[2] + h[3] \in Nat
    <3>1. \A p, q \in 0..255 : 256 * p + q \in Nat
      OBVIOUS
    <3> QED  BY <2>1, <3>1, Zenon
  <2> QED  BY <2>2, <2>3, <2>4
<1>17. CASE l = 5
  <2>1. /\ ByteAt(buf, o + 1) = h[2] /\ h[2] \in 0..255
        /\ ByteAt(buf, o + 1 + 1) = h[3] /\ h[3] \in 0..255
        /\ ByteAt(buf, o + 1 + 2) = h[4] /\ h[4] \in 0..255
        /\ ByteAt(buf, o + 1 + 3) = h[5] /\ h[5] \in 0..255
    <3>1. /\ 2 \in 1..l /\ o + 2 - 1 = o + 1 /\ 3 \in 1..l /\ o + 3 - 1 = o + 1 + 1
          /\ 4 \in 1..l /\ o + 4 - 1 = o + 1 + 2 /\ 5 \in 1..l /\ o + 5 - 1 = o + 1 + 3
      BY <1>2, <1>17
    <3> QED  BY <1>5, <3>1
  <2>2. Counts(h) = BigEndian(h[2], h[3], h[4], h[5])
    BY <1>12, <1>13, <1>17
  <2>3. Word(buf, o + 1, shift) = BigEndian(ByteAt(buf, o + 1), ByteAt(buf, o + 1 + 1),
                                            ByteAt(buf, o + 1 + 2), ByteAt(buf, o + 1 + 3))
    <3>1. o + 1 \in Int /\ ByteAt(buf, o + 1) < 128
      BY <1>1, <1>2, <1>4, <1>17, <2>1
    <3> QED  BY <3>1, WordIs
  <2>4. \A p, q, r, s \in 0..255 : BigEndian(p, q, r, s) \in Nat
    BY SMT DEF BigEndian
  <2>5. Word(buf, o + 1, shift) = Counts(h) /\ Counts(h) \in Nat
    <3>1. Word(buf, o + 1, shift) = BigEndian(h[2], h[3], h[4], h[5])
      BY <2>1, <2>3, Zenon
    <3>2. BigEndian(h[2], h[3], h[4], h[5]) \in Nat
      BY <2>1, <2>4, Zenon
    <3> QED  BY <2>2, <3>1, <3>2, Zenon
  <2> QED  BY <1>10, <1>11, <1>17, <2>5
<1> QED  BY <1>14, <1>15, <1>16, <1>17

\* No length is taken for an error.
LEMMA ThrownNegative == \A n \in Nat : n # Thrown
BY SMT DEF Thrown, Huge

\* The length of items that follow each other is where the last one ends.
LEMMA EndsAdd ==
  ASSUME NEW len \in [Int -> Int], NEW o \in Int, NEW n \in Nat, NEW ends \in [1..n + 1 -> Nat],
         \A i \in 1..n : ends[i] <= ends[i + 1] /\ len[o + ends[i]] = ends[i + 1] - ends[i]
  PROVE  \A c \in Nat : \A j \in 1..n + 1 :
           j + c <= n + 1 => ItemsLength(len)[c][o + ends[j]] = ends[j + c] - ends[j]
<1> DEFINE T == {c \in Nat : \A j \in 1..n + 1 :
                   j + c <= n + 1 => ItemsLength(len)[c][o + ends[j]] = ends[j + c] - ends[j]}
<1>1. /\ \A p \in Int : ItemsLength(len)[0][p] = 0
      /\ \A c \in Nat, p \in Int :
           ItemsLength(len)[c + 1][p] =
             LET rest == ItemsLength(len)[c][p + len[p]]
             IN IF len[p] = Thrown \/ rest = Thrown THEN Thrown ELSE len[p] + rest
  BY ItemsLengthIs
<1>2. 0 \in T
  <2>1. ASSUME NEW j \in 1..n + 1
        PROVE  ItemsLength(len)[0][o + ends[j]] = ends[j + 0] - ends[j]
    <3> HIDE DEF T
    <3>1. PICK e \in Nat : e = ends[j]
      OBVIOUS
    <3>2. j + 0 = j /\ o + e \in Int /\ e - e = 0
      OBVIOUS
    <3>3. ItemsLength(len)[0][o + e] = 0
      BY <1>1, <3>2
    <3>4. ItemsLength(len)[0][o + e] = e - e
      BY <3>2, <3>3
    <3> QED  BY <3>1, <3>2, <3>4, Zenon
  <2> QED  BY <2>1, Zenon DEF T
<1>3. ASSUME NEW c \in T
      PROVE  c + 1 \in T
  <2>1. c \in Nat /\ \A j \in 1..n + 1 :
          j + c <= n + 1 => ItemsLength(len)[c][o + ends[j]] = ends[j + c] - ends[j]
    OBVIOUS
  <2> HIDE DEF T
  <2>2. ASSUME NEW j \in 1..n + 1, j + (c + 1) <= n + 1
        PROVE  ItemsLength(len)[c + 1][o + ends[j]] = ends[j + (c + 1)] - ends[j]
    <3>1. /\ j \in 1..n /\ j + 1 \in 1..n + 1 /\ (j + 1) + c <= n + 1 /\ (j + 1) + c = j + (c + 1)
          /\ j + (c + 1) \in 1..n + 1
      BY <2>1, <2>2
    <3>2. PICK x \in Nat, y \in Nat, z \in Nat :
            x = ends[j] /\ y = ends[j + 1] /\ z = ends[j + (c + 1)]
      BY <3>1
    <3>3. x <= y /\ len[o + x] = y - x
      BY <3>1, <3>2
    <3>4. ItemsLength(len)[c][o + y] = z - y
      BY <2>1, <3>1, <3>2
    <3>5. o + x \in Int /\ (o + x) + len[o + x] = o + y
      BY <3>3
    <3>6. y <= z
      <4>1. \A i \in 1..n : ends[i] <= ends[i + 1]
        OBVIOUS
      <4> DEFINE U == {d \in Nat : j + 1 + d <= n + 1 => y <= ends[j + 1 + d]}
      <4>2. 0 \in U
        BY <3>1, <3>2
      <4>3. ASSUME NEW d \in U
            PROVE  d + 1 \in U
        <5> SUFFICES ASSUME j + 1 + (d + 1) <= n + 1
                     PROVE  y <= ends[j + 1 + (d + 1)]
          OBVIOUS
        <5>1. d \in Nat /\ j + 1 + d \in 1..n /\ (j + 1 + d) + 1 = j + 1 + (d + 1)
          BY <3>1
        <5>2. y <= ends[j + 1 + d] /\ ends[j + 1 + d] <= ends[(j + 1 + d) + 1]
          BY <4>1, <5>1
        <5>3. ends[j + 1 + d] \in Nat /\ ends[(j + 1 + d) + 1] \in Nat
          BY <5>1
        <5> QED  BY <5>1, <5>2, <5>3
      <4> HIDE DEF U
      <4>4. U = Nat
        <5>1. U \in SUBSET Nat
          BY DEF U
        <5> QED  BY <4>2, <4>3, <5>1, SetInduction
      <4>5. c \in U
        BY <2>1, <4>4
      <4>6. j + 1 + c <= n + 1 /\ j + 1 + c = j + (c + 1)
        BY <2>1, <3>1
      <4> QED  BY <3>2, <4>5, <4>6 DEF U
    <3>7. /\ y - x # Thrown /\ z - y # Thrown
          /\ y - x \in Int /\ z - y \in Int /\ z - x = (y - x) + (z - y)
      <4>1. y - x \in Nat /\ z - y \in Nat
        BY <3>3, <3>6
      <4>2. y - x \in Int /\ z - y \in Int /\ z - x = (y - x) + (z - y)
        OBVIOUS
      <4> QED  BY <4>1, <4>2, ThrownNegative, Zenon
    <3>8. ItemsLength(len)[c + 1][o + x] = z - x
      <4>1. PICK rest : rest = ItemsLength(len)[c][(o + x) + len[o + x]]
        OBVIOUS
      <4>2. rest = z - y
        BY <3>4, <3>5, <4>1
      <4>3. ItemsLength(len)[c + 1][o + x] =
              IF len[o + x] = Thrown \/ rest = Thrown THEN Thrown ELSE len[o + x] + rest
        BY <1>1, <2>1, <3>5, <4>1, Zenon
      <4>4. len[o + x] # Thrown /\ rest # Thrown
        BY <3>3, <3>7, <4>2, Zenon
      <4>5. ItemsLength(len)[c + 1][o + x] = (y - x) + (z - y)
        BY <3>3, <4>2, <4>3, <4>4, Zenon
      <4> QED  BY <3>7, <4>5, Zenon
    <3> QED  BY <3>2, <3>8, Zenon
  <2>3. c + 1 \in Nat
    BY <2>1
  <2> QED  BY <2>2, <2>3 DEF T
<1> HIDE DEF T
<1>4. T = Nat
  <2>1. T \in SUBSET Nat
    BY DEF T
  <2> QED  BY <1>2, <1>3, <2>1, SetInduction
<1> QED  BY <1>4 DEF T

\* The cases of cborFirstItemLength.
LEMMA WalkOnceIs ==
  ASSUME NEW buf, NEW shift, NEW length, NEW o, NEW major, NEW head, NEW n, NEW count, NEW v,
         major = Major(buf, o), head = HeadLength(buf, o), n = Argument(buf, o, shift),
         count = Contained(major, n), v = WalkOnce(buf, shift, length, o)
  PROVE  /\ major \in {0, 1} => v = head
         /\ major \in {2, 3} => v = head + n
         /\ major = 7 => v = IF Additional(buf, o) \in {25, 26} THEN 2 * head - 1 ELSE head
         /\ major \in {4, 5, 6} /\ count \in Nat =>
              v = IF ItemsLength(length)[count][o + head] = Thrown THEN Thrown
                  ELSE head + ItemsLength(length)[count][o + head]
<1>1. PICK inner : inner = ItemsLength(length)[IF count < 0 THEN 0 ELSE count][o + head]
  OBVIOUS
<1>2. PICK float : float = IF Additional(buf, o) \in {25, 26} THEN 2 * head - 1 ELSE head
  OBVIOUS
<1>3. PICK within : within = IF inner = Thrown THEN Thrown ELSE head + inner
  OBVIOUS
<1> DEFINE Case(m) == CASE m \in {0, 1} -> head
                        [] m \in {2, 3} -> head + n
                        [] m = 7 -> float
                        [] m \in {4, 5, 6} -> within
<1>4. v = Case(major)
  BY <1>1, <1>2, <1>3, Zenon DEF WalkOnce
<1>5. /\ \A m \in {0, 1} : Case(m) = head
      /\ \A m \in {2, 3} : Case(m) = head + n
      /\ Case(7) = float
      /\ \A m \in {4, 5, 6} : Case(m) = within
  OBVIOUS
<1> HIDE DEF Case
<1>6. count \in Nat => inner = ItemsLength(length)[count][o + head]
  <2>1. count \in Nat => (IF count < 0 THEN 0 ELSE count) = count
    OBVIOUS
  <2> QED  BY <1>1, <2>1
<1>7. /\ major \in {0, 1} => v = head
      /\ major \in {2, 3} => v = head + n
      /\ major = 7 => v = float
      /\ major \in {4, 5, 6} => v = within
  BY <1>4, <1>5
<1> QED  BY <1>2, <1>3, <1>6, <1>7, Zenon

\* b is a container of this type, with a head of k bytes and n items that end at ends.
Laid(b, major, k, n, ends, items) ==
  /\ k \in 1..Len(b) /\ Opening(b, k) \in Heads(major)
  /\ n = ItemsOf(major, Counts(Opening(b, k)))
  /\ ends[1] = k /\ Joins(b, ends, n, items)

\* The i-th item.
Piece(b, ends, i) == SubSeq(b, ends[i] + 1, ends[i + 1])

\* A container is what can be laid out as one.
LEMMA NestedLaid ==
  ASSUME NEW major, NEW items, NEW b
  PROVE  b \in Nested(major, items) <=>
           b \in Buffers /\ \E k, n, ends : Laid(b, major, k, n, ends, items)
<1>1. ASSUME b \in Nested(major, items)
      PROVE  b \in Buffers /\ \E k, n, ends : Laid(b, major, k, n, ends, items)
  <2>1. PICK k \in 1..Len(b) :
          /\ Opening(b, k) \in Heads(major)
          /\ LET n == ItemsOf(major, Counts(Opening(b, k)))
             IN \E ends \in [1..n + 1 -> 0..Len(b)] : ends[1] = k /\ Joins(b, ends, n, items)
    BY <1>1, Zenon DEF Nested
  <2>2. b \in Buffers
    BY <1>1, Zenon DEF Nested
  <2> QED  BY <2>1, <2>2, Zenon DEF Laid
<1>2. ASSUME b \in Buffers, NEW k, NEW n, NEW ends, Laid(b, major, k, n, ends, items)
      PROVE  b \in Nested(major, items)
  <2>1. /\ k \in 1..Len(b) /\ Opening(b, k) \in Heads(major)
        /\ n = ItemsOf(major, Counts(Opening(b, k)))
        /\ ends \in [1..n + 1 -> 0..Len(b)] /\ ends[1] = k /\ Joins(b, ends, n, items)
    BY <1>2, Zenon DEF Laid, Joins
  <2> QED  BY <1>2, <2>1, Zenon DEF Nested
<1> QED  BY <1>1, <1>2, Zenon

\* The prefix of an item that is its head.
LEMMA HeldOpening ==
  ASSUME NEW buf \in Buffers, NEW b \in Buffers, NEW o, Holds(buf, o, b), NEW k \in 1..Len(b)
  PROVE  k \in Nat /\ Len(Opening(b, k)) = k /\ Holds(buf, o, Opening(b, k))
<1>1. k \in Nat /\ k <= Len(b) /\ 0 + 1 = 1 /\ k - 0 = k /\ 0 \in Nat /\ 0 <= k
  BY DEF Buffers
<1>2. o \in Nat /\ o + 0 = o
  BY DEF Holds
<1>3. Len(SubSeq(b, 0 + 1, k)) = k - 0 /\ Holds(buf, o + 0, SubSeq(b, 0 + 1, k))
  BY <1>1, HeldPart
<1> QED  BY <1>1, <1>2, <1>3, Zenon DEF Opening

\* A container that is held: what its head says, and where its items are.
HeldContainer(buf, b, o, major, k, n, ends, items) ==
  /\ o \in Nat /\ k \in Nat /\ n \in Nat /\ ends \in [1..n + 1 -> Nat]
  /\ ends[1] = k /\ ends[n + 1] = Len(b)
  /\ Supported(buf, o) /\ Major(buf, o) = major /\ HeadLength(buf, o) = k
  /\ \A shift \in Shifts : Contained(major, Argument(buf, o, shift)) = n
  /\ \A i \in 1..n :
       /\ ends[i] <= ends[i + 1]
       /\ Piece(b, ends, i) \in items /\ Piece(b, ends, i) \in Buffers
       /\ Len(Piece(b, ends, i)) = ends[i + 1] - ends[i]
       /\ Holds(buf, o + ends[i], Piece(b, ends, i))

\* The items of a container that is held are held, and its head tells their number.
LEMMA LaidItems ==
  ASSUME NEW buf \in Buffers, NEW b \in Buffers, NEW o, Holds(buf, o, b), NEW major \in {4, 5, 6},
         NEW k, NEW n, NEW ends, NEW items, Laid(b, major, k, n, ends, items)
  PROVE  HeldContainer(buf, b, o, major, k, n, ends, items)
<1> DEFINE h == Opening(b, k)
<1>1. /\ k \in 1..Len(b) /\ h \in Heads(major) /\ n = ItemsOf(major, Counts(h))
      /\ ends[1] = k /\ ends \in [1..n + 1 -> 0..Len(b)] /\ ends[n + 1] = Len(b)
      /\ \A i \in 1..n : ends[i] <= ends[i + 1] /\ Piece(b, ends, i) \in items
  BY Zenon DEF Laid, Joins, Piece
<1>2. k \in Nat /\ Len(h) = k /\ Holds(buf, o, h)
  BY <1>1, HeldOpening
<1>3. major \in 0..7
  OBVIOUS
<1> HIDE DEF h
<1>4. /\ o \in Nat /\ Supported(buf, o) /\ Major(buf, o) = major /\ HeadLength(buf, o) = k
      /\ \A shift \in Shifts : Argument(buf, o, shift) = Counts(h)
      /\ Counts(h) \in Nat
  <2>1. \A shift \in Shifts :
          /\ o \in Nat /\ Supported(buf, o) /\ Major(buf, o) = major /\ HeadLength(buf, o) = Len(h)
          /\ Argument(buf, o, shift) = Counts(h) /\ Counts(h) \in Nat
    BY <1>1, <1>2, <1>3, HeldHead
  <2>2. "signed" \in Shifts
    BY DEF Shifts
  <2> QED  BY <1>2, <2>1, <2>2, Zenon
<1>5. n \in Nat
  <2>1. PICK c \in Nat : c = Counts(h)
    BY <1>4
  <2>2. n = CASE major = 4 -> c [] major = 5 -> 2 * c [] major = 6 -> 1
    BY <1>1, <2>1, Zenon DEF ItemsOf
  <2> QED  BY <2>2
<1>6. \A shift \in Shifts : Contained(major, Argument(buf, o, shift)) = n
  BY <1>1, <1>4, Zenon DEF Contained, ItemsOf
<1>7. ends \in [1..n + 1 -> Nat]
  <2>1. 0..Len(b) \subseteq Nat
    BY DEF Buffers
  <2> QED  BY <1>1, <2>1
<1>8. ASSUME NEW i \in 1..n
      PROVE  /\ ends[i] <= ends[i + 1]
             /\ Piece(b, ends, i) \in items /\ Piece(b, ends, i) \in Buffers
             /\ Len(Piece(b, ends, i)) = ends[i + 1] - ends[i]
             /\ Holds(buf, o + ends[i], Piece(b, ends, i))
  <2>1. i \in 1..n + 1 /\ i + 1 \in 1..n + 1
    BY <1>5
  <2>2. ends[i] \in Nat /\ ends[i + 1] \in Nat /\ ends[i + 1] \in 0..Len(b)
    BY <1>1, <1>7, <2>1, Zenon
  <2>3. ends[i + 1] <= Len(b)
    <3>1. PICK l \in Nat : l = Len(b)
      BY DEF Buffers
    <3> QED  BY <2>2, <3>1
  <2>4. PICK x \in Nat, y \in Nat : x = ends[i] /\ y = ends[i + 1]
    BY <2>2
  <2>5. x <= y /\ y <= Len(b)
    BY <1>1, <2>3, <2>4, Zenon
  <2>6. /\ SubSeq(b, x + 1, y) \in Buffers /\ Len(SubSeq(b, x + 1, y)) = y - x
        /\ Holds(buf, o + x, SubSeq(b, x + 1, y))
    BY <2>5, HeldPart
  <2>7. Piece(b, ends, i) = SubSeq(b, x + 1, y)
    BY <2>4, Zenon DEF Piece
  <2> QED  BY <1>1, <2>4, <2>5, <2>6, <2>7, Zenon
<1> QED  BY <1>1, <1>2, <1>4, <1>5, <1>6, <1>7, <1>8, Zenon DEF HeldContainer

\* len knows the lengths of these items.
Measures(buf, len, items) ==
  \A c \in items, p \in Nat : Holds(buf, p, c) => len[p] = Len(c)

\* A walk over the items of a container keeps step with them.
Steady(len, b, o, k, n, ends) ==
  /\ \A i \in 1..n : ItemAt(len, o + k, i) = o + ends[i] /\ len[o + ends[i]] = Len(Piece(b, ends, i))
  /\ ItemsLength(len)[n][o + k] = Len(b) - k

\* A walk that knows the lengths of the items comes past each, and to the end.
LEMMA LaidWalk ==
  ASSUME NEW buf \in Buffers, NEW b \in Buffers, NEW o, Holds(buf, o, b), NEW major \in {4, 5, 6},
         NEW k, NEW n, NEW ends, NEW items, Laid(b, major, k, n, ends, items),
         NEW len \in [Int -> Int], Measures(buf, len, items)
  PROVE  Steady(len, b, o, k, n, ends)
<1>0. HeldContainer(buf, b, o, major, k, n, ends, items)
  BY LaidItems
<1>9. \A i \in 1..n : len[o + ends[i]] = Len(Piece(b, ends, i))
  <2> TAKE i \in 1..n
  <2>1. /\ o \in Nat /\ n \in Nat /\ ends \in [1..n + 1 -> Nat]
        /\ Piece(b, ends, i) \in items /\ Holds(buf, o + ends[i], Piece(b, ends, i))
    BY <1>0, Zenon DEF HeldContainer
  <2>2. PICK e \in Nat : e = ends[i]
    <3>1. i \in 1..n + 1
      BY <2>1
    <3> QED  BY <2>1, <3>1, Zenon
  <2>3. o + e \in Nat
    BY <2>1
  <2> QED  BY <2>1, <2>2, <2>3, Zenon DEF Measures
<1>1. /\ o \in Nat /\ k \in Nat /\ n \in Nat /\ ends \in [1..n + 1 -> Nat]
      /\ ends[1] = k /\ ends[n + 1] = Len(b)
      /\ \A i \in 1..n : /\ ends[i] <= ends[i + 1]
                         /\ Len(Piece(b, ends, i)) = ends[i + 1] - ends[i]
  BY <1>0, Zenon DEF HeldContainer
<1>2. \A i \in 1..n : ends[i] <= ends[i + 1] /\ len[o + ends[i]] = ends[i + 1] - ends[i]
  BY <1>1, <1>9, Zenon
<1>3. o \in Int
  BY <1>1
<1>4. \A c \in Nat : \A j \in 1..n + 1 :
        j + c <= n + 1 => ItemsLength(len)[c][o + ends[j]] = ends[j + c] - ends[j]
  BY <1>1, <1>2, <1>3, EndsAdd
<1>5. \A c \in Nat : c <= n => ItemsLength(len)[c][o + k] = ends[1 + c] - k
  <2> TAKE c \in Nat
  <2>1. 1 \in 1..n + 1 /\ (c <= n => 1 + c <= n + 1)
    BY <1>1
  <2> QED  BY <1>1, <1>4, <2>1, Zenon
<1>6. ItemsLength(len)[n][o + k] = Len(b) - k
  <2>1. n <= n /\ 1 + n = n + 1
    BY <1>1
  <2> QED  BY <1>1, <1>5, <2>1, Zenon
<1>7. ASSUME NEW i \in 1..n
      PROVE  ItemAt(len, o + k, i) = o + ends[i]
  <2>1. i - 1 \in Nat /\ i - 1 <= n /\ 1 + (i - 1) = i
    BY <1>1
  <2>2. ItemsLength(len)[i - 1][o + k] = ends[i] - k
    BY <1>5, <2>1, Zenon
  <2>3. PICK e \in Nat : e = ends[i]
    <3>1. i \in 1..n + 1
      BY <1>1
    <3> QED  BY <1>1, <3>1
  <2>4. (o + k) + (e - k) = o + e
    BY <1>1
  <2> QED  BY <2>2, <2>3, <2>4, Zenon DEF ItemAt
<1> QED  BY <1>6, <1>7, <1>9, Zenon DEF Steady

\* What an item is made of.
Makes(simple, majors, items, b) ==
  /\ b \in Buffers
  /\ \/ b \in Heads(0) \/ b \in Heads(1)
     \/ \E n \in 0..Len(b) : b \in Strings(2, n)
     \/ \E n \in 0..Len(b) : b \in Strings(3, n)
     \/ Len(b) = 1 /\ b[1] - 224 \in simple
     \/ \E major \in majors : b \in Nested(major, items)

\* The two ways to say what an item is made of.
LEMMA MadeIs ==
  ASSUME NEW simple, NEW majors, NEW items, NEW b
  PROVE  b \in Made(simple, majors, items) <=> Makes(simple, majors, items, b)
BY Zenon DEF Made, Makes

\* A string that is held: what its head says.
HeldText(buf, b, o, major, n) ==
  /\ b \in Buffers /\ n \in Nat /\ o \in Nat /\ Len(b) \in Nat /\ n < Len(b)
  /\ Supported(buf, o) /\ Major(buf, o) = major
  /\ HeadLength(buf, o) = Len(b) - n
  /\ \A shift \in Shifts : Argument(buf, o, shift) = n

\* The head of a string that is held tells its type and length.
LEMMA HeldString ==
  ASSUME NEW buf \in Buffers, NEW b, NEW o, Holds(buf, o, b), NEW major \in {2, 3},
         NEW n \in 0..Len(b), b \in Strings(major, n)
  PROVE  HeldText(buf, b, o, major, n)
<1>1. /\ b \in Buffers /\ Len(b) > n /\ Opening(b, Len(b) - n) \in Heads(major)
      /\ Counts(Opening(b, Len(b) - n)) = n
  BY Zenon DEF Strings
<1>2. PICK l \in Nat : l = Len(b)
  BY <1>1 DEF Buffers
<1>3. n \in Nat /\ n < l /\ l - n \in 1..l
  BY <1>1, <1>2
<1>4. PICK h : h = Opening(b, l - n)
  OBVIOUS
<1>5. Len(h) = l - n /\ Holds(buf, o, h)
  BY <1>1, <1>2, <1>3, <1>4, HeldOpening
<1>6. major \in 0..7 /\ h \in Heads(major) /\ Counts(h) = n
  <2>1. major \in 0..7
    OBVIOUS
  <2> QED  BY <1>1, <1>2, <1>4, <2>1, Zenon
<1>7. \A shift \in Shifts :
        /\ o \in Nat /\ Supported(buf, o) /\ Major(buf, o) = major /\ HeadLength(buf, o) = Len(h)
        /\ Argument(buf, o, shift) = Counts(h)
  BY <1>5, <1>6, HeldHead
<1>8. "signed" \in Shifts
  BY DEF Shifts
<1> QED  BY <1>1, <1>2, <1>3, <1>5, <1>6, <1>7, <1>8, Zenon DEF HeldText

\* A simple value that is held.
LEMMA HeldSimple ==
  ASSUME NEW buf \in Buffers, NEW b \in Buffers, NEW o, Holds(buf, o, b),
         Len(b) = 1, b[1] - 224 \in 0..23
  PROVE  /\ o \in Nat /\ Supported(buf, o) /\ Major(buf, o) = 7 /\ HeadLength(buf, o) = 1
         /\ Additional(buf, o) = b[1] - 224
<1>1. o \in Nat /\ o + 1 <= Len(buf) /\ Len(buf) \in Nat
  BY DEF Holds, Buffers
<1>2. ByteAt(buf, o) = b[1] /\ b[1] \in 0..255
  <2>1. 1 \in 1..Len(b) /\ o + 1 - 1 = o
    BY <1>1
  <2>2. ByteAt(buf, o + 1 - 1) = b[1] /\ b[1] \in 0..255
    BY <2>1, HeldBytes
  <2> QED  BY <2>1, <2>2
<1>3. PICK x \in 0..255 : x = b[1]
  BY <1>2
<1>4. PICK a \in 0..23 : a = x - 224 /\ x = 224 + a
  <2>1. x - 224 \in 0..23
    BY <1>3
  <2> QED  BY <2>1
<1>5. (224 + a) \div 32 = 7 /\ (224 + a) % 32 = a
  OBVIOUS
<1>6. Major(buf, o) = 7 /\ Additional(buf, o) = a
  BY <1>2, <1>3, <1>4, <1>5, Zenon DEF Major, Additional
<1>7. Supported(buf, o)
  <2>1. o < Len(buf)
    BY <1>1
  <2>2. Additional(buf, o) <= 26
    BY <1>6
  <2> QED  BY <2>1, <2>2, Zenon DEF Supported
<1>8. HeadLength(buf, o) = 1
  <2>1. Additional(buf, o) \in 0..31 /\ Additional(buf, o) < 24
    BY <1>6
  <2> QED  BY <2>1, HeadIs
<1> QED  BY <1>1, <1>3, <1>4, <1>6, <1>7, <1>8, Zenon

\* Containers of items of a known length have a known length.
LEMMA ContainerWalked ==
  ASSUME NEW buf \in Buffers, NEW b \in Buffers, NEW o, Holds(buf, o, b), NEW major \in {4, 5, 6},
         NEW items, b \in Nested(major, items), NEW shift \in Shifts, NEW len \in [Int -> Int],
         Measures(buf, len, items)
  PROVE  Supported(buf, o) /\ WalkOnce(buf, shift, len, o) = Len(b)
<1>1. PICK k, n, ends : Laid(b, major, k, n, ends, items)
  BY NestedLaid, Zenon
<1>2. HeldContainer(buf, b, o, major, k, n, ends, items)
  BY <1>1, LaidItems
<1>3. /\ o \in Nat /\ k \in Nat /\ n \in Nat
      /\ Supported(buf, o) /\ Major(buf, o) = major /\ HeadLength(buf, o) = k
      /\ Contained(major, Argument(buf, o, shift)) = n
  BY <1>2, Zenon DEF HeldContainer
<1>4. Steady(len, b, o, k, n, ends)
  BY <1>1, LaidWalk
<1>5. ItemsLength(len)[n][o + k] = Len(b) - k
  BY <1>4, Zenon DEF Steady
<1>6. PICK inner : inner = ItemsLength(len)[n][o + k]
  OBVIOUS
<1>7. WalkOnce(buf, shift, len, o) = IF inner = Thrown THEN Thrown ELSE k + inner
  <2>1. PICK a : a = Argument(buf, o, shift)
    OBVIOUS
  <2>2. PICK v : v = WalkOnce(buf, shift, len, o)
    OBVIOUS
  <2>3. /\ major = Major(buf, o) /\ k = HeadLength(buf, o) /\ n = Contained(major, a)
    BY <1>3, <2>1, Zenon
  <2>4. major \in {4, 5, 6} /\ n \in Nat => v = IF ItemsLength(len)[n][o + k] = Thrown THEN Thrown
                  ELSE k + ItemsLength(len)[n][o + k]
    BY <2>1, <2>2, <2>3, WalkOnceIs
  <2> QED  BY <1>3, <1>6, <2>2, <2>4, Zenon
<1>8. inner \in Nat /\ k + inner = Len(b)
  <2>1. PICK l \in Nat : l = Len(b)
    BY DEF Buffers
  <2>2. k <= l
    BY <1>1, <2>1 DEF Laid
  <2>3. l - k \in Nat /\ k + (l - k) = l
    BY <1>3, <2>2
  <2> QED  BY <1>5, <1>6, <2>1, <2>3, Zenon
<1> QED  BY <1>3, <1>7, <1>8, ThrownNegative, Zenon

\* One call of cborFirstItemLength, if those it makes return the lengths of items.
LEMMA MadeWalked ==
  ASSUME NEW buf \in Buffers, NEW shift \in Shifts, NEW items, NEW len \in [Int -> Int],
         Measures(buf, len, items), NEW b \in Made(0..23, {4, 5, 6}, items), NEW o, Holds(buf, o, b)
  PROVE  Supported(buf, o) /\ WalkOnce(buf, shift, len, o) = Len(b)
<1>0. PICK simple, majors : simple = 0..23 /\ majors = {4, 5, 6}
  OBVIOUS
<1>1. Makes(simple, majors, items, b)
  <2>1. b \in Made(simple, majors, items)
    BY <1>0
  <2> QED  BY <2>1, MadeIs
<1>9. b \in Buffers
  BY <1>1, Zenon DEF Makes
<1>2. PICK major, head, n, count, v :
        /\ major = Major(buf, o) /\ head = HeadLength(buf, o) /\ n = Argument(buf, o, shift)
        /\ count = Contained(major, n) /\ v = WalkOnce(buf, shift, len, o)
  OBVIOUS
<1>3. /\ major \in {0, 1} => v = head
      /\ major \in {2, 3} => v = head + n
      /\ major = 7 => v = IF Additional(buf, o) \in {25, 26} THEN 2 * head - 1 ELSE head
  BY <1>2, WalkOnceIs
<1>4. ASSUME NEW m \in {0, 1}, b \in Heads(m)
      PROVE  Supported(buf, o) /\ WalkOnce(buf, shift, len, o) = Len(b)
  <2>1. m \in 0..7
    OBVIOUS
  <2>2. Supported(buf, o) /\ Major(buf, o) = m /\ HeadLength(buf, o) = Len(b)
    BY <1>4, <2>1, HeldHead
  <2> QED  BY <1>2, <1>3, <2>2, Zenon
<1>5. ASSUME NEW m \in {2, 3}, NEW l \in 0..Len(b), b \in Strings(m, l)
      PROVE  Supported(buf, o) /\ WalkOnce(buf, shift, len, o) = Len(b)
  <2>0. HeldText(buf, b, o, m, l)
    BY <1>5, HeldString
  <2>1. /\ l \in Nat /\ Len(b) \in Nat
        /\ Supported(buf, o) /\ Major(buf, o) = m
        /\ HeadLength(buf, o) = Len(b) - l
        /\ \A s \in Shifts : Argument(buf, o, s) = l
    BY <2>0, Zenon DEF HeldText
  <2>2. v = (Len(b) - l) + l
    BY <1>2, <1>3, <2>1, Zenon
  <2>3. (Len(b) - l) + l = Len(b)
    BY <2>1
  <2> QED  BY <1>2, <2>1, <2>2, <2>3, Zenon
<1>6. ASSUME Len(b) = 1, b[1] - 224 \in 0..23
      PROVE  Supported(buf, o) /\ WalkOnce(buf, shift, len, o) = Len(b)
  <2>1. /\ Supported(buf, o) /\ Major(buf, o) = 7 /\ HeadLength(buf, o) = 1
        /\ Additional(buf, o) = b[1] - 224
    BY <1>9, <1>6, HeldSimple
  <2>2. Additional(buf, o) \notin {25, 26}
    <3>1. \A a \in 0..23 : a \notin {25, 26}
      OBVIOUS
    <3> QED  BY <1>6, <2>1, <3>1, Zenon
  <2> QED  BY <1>2, <1>3, <1>6, <2>1, <2>2, Zenon
<1>7. ASSUME NEW m \in {4, 5, 6}, b \in Nested(m, items)
      PROVE  Supported(buf, o) /\ WalkOnce(buf, shift, len, o) = Len(b)
  BY <1>9, <1>7, ContainerWalked
<1>8. /\ 0 \in {0, 1} /\ 1 \in {0, 1} /\ 2 \in {2, 3} /\ 3 \in {2, 3}
  OBVIOUS
<1> QED  BY <1>0, <1>1, <1>4, <1>5, <1>6, <1>7, <1>8, Zenon DEF Makes

\* The items of each depth, from those of the depth below.
LEMMA EncodedIs ==
  /\ Encoded[0] = {}
  /\ \A d \in Nat : Encoded[d + 1] = Made(0..23, {4, 5, 6}, Encoded[d])
  /\ \A d \in Nat : Encoded[d] \in SUBSET Buffers
<1>1. PICK simple, majors : simple = 0..23 /\ majors = {4, 5, 6}
  OBVIOUS
<1>2. Encoded = Items(simple, majors)
  BY <1>1 DEF Encoded
<1>3. /\ Encoded[0] = {}
      /\ \A d \in Nat : Encoded[d + 1] = Made(simple, majors, Encoded[d])
  BY <1>2, ItemsIs
<1>4. \A d \in Nat : Encoded[d] \in SUBSET Buffers
  <2> TAKE d \in Nat
  <2>1. CASE d = 0
    BY <1>3, <2>1
  <2>2. CASE d # 0
    <3>1. d - 1 \in Nat /\ (d - 1) + 1 = d
      BY <2>2
    <3>2. Encoded[d] = Made(simple, majors, Encoded[d - 1])
      BY <1>3, <3>1, Zenon
    <3>3. PICK items : items = Encoded[d - 1]
      OBVIOUS
    <3>4. \A b : b \in Made(simple, majors, items) => b \in Buffers
      BY MadeIs, Zenon DEF Makes
    <3> QED  BY <3>2, <3>3, <3>4
  <2> QED  BY <2>1, <2>2
<1> QED  BY <1>1, <1>3, <1>4, Zenon

\* Both copies of cborFirstItemLength measure what authenticators encode, however deep.
LEMMA Walked ==
  ASSUME NEW buf \in Buffers, NEW shift \in Shifts, NEW d \in Nat
  PROVE  Measures(buf, ItemLength(buf, shift)[d], Encoded[d])
<1> DEFINE T == {e \in Nat : Measures(buf, ItemLength(buf, shift)[e], Encoded[e])}
<1>1. 0 \in T
  BY EncodedIs, Zenon DEF Measures
<1>2. ASSUME NEW e \in T
      PROVE  e + 1 \in T
  <2>1. e \in Nat /\ Measures(buf, ItemLength(buf, shift)[e], Encoded[e])
    OBVIOUS
  <2> HIDE DEF T
  <2>2. PICK len : len = ItemLength(buf, shift)[e]
    OBVIOUS
  <2>3. len \in [Int -> Int]
    <3>1. ItemLength(buf, shift) \in [Nat -> [Int -> Int]]
      BY ItemLengthIs
    <3> QED  BY <2>1, <2>2, <3>1, Zenon
  <2>4. \A p \in Int : ItemLength(buf, shift)[e + 1][p] =
                         IF Supported(buf, p) THEN WalkOnce(buf, shift, len, p) ELSE Thrown
    BY <2>1, <2>2, ItemLengthIs, Zenon
  <2>5. ASSUME NEW c \in Encoded[e + 1], NEW p \in Nat, Holds(buf, p, c)
        PROVE  ItemLength(buf, shift)[e + 1][p] = Len(c)
    <3>1. c \in Made(0..23, {4, 5, 6}, Encoded[e])
      BY EncodedIs, <2>1, Zenon
    <3>2. Measures(buf, len, Encoded[e])
      BY <2>1, <2>2
    <3>3. PICK items : items = Encoded[e]
      OBVIOUS
    <3>4. c \in Made(0..23, {4, 5, 6}, items) /\ Measures(buf, len, items)
      BY <3>1, <3>2, <3>3
    <3>5. Supported(buf, p) /\ WalkOnce(buf, shift, len, p) = Len(c)
      <4>1. Holds(buf, p, c) /\ len \in [Int -> Int]
        BY <2>3, <2>5
      <4> QED  BY <3>4, <4>1, MadeWalked
    <3>6. p \in Int
      OBVIOUS
    <3> QED  BY <2>4, <3>5, <3>6, Zenon
  <2>6. e + 1 \in Nat
    BY <2>1
  <2>7. Measures(buf, ItemLength(buf, shift)[e + 1], Encoded[e + 1])
    BY <2>5, Zenon DEF Measures
  <2> QED  BY <2>6, <2>7 DEF T
<1> HIDE DEF T
<1>3. T = Nat
  <2>1. T \in SUBSET Nat
    BY DEF T
  <2> QED  BY <1>1, <1>2, <2>1, SetInduction
<1> QED  BY <1>3, Zenon DEF T

-----------------------------------------------------------------------------
(* Decoding. *)

\* subarray gives back what is held.
LEMMA SliceHeld ==
  ASSUME NEW buf \in Buffers, NEW b \in Buffers, NEW o, Holds(buf, o, b)
  PROVE  Slice(buf, o, o + Len(b)) = b
<1>1. PICK l \in Nat, L \in Nat : l = Len(b) /\ L = Len(buf)
  BY DEF Buffers
<1>2. o \in Nat /\ o + l <= L
  BY <1>1 DEF Holds
<1>3. (IF o + l < L THEN o + l ELSE L) - o = l
  BY <1>2
<1>4. Slice(buf, o, o + l) = [k \in 1..l |-> ByteAt(buf, o + k - 1)]
  BY <1>1, <1>3 DEF Slice
<1>5. \A k \in 1..l : ByteAt(buf, o + k - 1) = b[k]
  BY <1>1, HeldBytes
<1>6. Slice(buf, o, o + l) = [k \in 1..l |-> b[k]]
  BY <1>4, <1>5
<1>7. b = [k \in 1..l |-> b[k]]
  BY <1>1 DEF Buffers
<1> QED  BY <1>1, <1>6, <1>7

\* An item has one type.
Typed(b, major) ==
  /\ \A m \in {0, 1} : b \in Heads(m) => major = m
  /\ \A m \in {2, 3}, n \in Nat : b \in Strings(m, n) => major = m
  /\ Len(b) = 1 /\ b[1] - 224 \in 0..23 => major = 7
  /\ \A m \in {4, 5, 6} : \A items : b \in Nested(m, items) => major = m

\* The type is the one the code reads.
LEMMA HeldTyped ==
  ASSUME NEW buf \in Buffers, NEW b \in Buffers, NEW o, Holds(buf, o, b)
  PROVE  Typed(b, Major(buf, o))
<1>1. ASSUME NEW m \in {0, 1}, b \in Heads(m)
      PROVE  Major(buf, o) = m
  <2>1. m \in 0..7
    OBVIOUS
  <2>2. "signed" \in Shifts
    BY DEF Shifts
  <2> QED  BY <1>1, <2>1, <2>2, HeldHead
<1>2. ASSUME NEW m \in {2, 3}, NEW n \in Nat, b \in Strings(m, n)
      PROVE  Major(buf, o) = m
  <2>1. n \in 0..Len(b)
    <3>1. PICK l \in Nat : l = Len(b)
      BY DEF Buffers
    <3>2. l > n
      BY <1>2, <3>1, Zenon DEF Strings
    <3>3. n \in 0..l
      BY <3>2
    <3> QED  BY <3>1, <3>3
  <2>2. HeldText(buf, b, o, m, n)
    BY <1>2, <2>1, HeldString
  <2> QED  BY <2>2, Zenon DEF HeldText
<1>3. ASSUME Len(b) = 1, b[1] - 224 \in 0..23
      PROVE  Major(buf, o) = 7
  BY <1>3, HeldSimple
<1>4. ASSUME NEW m \in {4, 5, 6}, NEW items, b \in Nested(m, items)
      PROVE  Major(buf, o) = m
  <2>1. PICK k, n, ends : Laid(b, m, k, n, ends, items)
    BY <1>4, NestedLaid, Zenon
  <2>2. HeldContainer(buf, b, o, m, k, n, ends, items)
    BY <2>1, LaidItems
  <2> QED  BY <2>2, Zenon DEF HeldContainer
<1> QED  BY <1>1, <1>2, <1>3, <1>4, Zenon DEF Typed

\* What is of another type is no number.
LEMMA NotNumber ==
  ASSUME NEW b, NEW major \in 2..7, Typed(b, major), NEW n
  PROVE  b \notin Numbers(n)
<1>1. 0 \in {0, 1} /\ 1 \in {0, 1} /\ major # 0 /\ major # 1
  OBVIOUS
<1>2. b \notin Heads(0) /\ b \notin Heads(1)
  BY <1>1, Zenon DEF Typed
<1>3. PICK c : c <=> n >= 0
  OBVIOUS
<1>4. Numbers(n) = IF c THEN {h \in Heads(0) : Counts(h) = n} ELSE {h \in Heads(1) : Counts(h) = -1 - n}
  BY <1>3, Zenon DEF Numbers
<1> QED  BY <1>2, <1>4, Zenon

\* What is of another type is no byte string.
LEMMA NotString ==
  ASSUME NEW b, NEW major, major # 2, Typed(b, major), NEW n \in Nat
  PROVE  b \notin Strings(2, n)
<1>1. 2 \in {2, 3}
  OBVIOUS
<1> QED  BY <1>1, Zenon DEF Typed

\* Which items the decoder knows, if it knows these inside of others.
LEMMA KnownBy ==
  ASSUME NEW b \in Buffers, NEW major, Typed(b, major), NEW known
  PROVE  /\ b \in Heads(0) \/ b \in Heads(1) => b \in Made(20..22, {4, 5}, known)
         /\ \A n \in Nat : b \in Strings(2, n) \/ b \in Strings(3, n) =>
              b \in Made(20..22, {4, 5}, known)
         /\ Len(b) = 1 /\ b[1] - 224 \in 0..23 =>
              (b \in Made(20..22, {4, 5}, known) <=> b[1] - 224 \in 20..22)
         /\ \A items : b \in Nested(6, items) => b \notin Made(20..22, {4, 5}, known)
         /\ \A m \in {4, 5} : \A items : b \in Nested(m, items) =>
              (b \in Made(20..22, {4, 5}, known) <=> b \in Nested(m, known))
<1>1. PICK simple, majors : simple = 20..22 /\ majors = {4, 5}
  OBVIOUS
<1>2. PICK all : all = 0..23
  OBVIOUS
<1>3. simple \subseteq all /\ \A m \in majors : m \in {4, 5, 6} /\ m # 6
  BY <1>1, <1>2
<1>4. b \in Made(simple, majors, known) <=> Makes(simple, majors, known, b)
  BY MadeIs
<1>5. PICK a : a = b[1] - 224
  OBVIOUS
<1>6. /\ b \in Heads(0) => major = 0
      /\ b \in Heads(1) => major = 1
      /\ \A n \in Nat : b \in Strings(2, n) => major = 2
      /\ \A n \in Nat : b \in Strings(3, n) => major = 3
      /\ Len(b) = 1 /\ a \in all => major = 7
      /\ \A m \in {4, 5, 6} : \A items : b \in Nested(m, items) => major = m
  <2>1. 0 \in {0, 1} /\ 1 \in {0, 1} /\ 2 \in {2, 3} /\ 3 \in {2, 3}
    OBVIOUS
  <2> QED  BY <1>2, <1>5, <2>1, Zenon DEF Typed
<1>7. /\ \A n \in 0..Len(b) : n \in Nat
      /\ \A n \in Nat : b \in Strings(2, n) \/ b \in Strings(3, n) => n \in 0..Len(b)
  <2>1. PICK l \in Nat : l = Len(b)
    BY DEF Buffers
  <2>2. \A n \in Nat : b \in Strings(2, n) \/ b \in Strings(3, n) => l > n
    BY <2>1, Zenon DEF Strings
  <2>3. \A n \in Nat : l > n => n \in 0..l
    OBVIOUS
  <2> QED  BY <2>1, <2>2, <2>3
<1>8. Makes(simple, majors, known, b) <=>
        \/ b \in Heads(0) \/ b \in Heads(1)
        \/ \E n \in 0..Len(b) : b \in Strings(2, n)
        \/ \E n \in 0..Len(b) : b \in Strings(3, n)
        \/ Len(b) = 1 /\ a \in simple
        \/ \E m \in majors : b \in Nested(m, known)
  BY <1>5, Zenon DEF Makes
<1>9. ASSUME Len(b) = 1, a \in all, b \in Made(simple, majors, known)
      PROVE  a \in simple
  <2>1. major = 7 /\ 7 \notin {0, 1, 2, 3, 4, 5, 6}
    BY <1>6, <1>9
  <2> QED  BY <1>3, <1>4, <1>6, <1>7, <1>8, <1>9, <2>1
<1>10. ASSUME NEW m \in {4, 5, 6}, NEW items, b \in Nested(m, items), b \in Made(simple, majors, known)
       PROVE  m \in majors /\ b \in Nested(m, known)
  <2>1. major = m /\ m \notin {0, 1, 2, 3, 7}
    BY <1>6, <1>10
  <2>2. b \notin Heads(0) /\ b \notin Heads(1) /\ ~(Len(b) = 1 /\ a \in simple)
    BY <1>3, <1>6, <2>1
  <2>3. \A n \in 0..Len(b) : b \notin Strings(2, n) /\ b \notin Strings(3, n)
    BY <1>6, <1>7, <2>1
  <2>4. PICK x \in majors : b \in Nested(x, known)
    BY <1>4, <1>8, <1>10, <2>2, <2>3, Zenon
  <2>5. x = m
    BY <1>3, <1>6, <2>1, <2>4, Zenon
  <2> QED  BY <2>4, <2>5
<1>11. /\ b \in Heads(0) \/ b \in Heads(1) => b \in Made(simple, majors, known)
       /\ \A n \in Nat : b \in Strings(2, n) \/ b \in Strings(3, n) =>
            b \in Made(simple, majors, known)
       /\ Len(b) = 1 /\ a \in simple => b \in Made(simple, majors, known)
       /\ \A m \in majors : b \in Nested(m, known) => b \in Made(simple, majors, known)
  BY <1>4, <1>7, <1>8, Zenon
<1>12. 6 \in {4, 5, 6} /\ {4, 5} \subseteq {4, 5, 6} /\ 6 \notin majors
  BY <1>1
<1> QED  BY <1>1, <1>2, <1>5, <1>9, <1>10, <1>11, <1>12, Zenon

\* The fields of a value.
LEMMA ValueFields ==
  /\ \A kind, v : v = Value(kind) => v.kind = kind
  /\ \A n, v : v = [Value("number") EXCEPT !.n = n] => v.kind = "number" /\ v.n = n
  /\ \A b, v : v = [Value("bytes") EXCEPT !.bytes = b] => v.kind = "bytes" /\ v.bytes = b
BY DEF Value

\* v is what the item b says, to a decoder that knows these items.
Meaning(v, b, known) ==
  /\ v.kind = "thrown" <=> b \notin known
  /\ \A n \in Int : IsNumber(v, n) <=> b \in Numbers(n)
  /\ \A n \in Nat : IsCoordinate(v, n) <=> b \in Strings(2, n)
  /\ \A n \in Nat : b \in Strings(2, n) => v.bytes = Ending(b, n)

\* The number an integer encodes, of either sign.
LEMMA NumbersIs ==
  ASSUME NEW m \in {0, 1}, NEW b, b \in Heads(m), Typed(b, m), NEW c \in Nat, c = Counts(b),
         NEW n \in Int
  PROVE  b \in Numbers(n) <=> n = IF m = 0 THEN c ELSE -1 - c
<1>1. PICK p : p <=> n >= 0
  OBVIOUS
<1>2. Numbers(n) = IF p THEN {h \in Heads(0) : Counts(h) = n} ELSE {h \in Heads(1) : Counts(h) = -1 - n}
  BY <1>1, Zenon DEF Numbers
<1>3. 0 \in {0, 1} /\ 1 \in {0, 1} /\ 0 # 1
  OBVIOUS
<1>4. (b \in Heads(0) <=> m = 0) /\ (b \in Heads(1) <=> m = 1)
  <2>1. b \in Heads(0) => m = 0
    BY <1>3, Zenon DEF Typed
  <2>2. b \in Heads(1) => m = 1
    BY <1>3, Zenon DEF Typed
  <2> QED  BY <2>1, <2>2
<1>5. b \in Numbers(n) <=> IF p THEN m = 0 /\ c = n ELSE m = 1 /\ c = -1 - n
  BY <1>2, <1>4, Zenon
<1> QED  BY <1>1, <1>5

\* An integer.
LEMMA HeadMeaning ==
  ASSUME NEW buf \in Buffers, NEW b \in Buffers, NEW o, Holds(buf, o, b), NEW m \in {0, 1},
         b \in Heads(m), NEW len, NEW value, NEW known
  PROVE  Meaning(DecodeOnce(buf, len, value, o), b, Made(20..22, {4, 5}, known))
<1>1. m \in 0..7 /\ m # 2 /\ "unsigned" \in Shifts
  BY DEF Shifts
<1>2. PICK c \in Nat : Argument(buf, o, "unsigned") = c /\ Counts(b) = c
  BY <1>1, HeldHead
<1>3. Major(buf, o) = m
  BY <1>1, HeldHead
<1>4. Typed(b, m)
  BY <1>3, HeldTyped
<1>5. PICK v, start : v = DecodeOnce(buf, len, value, o) /\ start = o + HeadLength(buf, o)
  OBVIOUS
<1>6. PICK x : x = IF m = 0 THEN c ELSE -1 - c
  OBVIOUS
<1>7. v = [Value("number") EXCEPT !.n = x]
  <2>1. /\ m = 0 => v = [Value("number") EXCEPT !.n = c]
        /\ m = 1 => v = [Value("number") EXCEPT !.n = -1 - c]
    BY <1>2, <1>3, <1>5, DecodeOnceIs
  <2> QED  BY <1>6, <2>1
<1>8. v.kind = "number" /\ v.n = x
  BY <1>7, ValueFields
<1>9. PICK K : K = Made(20..22, {4, 5}, known)
  OBVIOUS
<1>10. b \in K
  <2>1. b \in Heads(0) \/ b \in Heads(1)
    OBVIOUS
  <2> QED  BY <1>4, <1>9, <2>1, KnownBy
<1>11. \A n \in Nat : b \notin Strings(2, n)
  BY <1>1, <1>4, NotString
<1>12. \A n \in Int : IsNumber(v, n) <=> b \in Numbers(n)
  <2> TAKE n \in Int
  <2>1. b \in Numbers(n) <=> n = x
    BY <1>2, <1>4, <1>6, NumbersIs
  <2> QED  BY <1>8, <2>1, Zenon DEF IsNumber
<1>13. "number" # "thrown" /\ "number" # "bytes"
  OBVIOUS
<1>14. Meaning(v, b, K)
  BY <1>8, <1>10, <1>11, <1>12, <1>13, Zenon DEF Meaning, IsCoordinate
<1> QED  BY <1>5, <1>9, <1>14

\* What is no number and no byte string.
LEMMA OtherMeaning ==
  ASSUME NEW b, NEW major \in 3..7, Typed(b, major), NEW v, v.kind # "number", v.kind # "bytes",
         NEW known, v.kind = "thrown" <=> b \notin known
  PROVE  Meaning(v, b, known)
<1>1. major \in 2..7 /\ major # 2
  OBVIOUS
<1>2. \A n \in Int : b \notin Numbers(n)
  BY <1>1, NotNumber
<1>3. \A n \in Nat : b \notin Strings(2, n)
  BY <1>1, NotString
<1> QED  BY <1>2, <1>3, Zenon DEF Meaning, IsNumber, IsCoordinate

\* A string.
LEMMA StringMeaning ==
  ASSUME NEW buf \in Buffers, NEW b \in Buffers, NEW o, Holds(buf, o, b), NEW m \in {2, 3},
         NEW l \in 0..Len(b), b \in Strings(m, l), NEW len, NEW value, NEW known
  PROVE  Meaning(DecodeOnce(buf, len, value, o), b, Made(20..22, {4, 5}, known))
<1>1. HeldText(buf, b, o, m, l)
  BY HeldString
<1>2. "unsigned" \in Shifts
  BY DEF Shifts
<1>3. PICK L \in Nat : L = Len(b)
  BY DEF Buffers
<1>4. /\ l \in Nat /\ o \in Nat /\ l < L /\ Major(buf, o) = m
      /\ HeadLength(buf, o) = L - l /\ Argument(buf, o, "unsigned") = l
  BY <1>1, <1>2, <1>3, Zenon DEF HeldText
<1>5. Typed(b, m)
  BY <1>4, HeldTyped
<1>6. PICK v, start : v = DecodeOnce(buf, len, value, o) /\ start = o + (L - l)
  OBVIOUS
<1>7. /\ m = 2 => v = [Value("bytes") EXCEPT !.bytes = Slice(buf, start, start + l)]
      /\ m = 3 => v = Value("text")
  <2>1. l = Argument(buf, o, "unsigned") /\ start = o + HeadLength(buf, o) /\ m = Major(buf, o)
    BY <1>4, <1>6, Zenon
  <2> QED  BY <1>6, <2>1, DecodeOnceIs
<1>8. PICK K : K = Made(20..22, {4, 5}, known)
  OBVIOUS
<1>9. b \in K
  <2>1. b \in Strings(2, l) \/ b \in Strings(3, l)
    OBVIOUS
  <2> QED  BY <1>4, <1>5, <1>8, <2>1, KnownBy
<1>10. CASE m = 3
  <2>1. v.kind = "text"
    BY <1>7, <1>10, ValueFields
  <2>2. "text" \notin {"thrown", "number", "bytes"} /\ m \in 3..7
    BY <1>10
  <2>3. v.kind # "number" /\ v.kind # "bytes" /\ (v.kind = "thrown" <=> b \notin K)
    BY <1>9, <2>1, <2>2, Zenon
  <2>4. Meaning(v, b, K)
    BY <1>5, <2>2, <2>3, OtherMeaning
  <2> QED  BY <1>6, <1>8, <2>4
<1>11. CASE m = 2
  <2>1. l = L - (L - l) /\ L - l \in Nat /\ L - l <= L /\ L <= L
    BY <1>4
  <2>2. PICK i \in Nat : i = L - l
    BY <2>1
  <2>3. PICK p : p = SubSeq(b, i + 1, L)
    OBVIOUS
  <2>4. p \in Buffers /\ Len(p) = l /\ Holds(buf, start, p)
    <3>1. /\ SubSeq(b, i + 1, L) \in Buffers /\ Len(SubSeq(b, i + 1, L)) = L - i
          /\ Holds(buf, o + i, SubSeq(b, i + 1, L))
      <4>1. i <= L /\ L <= Len(b)
        BY <1>3, <2>1, <2>2
      <4> QED  BY <4>1, HeldPart
    <3>2. L - i = l
      BY <2>1, <2>2
    <3> QED  BY <1>6, <2>2, <2>3, <3>1, <3>2, Zenon
  <2>5. Slice(buf, start, start + l) = p
    BY <2>4, SliceHeld
  <2>6. v.kind = "bytes" /\ v.bytes = p
    <3>1. v = [Value("bytes") EXCEPT !.bytes = p]
      BY <1>7, <1>11, <2>5, Zenon
    <3> QED  BY <3>1, ValueFields
  <2>7. p = Ending(b, l)
    BY <1>3, <2>2, <2>3, Zenon DEF Ending
  <2>8. "bytes" # "thrown" /\ "bytes" # "number" /\ m \in 2..7
    BY <1>11
  <2>9. \A n \in Int : b \notin Numbers(n)
    BY <1>5, <2>8, NotNumber
  <2>10. \A n \in Nat : b \in Strings(2, n) => n = l
    <3> SUFFICES ASSUME NEW n \in Nat, b \in Strings(2, n)
                 PROVE  n = l
      OBVIOUS
    <3>1. n \in 0..Len(b)
      <4>1. L > n
        BY <1>3, Zenon DEF Strings
      <4>2. n \in 0..L
        BY <4>1
      <4> QED  BY <1>3, <4>2
    <3>2. HeldText(buf, b, o, 2, n)
      <4>1. 2 \in {2, 3}
        OBVIOUS
      <4> QED  BY <3>1, <4>1, HeldString
    <3> QED  BY <1>2, <1>4, <3>2, Zenon DEF HeldText
  <2>11. b \in Strings(2, l) /\ l \in Nat
    BY <1>4, <1>11
  <2>12. Meaning(v, b, K)
    BY <1>9, <2>4, <2>6, <2>7, <2>8, <2>9, <2>10, <2>11, Zenon DEF Meaning, IsNumber, IsCoordinate
  <2> QED  BY <1>6, <1>8, <2>12
<1> QED  BY <1>10, <1>11

\* A simple value.
LEMMA SimpleMeaning ==
  ASSUME NEW buf \in Buffers, NEW b \in Buffers, NEW o, Holds(buf, o, b),
         Len(b) = 1, b[1] - 224 \in 0..23, NEW len, NEW value, NEW known
  PROVE  Meaning(DecodeOnce(buf, len, value, o), b, Made(20..22, {4, 5}, known))
<1>1. Major(buf, o) = 7 /\ Additional(buf, o) = b[1] - 224
  BY HeldSimple
<1>2. Typed(b, 7)
  BY <1>1, HeldTyped
<1>3. PICK v, start, n : /\ v = DecodeOnce(buf, len, value, o) /\ start = o + HeadLength(buf, o)
                         /\ n = Argument(buf, o, "unsigned")
  OBVIOUS
<1>4. PICK major : major = 7
  OBVIOUS
<1>5. major = 7 => v = IF Additional(buf, o) \in 20..22 THEN Value("simple") ELSE Value("thrown")
  BY <1>1, <1>3, <1>4, DecodeOnceIs
<1>6. PICK K : K = Made(20..22, {4, 5}, known)
  OBVIOUS
<1>7. b \in K <=> b[1] - 224 \in 20..22
  BY <1>2, <1>6, KnownBy
<1>8. /\ b \in K => v.kind = "simple"
      /\ b \notin K => v.kind = "thrown"
  BY <1>1, <1>4, <1>5, <1>7, ValueFields
<1>9. {"simple", "thrown"} \cap {"number", "bytes"} = {} /\ "simple" # "thrown" /\ 7 \in 3..7
  OBVIOUS
<1>10. v.kind # "number" /\ v.kind # "bytes" /\ (v.kind = "thrown" <=> b \notin K)
  BY <1>8, <1>9
<1>11. Meaning(v, b, K)
  BY <1>2, <1>9, <1>10, OtherMeaning
<1> QED  BY <1>3, <1>6, <1>11

\* decodeCborFirst throws at a tag.
LEMMA TagThrows ==
  ASSUME NEW buf, NEW len, NEW value, NEW o, NEW v, v = DecodeOnce(buf, len, value, o),
         Major(buf, o) = 6
  PROVE  v = Value("thrown")
<1>1. PICK start, n, major : /\ n = Argument(buf, o, "unsigned") /\ major = Major(buf, o)
                             /\ start = o + HeadLength(buf, o)
  OBVIOUS
<1>2. major = 6 => v = Value("thrown")
  BY <1>1, DecodeOnceIs
<1> QED  BY <1>1, <1>2

\* A tagged item.
LEMMA TagMeaning ==
  ASSUME NEW buf \in Buffers, NEW b \in Buffers, NEW o, Holds(buf, o, b), NEW items,
         b \in Nested(6, items), NEW len, NEW value, NEW known
  PROVE  Meaning(DecodeOnce(buf, len, value, o), b, Made(20..22, {4, 5}, known))
<1>1. PICK major : major = Major(buf, o)
  OBVIOUS
<1>2. Typed(b, major)
  BY <1>1, HeldTyped
<1>3. major = 6
  <2>1. 6 \in {4, 5, 6}
    OBVIOUS
  <2> QED  BY <1>2, <2>1, Zenon DEF Typed
<1>4. PICK v : v = DecodeOnce(buf, len, value, o)
  OBVIOUS
<1>5. v = Value("thrown")
  <2>1. Major(buf, o) = 6
    BY <1>1, <1>3
  <2> QED  BY <1>4, <2>1, TagThrows
<1>6. PICK K : K = Made(20..22, {4, 5}, known)
  OBVIOUS
<1>7. b \notin K
  BY <1>2, <1>6, KnownBy
<1>8. v.kind = "thrown" /\ v.kind # "number" /\ v.kind # "bytes" /\ major \in 3..7
  <2>1. v.kind = "thrown"
    BY <1>5, ValueFields
  <2> QED  BY <1>3, <2>1
<1>9. Meaning(v, b, K)
  BY <1>2, <1>7, <1>8, OtherMeaning
<1> QED  BY <1>4, <1>6, <1>9

\* What value says of the items in buf.
Means(buf, value, items, known) ==
  \A c \in items, p \in Nat : Holds(buf, p, c) => Meaning(value[p], c, known)

\* The decoder knows every item.
AllKnown(b, n, ends, known) == \A i \in 1..n : Piece(b, ends, i) \in known

\* A container has one division into items that have a length.
LEMMA NestedKnown ==
  ASSUME NEW buf \in Buffers, NEW b \in Buffers, NEW o, Holds(buf, o, b), NEW major \in {4, 5, 6},
         NEW k, NEW n, NEW ends, NEW items, Laid(b, major, k, n, ends, items),
         NEW len \in [Int -> Int], Measures(buf, len, items), NEW known, known \subseteq items
  PROVE  b \in Nested(major, known) <=> AllKnown(b, n, ends, known)
<1>1. HeldContainer(buf, b, o, major, k, n, ends, items) /\ Steady(len, b, o, k, n, ends)
  BY LaidItems, LaidWalk
<1>2. ASSUME AllKnown(b, n, ends, known)
      PROVE  b \in Nested(major, known)
  <2>1. Laid(b, major, k, n, ends, known)
    BY <1>2, Zenon DEF Laid, Joins, AllKnown, Piece
  <2> QED  BY <2>1, NestedLaid, Zenon
<1>3. ASSUME b \in Nested(major, known)
      PROVE  AllKnown(b, n, ends, known)
  <2>1. PICK k2, n2, ends2 : Laid(b, major, k2, n2, ends2, known)
    BY <1>3, NestedLaid, Zenon
  <2>2. Laid(b, major, k2, n2, ends2, items)
    BY <2>1, Zenon DEF Laid, Joins
  <2>3. HeldContainer(buf, b, o, major, k2, n2, ends2, items) /\ Steady(len, b, o, k2, n2, ends2)
    BY <2>2, LaidItems, LaidWalk
  <2>4. "signed" \in Shifts
    BY DEF Shifts
  <2>5. /\ k2 = k /\ n2 = n /\ o \in Nat /\ n \in Nat
        /\ ends \in [1..n + 1 -> Nat] /\ ends2 \in [1..n + 1 -> Nat]
        /\ ends[n + 1] = Len(b) /\ ends2[n + 1] = Len(b)
    <3>1. /\ HeadLength(buf, o) = k /\ Contained(major, Argument(buf, o, "signed")) = n
          /\ o \in Nat /\ n \in Nat /\ ends \in [1..n + 1 -> Nat] /\ ends[n + 1] = Len(b)
      BY <1>1, <2>4, Zenon DEF HeldContainer
    <3>2. /\ HeadLength(buf, o) = k2 /\ Contained(major, Argument(buf, o, "signed")) = n2
          /\ ends2 \in [1..n2 + 1 -> Nat] /\ ends2[n2 + 1] = Len(b)
      BY <2>3, <2>4, Zenon DEF HeldContainer
    <3>3. k2 = k /\ n2 = n
      BY <3>1, <3>2, Zenon
    <3> QED  BY <3>1, <3>2, <3>3, Zenon
  <2>6. \A i \in 1..n + 1 : ends[i] = ends2[i]
    <3> TAKE i \in 1..n + 1
    <3>1. i = n + 1 \/ i \in 1..n
      BY <2>5
    <3>2. ASSUME i \in 1..n
          PROVE  ends[i] = ends2[i]
      <4>1. PICK x \in Nat, y \in Nat : x = ends[i] /\ y = ends2[i]
        BY <2>5
      <4>2. o + x = o + y
        BY <1>1, <2>3, <2>5, <3>2, <4>1, Zenon DEF Steady
      <4> QED  BY <2>5, <4>1, <4>2
    <3> QED  BY <2>5, <3>1, <3>2, Zenon
  <2>7. ASSUME NEW i \in 1..n
        PROVE  Piece(b, ends, i) \in known
    <3>1. i \in 1..n + 1 /\ i + 1 \in 1..n + 1
      BY <2>5
    <3>2. ends[i] = ends2[i] /\ ends[i + 1] = ends2[i + 1]
      BY <2>6, <3>1, Zenon
    <3>3. Piece(b, ends2, i) \in known
      BY <2>1, <2>5, Zenon DEF Laid, Joins, Piece
    <3> QED  BY <3>2, <3>3, Zenon DEF Piece
  <2> QED  BY <2>7, Zenon DEF AllKnown
<1> QED  BY <1>2, <1>3

\* Decoding a container fails if decoding an item does.
LEMMA ContainerIs ==
  ASSUME NEW buf \in Buffers, NEW b \in Buffers, NEW o, Holds(buf, o, b), NEW major \in {4, 5, 6},
         NEW k, NEW n, NEW ends, NEW items, Laid(b, major, k, n, ends, items),
         NEW len \in [Int -> Int], Measures(buf, len, items),
         NEW value, NEW known, Means(buf, value, items, known), NEW kind
  PROVE  Container(kind, value, len, o + k, n) =
           IF AllKnown(b, n, ends, known) THEN Value(kind) ELSE Value("thrown")
<1>1. HeldContainer(buf, b, o, major, k, n, ends, items) /\ Steady(len, b, o, k, n, ends)
  BY LaidItems, LaidWalk
<1>2. ASSUME NEW i \in 1..n
      PROVE  (\/ value[ItemAt(len, o + k, i)].kind = "thrown"
              \/ len[ItemAt(len, o + k, i)] = Thrown) <=> Piece(b, ends, i) \notin known
  <2>1. PICK p : p = o + ends[i]
    OBVIOUS
  <2>2. ItemAt(len, o + k, i) = p /\ len[p] = Len(Piece(b, ends, i))
    BY <1>1, <2>1, Zenon DEF Steady
  <2>3. Piece(b, ends, i) \in items /\ Piece(b, ends, i) \in Buffers /\ Holds(buf, p, Piece(b, ends, i))
    BY <1>1, <2>1, Zenon DEF HeldContainer
  <2>4. p \in Nat
    BY <2>3, Zenon DEF Holds
  <2>5. Meaning(value[p], Piece(b, ends, i), known)
    BY <2>3, <2>4, Zenon DEF Means
  <2>6. value[p].kind = "thrown" <=> Piece(b, ends, i) \notin known
    BY <2>5, Zenon DEF Meaning
  <2>7. Len(Piece(b, ends, i)) # Thrown
    <3>1. \A c \in Buffers : Len(c) \in Nat
      BY DEF Buffers
    <3> QED  BY <2>3, <3>1, ThrownNegative, Zenon
  <2> QED  BY <2>2, <2>6, <2>7, Zenon
<1>3. (\E i \in 1..n : \/ value[ItemAt(len, o + k, i)].kind = "thrown"
                       \/ len[ItemAt(len, o + k, i)] = Thrown) <=> ~AllKnown(b, n, ends, known)
  BY <1>2, Zenon DEF AllKnown
<1> QED  BY <1>3, Zenon DEF Container

\* An array or a map.
LEMMA NestedMeaning ==
  ASSUME NEW buf \in Buffers, NEW b \in Buffers, NEW o, Holds(buf, o, b), NEW m \in {4, 5},
         NEW items, b \in Nested(m, items), NEW len \in [Int -> Int], Measures(buf, len, items),
         NEW value, NEW known, known \subseteq items, Means(buf, value, items, known)
  PROVE  Meaning(DecodeOnce(buf, len, value, o), b, Made(20..22, {4, 5}, known))
<1>1. PICK k, n, ends : Laid(b, m, k, n, ends, items)
  BY NestedLaid, Zenon
<1>2. m \in {4, 5, 6} /\ m \in 3..7
  OBVIOUS
<1>3. HeldContainer(buf, b, o, m, k, n, ends, items)
  BY <1>1, <1>2, LaidItems
<1>4. "unsigned" \in Shifts
  BY DEF Shifts
<1>5. PICK count, start, v : /\ count = Argument(buf, o, "unsigned")
                             /\ start = o + HeadLength(buf, o) /\ v = DecodeOnce(buf, len, value, o)
  OBVIOUS
<1>6. Major(buf, o) = m /\ start = o + k /\ Contained(m, count) = n
  BY <1>3, <1>4, <1>5, Zenon DEF HeldContainer
<1>7. n = IF m = 4 THEN count ELSE 2 * count
  <2>1. Contained(4, count) = count /\ Contained(5, count) = 2 * count
    BY DEF Contained
  <2> QED  BY <1>6, <2>1
<1>8. PICK kind : kind = IF m = 4 THEN "array" ELSE "map"
  OBVIOUS
<1>9. v = Container(kind, value, len, start, n)
  <2>1. /\ m = 4 => v = Container("array", value, len, start, count)
        /\ m = 5 => v = Container("map", value, len, start, 2 * count)
    <3>1. m = Major(buf, o)
      BY <1>6
    <3> QED  BY <1>5, <3>1, DecodeOnceIs
  <2>2. m = 4 => v = Container(kind, value, len, start, n)
    BY <1>7, <1>8, <2>1, Zenon
  <2>3. m = 5 => v = Container(kind, value, len, start, n)
    <3>1. m = 5 => m # 4
      OBVIOUS
    <3> QED  BY <1>7, <1>8, <2>1, <3>1, Zenon
  <2> QED  BY <2>2, <2>3
<1>10. v = IF AllKnown(b, n, ends, known) THEN Value(kind) ELSE Value("thrown")
  <2>1. Container(kind, value, len, o + k, n) =
          IF AllKnown(b, n, ends, known) THEN Value(kind) ELSE Value("thrown")
    BY <1>1, <1>2, ContainerIs
  <2> QED  BY <1>6, <1>9, <2>1, Zenon
<1>11. PICK K : K = Made(20..22, {4, 5}, known)
  OBVIOUS
<1>12. Typed(b, m)
  <2>1. Typed(b, Major(buf, o))
    BY HeldTyped
  <2> QED  BY <1>6, <2>1, Zenon
<1>13. b \in K <=> AllKnown(b, n, ends, known)
  <2>1. b \in Nested(m, known) <=> AllKnown(b, n, ends, known)
    BY <1>1, <1>2, NestedKnown
  <2>2. b \in Made(20..22, {4, 5}, known) <=> b \in Nested(m, known)
    BY <1>12, KnownBy
  <2> QED  BY <1>11, <2>1, <2>2, Zenon
<1>14. v.kind # "number" /\ v.kind # "bytes" /\ (v.kind = "thrown" <=> b \notin K)
  <2>1. v.kind = IF AllKnown(b, n, ends, known) THEN kind ELSE "thrown"
    BY <1>10, ValueFields
  <2> QED  BY <1>8, <1>13, <2>1
<1>15. Meaning(v, b, K)
  BY <1>2, <1>12, <1>14, OtherMeaning
<1> QED  BY <1>5, <1>11, <1>15

\* The items the decoder knows at each depth, from those of the depth below.
LEMMA KnownIs ==
  /\ Known[0] = {}
  /\ \A d \in Nat : Known[d + 1] = Made(20..22, {4, 5}, Known[d])
<1>1. PICK simple, majors : simple = 20..22 /\ majors = {4, 5}
  OBVIOUS
<1>2. Known = Items(simple, majors)
  BY <1>1 DEF Known
<1>3. /\ Known[0] = {}
      /\ \A d \in Nat : Known[d + 1] = Made(simple, majors, Known[d])
  BY <1>2, ItemsIs
<1> QED  BY <1>1, <1>3, Zenon

\* A container of some items is one of more.
LEMMA NestedMono ==
  ASSUME NEW major, NEW known, NEW items, known \subseteq items, NEW b \in Nested(major, known)
  PROVE  b \in Nested(major, items)
<1>1. PICK k, n, ends : Laid(b, major, k, n, ends, known)
  BY NestedLaid, Zenon
<1>2. b \in Buffers
  BY NestedLaid, Zenon
<1>3. Laid(b, major, k, n, ends, items)
  BY <1>1, Zenon DEF Laid, Joins
<1> QED  BY <1>2, <1>3, NestedLaid, Zenon

\* What the decoder knows is what authenticators may encode.
LEMMA KnownEncoded ==
  ASSUME NEW d \in Nat
  PROVE  Known[d] \subseteq Encoded[d]
<1> DEFINE T == {e \in Nat : Known[e] \subseteq Encoded[e]}
<1>1. 0 \in T
  BY KnownIs, Zenon
<1>2. ASSUME NEW e \in T
      PROVE  e + 1 \in T
  <2>1. e \in Nat /\ Known[e] \subseteq Encoded[e]
    OBVIOUS
  <2>2. PICK known, items : known = Known[e] /\ items = Encoded[e]
    OBVIOUS
  <2>3. PICK some, all, majors, every : /\ some = 20..22 /\ all = 0..23
                                        /\ majors = {4, 5} /\ every = {4, 5, 6}
    OBVIOUS
  <2>4. some \subseteq all /\ majors \subseteq every
    BY <2>3
  <2>5. ASSUME NEW b \in Made(some, majors, known)
        PROVE  b \in Made(all, every, items)
    <3>1. Makes(some, majors, known, b)
      BY <2>5, MadeIs, Zenon
    <3>2. \A major : b \in Nested(major, known) => b \in Nested(major, items)
      BY <2>1, <2>2, NestedMono, Zenon
    <3>3. Makes(all, every, items, b)
      BY <2>4, <3>1, <3>2, Zenon DEF Makes
    <3> QED  BY <3>3, MadeIs, Zenon
  <2>6. Known[e + 1] = Made(some, majors, known) /\ Encoded[e + 1] = Made(all, every, items)
    BY <2>1, <2>2, <2>3, KnownIs, EncodedIs, Zenon
  <2>7. Known[e + 1] \subseteq Encoded[e + 1]
    BY <2>5, <2>6, Zenon
  <2>8. e + 1 \in Nat
    BY <2>1
  <2> QED  BY <2>7, <2>8
<1> HIDE DEF T
<1>3. T = Nat
  <2>1. T \in SUBSET Nat
    BY DEF T
  <2> QED  BY <1>1, <1>2, <2>1, SetInduction
<1> QED  BY <1>3, Zenon DEF T

\* One call of decodeCborFirst, if those it makes give what items say.
LEMMA MadeMeaning ==
  ASSUME NEW buf \in Buffers, NEW items, NEW len \in [Int -> Int], Measures(buf, len, items),
         NEW value, NEW known, known \subseteq items, Means(buf, value, items, known),
         NEW b \in Made(0..23, {4, 5, 6}, items), NEW o, Holds(buf, o, b)
  PROVE  Meaning(DecodeOnce(buf, len, value, o), b, Made(20..22, {4, 5}, known))
<1>1. PICK simple, majors : simple = 0..23 /\ majors = {4, 5, 6}
  OBVIOUS
<1>2. Makes(simple, majors, items, b)
  <2>1. b \in Made(simple, majors, items)
    BY <1>1
  <2> QED  BY <2>1, MadeIs
<1>3. b \in Buffers
  BY <1>2, Zenon DEF Makes
<1> DEFINE Goal == Meaning(DecodeOnce(buf, len, value, o), b, Made(20..22, {4, 5}, known))
<1>4. ASSUME NEW m \in {0, 1}, b \in Heads(m)
      PROVE  Goal
  BY <1>3, <1>4, HeadMeaning
<1>5. ASSUME NEW m \in {2, 3}, NEW l \in 0..Len(b), b \in Strings(m, l)
      PROVE  Goal
  BY <1>3, <1>5, StringMeaning
<1>6. ASSUME Len(b) = 1, b[1] - 224 \in 0..23
      PROVE  Goal
  BY <1>3, <1>6, SimpleMeaning
<1>7. ASSUME NEW m \in {4, 5}, b \in Nested(m, items)
      PROVE  Goal
  BY <1>3, <1>7, NestedMeaning
<1>8. ASSUME b \in Nested(6, items)
      PROVE  Goal
  BY <1>3, <1>8, TagMeaning
<1>9. /\ 0 \in {0, 1} /\ 1 \in {0, 1} /\ 2 \in {2, 3} /\ 3 \in {2, 3}
      /\ \A m \in majors : m \in {4, 5} \/ m = 6
  BY <1>1
<1> HIDE DEF Goal
<1>10. Goal
  BY <1>1, <1>2, <1>4, <1>5, <1>6, <1>7, <1>8, <1>9, Zenon DEF Makes
<1> QED  BY <1>10 DEF Goal

\* decodeCborFirst gives what authenticators encode, and fails at what it does not know.
LEMMA Decoded ==
  ASSUME NEW buf \in Buffers, NEW d \in Nat
  PROVE  Means(buf, Decode(buf)[d], Encoded[d], Known[d])
<1> DEFINE T == {e \in Nat : Means(buf, Decode(buf)[e], Encoded[e], Known[e])}
<1>1. 0 \in T
  BY EncodedIs, Zenon DEF Means
<1>2. ASSUME NEW e \in T
      PROVE  e + 1 \in T
  <2>1. e \in Nat /\ Means(buf, Decode(buf)[e], Encoded[e], Known[e])
    OBVIOUS
  <2>2. PICK len, value, items, known :
          /\ len = ItemLength(buf, "unsigned")[e] /\ value = Decode(buf)[e]
          /\ items = Encoded[e] /\ known = Known[e]
    OBVIOUS
  <2>3. "unsigned" \in Shifts
    BY DEF Shifts
  <2>4. len \in [Int -> Int] /\ Measures(buf, len, items)
    <3>1. ItemLength(buf, "unsigned") \in [Nat -> [Int -> Int]]
      BY <2>3, ItemLengthIs
    <3>2. Measures(buf, ItemLength(buf, "unsigned")[e], Encoded[e])
      BY <2>1, <2>3, Walked
    <3> QED  BY <2>1, <2>2, <3>1, <3>2, Zenon
  <2>5. known \subseteq items /\ Means(buf, value, items, known)
    <3>1. Known[e] \subseteq Encoded[e]
      BY <2>1, KnownEncoded
    <3> QED  BY <2>1, <2>2, <3>1, Zenon
  <2>6. \A p \in Int : Decode(buf)[e + 1][p] =
                         IF Supported(buf, p) THEN DecodeOnce(buf, len, value, p)
                         ELSE Value("thrown")
    BY <2>1, <2>2, DecodeIs, Zenon DEF UtilsItemLength
  <2>7. ASSUME NEW c \in Encoded[e + 1], NEW p \in Nat, Holds(buf, p, c)
        PROVE  Meaning(Decode(buf)[e + 1][p], c, Known[e + 1])
    <3>1. c \in Made(0..23, {4, 5, 6}, items)
      BY EncodedIs, <2>1, <2>2, Zenon
    <3>2. Supported(buf, p)
      BY <2>3, <2>4, <2>7, <3>1, MadeWalked
    <3>3. Meaning(DecodeOnce(buf, len, value, p), c, Made(20..22, {4, 5}, known))
      BY <2>4, <2>5, <2>7, <3>1, MadeMeaning
    <3>4. Known[e + 1] = Made(20..22, {4, 5}, known)
      BY KnownIs, <2>1, <2>2, Zenon
    <3>5. p \in Int
      OBVIOUS
    <3> QED  BY <2>6, <3>2, <3>3, <3>4, <3>5, Zenon
  <2>8. e + 1 \in Nat
    BY <2>1
  <2>9. Means(buf, Decode(buf)[e + 1], Encoded[e + 1], Known[e + 1])
    BY <2>7, Zenon DEF Means
  <2> QED  BY <2>8, <2>9
<1> HIDE DEF T
<1>3. T = Nat
  <2>1. T \in SUBSET Nat
    BY DEF T
  <2> QED  BY <1>1, <1>2, <2>1, SetInduction
<1> QED  BY <1>3, Zenon DEF T

-----------------------------------------------------------------------------
(* The key of a registration, from the authenticator's data to the SPKI key. *)

\* A key is a map of items: where they end is what ends says.
LEMMA KeyLaid ==
  ASSUME NEW r, IsKey(r)
  PROVE  /\ r.key \in Buffers /\ MaxDepth - 1 \in Nat
         /\ Laid(r.key, 5, r.ends[1], Len(r.ends) - 1, r.ends, Encoded[MaxDepth - 1])
         /\ r.key \in Encoded[MaxDepth] /\ Len(r.key) > 0
<1>1. PICK key, ends, k, n, c, items :
        /\ key = r.key /\ ends = r.ends /\ k = r.ends[1] /\ n = Len(r.ends) - 1
        /\ c = Counts(Opening(key, k)) /\ items = Encoded[MaxDepth - 1]
  OBVIOUS
<1>2. /\ key \in Buffers /\ k \in 1..Len(key) /\ Opening(key, k) \in Heads(5)
      /\ Len(ends) = 2 * c + 1 /\ MaxDepth > 0 /\ Joins(key, ends, n, items) /\ k = ends[1]
  BY <1>1, Zenon DEF IsKey
<1>3. MaxDepth - 1 \in Nat /\ (MaxDepth - 1) + 1 = MaxDepth
  BY <1>2, DepthAssumption DEF DepthAssumption
<1>4. n = ItemsOf(5, c)
  <2>1. c \in Nat
    <3>1. Holds(key, 0, key)
      <4>1. PICK l \in Nat : l = Len(key)
        BY <1>2 DEF Buffers
      <4>2. 0 \in Nat /\ 0 + l <= l /\ \A i \in 1..l : 0 + i = i
        OBVIOUS
      <4> QED  BY <4>1, <4>2, Zenon DEF Holds
    <3>2. Holds(key, 0, Opening(key, k))
      BY <1>2, <3>1, HeldOpening
    <3>3. 5 \in 0..7 /\ "signed" \in Shifts
      BY DEF Shifts
    <3> QED  BY <1>1, <1>2, <3>2, <3>3, HeldHead
  <2>2. ItemsOf(5, c) = 2 * c
    BY DEF ItemsOf
  <2>3. PICK l : l = Len(ends)
    OBVIOUS
  <2>4. l = 2 * c + 1 /\ n = l - 1
    BY <1>1, <1>2, <2>3, Zenon
  <2>5. n = 2 * c
    BY <2>1, <2>4
  <2> QED  BY <2>2, <2>5
<1>5. Laid(key, 5, k, n, ends, items)
  BY <1>1, <1>2, <1>4, Zenon DEF Laid
<1>6. key \in Nested(5, items)
  BY <1>2, <1>5, NestedLaid, Zenon
<1>7. key \in Encoded[MaxDepth]
  <2>1. PICK simple, majors : simple = 0..23 /\ majors = {4, 5, 6}
    OBVIOUS
  <2>2. 5 \in majors
    BY <2>1
  <2>3. key \in Made(simple, majors, items)
    BY <1>2, <1>6, <2>2, MadeIs, Zenon DEF Makes
  <2>4. Encoded[(MaxDepth - 1) + 1] = Made(simple, majors, items)
    BY <1>1, <1>3, <2>1, EncodedIs, Zenon
  <2> QED  BY <1>3, <2>3, <2>4, Zenon
<1>8. Len(key) > 0
  <2>1. PICK l \in Nat : l = Len(key)
    BY <1>2 DEF Buffers
  <2>2. k \in 1..l
    BY <1>2, <2>1
  <2> QED  BY <2>1, <2>2
<1> QED  BY <1>1, <1>2, <1>3, <1>5, <1>7, <1>8, Zenon

\* The Signing Layer finds the key, no byte more or less.
LEMMA Extracted ==
  ASSUME NEW r, IsRegistration(r)
  PROVE  /\ extractCosePublicKey(r.data) = r.key /\ r.key \in Buffers
         /\ r.key = <<>> \/ IsKey(r)
<1>1. PICK data, key, L : data = r.data /\ key = r.key /\ L = Len(data)
  OBVIOUS
<1>0. PICK o : o = 55 + 256 * data[54] + data[55]
  OBVIOUS
<1>2. /\ data \in Buffers /\ L >= 37
      /\ \/ (data[33] \div 64) % 2 = 0 /\ key = <<>>
         \/ /\ (data[33] \div 64) % 2 = 1 /\ L >= 55 /\ IsKey(r)
            /\ o + Len(key) <= L /\ SubSeq(data, o + 1, o + Len(key)) = key
  BY <1>0, <1>1, SMT DEF IsRegistration
<1>3. L \in Nat
  BY <1>1, <1>2 DEF Buffers
<1>4. ByteAt(data, FlagsOffset) = data[33]
  <2>1. 32 \in 0..L - 1 /\ 32 \in Int /\ 32 + 1 = 33
    BY <1>2, <1>3
  <2> QED  BY <1>1, <1>2, <2>1, BytesAt DEF FlagsOffset
<1>5. CASE (data[33] \div 64) % 2 = 0 /\ key = <<>>
  <2>1. ~Attested(data)
    BY <1>4, <1>5 DEF Attested
  <2>2. extractCosePublicKey(data) = <<>>
    BY <2>1 DEF extractCosePublicKey
  <2>3. <<>> \in Buffers
    BY DEF Buffers
  <2> QED  BY <1>1, <1>5, <2>2, <2>3
<1>6. CASE /\ (data[33] \div 64) % 2 = 1 /\ L >= 55 /\ IsKey(r)
           /\ o + Len(key) <= L /\ SubSeq(data, o + 1, o + Len(key)) = key
  <2>1. PICK l \in Nat : l = Len(key) /\ l > 0
    <3>1. key \in Buffers /\ Len(key) > 0
      BY <1>1, <1>6, KeyLaid, Zenon
    <3> QED  BY <3>1 DEF Buffers
  <2>2. o \in Nat /\ KeyOffset(data) = o /\ o >= 55
    <3>1. PICK x \in 0..255, y \in 0..255 :
            /\ x = ByteAt(data, 53) /\ y = ByteAt(data, 54) /\ x = data[54] /\ y = data[55]
      <4>1. 53 \in 0..L - 1 /\ 54 \in 0..L - 1 /\ 53 \in Int /\ 54 \in Int /\ 53 + 1 = 54 /\ 54 + 1 = 55
        BY <1>3, <1>6
      <4>2. ByteAt(data, 53) \in Byte /\ ByteAt(data, 53) = data[53 + 1]
        BY <1>1, <1>2, <4>1, BytesAt
      <4>3. ByteAt(data, 54) \in Byte /\ ByteAt(data, 54) = data[54 + 1]
        BY <1>1, <1>2, <4>1, BytesAt
      <4>4. PICK x, y : x = ByteAt(data, 53) /\ y = ByteAt(data, 54)
        OBVIOUS
      <4>5. x \in 0..255 /\ y \in 0..255
        BY <4>2, <4>3, <4>4 DEF Byte
      <4>6. x = data[54] /\ y = data[55]
        BY <4>1, <4>2, <4>3, <4>4
      <4> QED  BY <4>4, <4>5, <4>6
    <3>2. KeyOffset(data) = 53 + 2 + 256 * x + y
      BY <3>1 DEF KeyOffset
    <3>3. o = 55 + 256 * x + y
      BY <1>0, <3>1
    <3> QED  BY <3>1, <3>2, <3>3
  <2>3. o + l <= L /\ o < L /\ ~(L < 37) /\ ~(37 + 16 + 2 > L) /\ ~(o >= L)
    BY <1>2, <1>3, <1>6, <2>1, <2>2
  <2>4. Holds(data, o, key)
    <3>1. ASSUME NEW i \in 1..l
          PROVE  data[o + i] = key[i]
      <4>1. SubSeq(data, o + 1, o + l) = key /\ data \in Seq(Byte)
        BY <1>2, <1>6, <2>1 DEF Buffers
      <4>2. o + 1 \in 1..Len(data) + 1 /\ o + l \in (o + 1) - 1..Len(data)
        <5>1. o + 1 \in 1..L + 1 /\ o + l \in (o + 1) - 1..L
          BY <1>3, <2>1, <2>2, <2>3
        <5> QED  BY <1>1, <5>1, Zenon
      <4>3. \A j \in 1..(o + l) - (o + 1) + 1 : SubSeq(data, o + 1, o + l)[j] = data[(o + 1) + j - 1]
        BY <4>1, <4>2, SubSeqProperties
      <4>4. i \in 1..(o + l) - (o + 1) + 1 /\ (o + 1) + i - 1 = o + i
        BY <2>1, <2>2
      <4> QED  BY <4>1, <4>3, <4>4
    <3>2. o + l <= Len(data)
      BY <1>1, <2>3
    <3> QED  BY <2>1, <2>2, <3>1, <3>2, Zenon DEF Holds
  <2>5. SignerItemLength(data)[MaxDepth][o] = l
    <3>1. key \in Encoded[MaxDepth]
      BY <1>1, <1>6, KeyLaid, Zenon
    <3>2. "signed" \in Shifts
      BY DEF Shifts
    <3>3. MaxDepth \in Nat
      BY DepthAssumption DEF DepthAssumption
    <3>4. Measures(data, ItemLength(data, "signed")[MaxDepth], Encoded[MaxDepth])
      BY <1>2, <3>2, <3>3, Walked
    <3> QED  BY <2>1, <2>2, <2>4, <3>1, <3>4, Zenon DEF Measures, SignerItemLength
  <2>6. key \in Buffers
    BY <1>1, <1>6, KeyLaid, Zenon
  <2>7. Slice(data, o, o + l) = key
    BY <1>2, <2>1, <2>4, <2>6, SliceHeld, Zenon
  <2>8. Attested(data)
    BY <1>4, <1>6 DEF Attested
  <2>9. l # Thrown
    BY <2>1, ThrownNegative, Zenon
  <2>10. extractCosePublicKey(data) = Slice(data, o, o + l)
    <3>1. PICK p : p <=> Len(data) < 37 \/ ~Attested(data) \/ 37 + 16 + 2 > Len(data) \/ KeyOffset(data) >= Len(data)
      OBVIOUS
    <3>2. ~p
      BY <1>1, <2>2, <2>3, <2>8, <3>1, SMT
    <3>3. PICK length : length = SignerItemLength(data)[MaxDepth][o]
      OBVIOUS
    <3>4. extractCosePublicKey(data) = IF p THEN <<>> ELSE IF length = Thrown THEN <<>> ELSE Slice(data, o, o + length)
      BY <2>2, <3>1, <3>3 DEF extractCosePublicKey
    <3> QED  BY <2>5, <2>9, <3>2, <3>3, <3>4, Zenon
  <2>11. IsKey(r)
    BY <1>6
  <2> QED  BY <1>1, <2>6, <2>7, <2>10, <2>11, Zenon
<1> QED  BY <1>2, <1>5, <1>6

\* What the decoder finds in a registration's key.
Reads(r, entries) ==
  /\ DOMAIN entries = Places(r) /\ Places(r) \subseteq Nat
  /\ \A i \in Places(r) : i % 2 = 1 => i + 1 \in Places(r)
  /\ \A i \in Places(r) : Meaning(entries[i], Item(r, i), Known[MaxDepth - 1])

\* The decoder finds the entries of a key, and a map if it knows all of them.
LEMMA EntriesRead ==
  ASSUME NEW r, IsKey(r)
  PROVE  /\ Reads(r, Entries(r.key))
         /\ Decode(r.key)[MaxDepth][0].kind = "map" <=>
              \A i \in Places(r) : Item(r, i) \in Known[MaxDepth - 1]
<1>1. PICK key, ends, k, n, items, known, len, value, m :
        /\ key = r.key /\ ends = r.ends /\ k = r.ends[1] /\ n = Len(r.ends) - 1
        /\ items = Encoded[MaxDepth - 1] /\ known = Known[MaxDepth - 1]
        /\ len = UtilsItemLength(key)[MaxDepth - 1] /\ value = Decode(key)[MaxDepth - 1]
        /\ m = MaxDepth - 1
  OBVIOUS
<1>2. key \in Buffers /\ m \in Nat /\ Laid(key, 5, k, n, ends, items)
  BY <1>1, KeyLaid, Zenon
<1>3. Holds(key, 0, key)
  <2>1. PICK l \in Nat : l = Len(key)
    BY <1>2 DEF Buffers
  <2>2. 0 \in Nat /\ 0 + l <= l /\ \A i \in 1..l : 0 + i = i
    OBVIOUS
  <2> QED  BY <2>1, <2>2, Zenon DEF Holds
<1>4. "unsigned" \in Shifts /\ 5 \in {4, 5, 6}
  BY DEF Shifts
<1>5. len \in [Int -> Int] /\ Measures(key, len, items)
  <2>1. ItemLength(key, "unsigned") \in [Nat -> [Int -> Int]]
    BY <1>2, <1>4, ItemLengthIs
  <2>2. Measures(key, ItemLength(key, "unsigned")[m], Encoded[m])
    BY <1>2, <1>4, Walked
  <2> QED  BY <1>1, <1>2, <2>1, <2>2, Zenon DEF UtilsItemLength
<1>6. Means(key, value, items, known)
  <2>1. Means(key, Decode(key)[m], Encoded[m], Known[m])
    BY <1>2, Decoded
  <2> QED  BY <1>1, <2>1, Zenon
<1>7. HeldContainer(key, key, 0, 5, k, n, ends, items) /\ Steady(len, key, 0, k, n, ends)
  BY <1>2, <1>3, <1>4, <1>5, LaidItems, LaidWalk
<1>8. PICK a : a = Argument(key, 0, "unsigned")
  OBVIOUS
<1>9. /\ n \in Nat /\ k \in Nat /\ ends \in [1..n + 1 -> Nat] /\ HeadLength(key, 0) = k
      /\ Major(key, 0) = 5 /\ Supported(key, 0) /\ Contained(5, a) = n
  BY <1>4, <1>7, <1>8, Zenon DEF HeldContainer
<1>10. a \in Nat /\ n = 2 * a
  <2>1. 0 \in Int
    OBVIOUS
  <2>2. a \in Nat
    BY <1>2, <1>8, <1>9, <2>1, HeadTypes
  <2>3. Contained(5, a) = 2 * a
    BY DEF Contained
  <2> QED  BY <1>9, <2>2, <2>3, Zenon
<1>11. Places(r) = 1..n /\ \A i : Item(r, i) = Piece(key, ends, i)
  BY <1>1, Zenon DEF Places, Item, Piece
<1>12. Entries(key) = [i \in 1..n |-> value[ItemAt(len, k, i)]]
  BY <1>1, <1>8, <1>9, <1>10, Zenon DEF Entries
<1>13. 0 + k = k
  BY <1>9
<1>14. ASSUME NEW i \in 1..n
       PROVE  Meaning(Entries(key)[i], Piece(key, ends, i), known)
  <2>1. PICK p : p = 0 + ends[i]
    OBVIOUS
  <2>2. Entries(key)[i] = value[p]
    BY <1>7, <1>12, <1>13, <2>1, Zenon DEF Steady
  <2>3. Holds(key, p, Piece(key, ends, i)) /\ Piece(key, ends, i) \in items
    BY <1>7, <2>1, Zenon DEF HeldContainer
  <2>4. p \in Nat
    BY <2>3, Zenon DEF Holds
  <2> QED  BY <1>6, <2>2, <2>3, <2>4, Zenon DEF Means
<1>15. Reads(r, Entries(key))
  <2>1. \A i \in 1..n : i % 2 = 1 => i + 1 \in 1..n
    BY <1>10
  <2>2. 1..n \subseteq Nat
    OBVIOUS
  <2>3. DOMAIN Entries(key) = 1..n
    BY <1>12
  <2> QED  BY <1>1, <1>11, <1>14, <2>1, <2>2, <2>3, Zenon DEF Reads
<1>16. Decode(key)[MaxDepth][0].kind = "map" <=> AllKnown(key, n, ends, known)
  <2>1. PICK v : v = Decode(key)[MaxDepth][0]
    OBVIOUS
  <2>2. v = DecodeOnce(key, len, value, 0)
    <3>1. 0 \in Int /\ m + 1 = MaxDepth
      BY <1>1, DepthAssumption DEF DepthAssumption
    <3>2. Decode(key)[m + 1][0] = IF Supported(key, 0)
                                  THEN DecodeOnce(key, UtilsItemLength(key)[m], Decode(key)[m], 0)
                                  ELSE Value("thrown")
      BY <1>2, <3>1, DecodeIs
    <3> QED  BY <1>1, <1>9, <2>1, <3>1, <3>2, Zenon
  <2>3. PICK start, major : start = 0 + k /\ major = 5
    OBVIOUS
  <2>4. major = 5 => v = Container("map", value, len, start, 2 * a)
    <3>1. start = 0 + HeadLength(key, 0) /\ major = Major(key, 0)
      BY <1>9, <2>3, Zenon
    <3> QED  BY <1>8, <2>2, <3>1, DecodeOnceIs
  <2>5. v = Container("map", value, len, 0 + k, n)
    BY <1>10, <2>3, <2>4, Zenon
  <2>6. Container("map", value, len, 0 + k, n) =
          IF AllKnown(key, n, ends, known) THEN Value("map") ELSE Value("thrown")
    BY <1>2, <1>3, <1>4, <1>5, <1>6, ContainerIs
  <2>7. PICK p : p <=> AllKnown(key, n, ends, known)
    OBVIOUS
  <2>8. v = IF p THEN Value("map") ELSE Value("thrown")
    BY <2>5, <2>6, <2>7, Zenon
  <2>9. v.kind = IF p THEN "map" ELSE "thrown"
    BY <2>8, ValueFields
  <2>10. "map" # "thrown"
    OBVIOUS
  <2> QED  BY <2>1, <2>7, <2>9, <2>10, Zenon
<1> QED  BY <1>1, <1>11, <1>15, <1>16, Zenon DEF AllKnown

\* What the decoder answers when asked for a label.
Answers(r, label, v) ==
  /\ \A n \in Int : IsNumber(v, n) <=> Says(r, label, n)
  /\ \A n \in Nat : BytesOf(r, label, n) = IF IsCoordinate(v, n) THEN {v.bytes} ELSE {}

\* Map.get answers with the one entry of a label.
LEMMA GetAnswers ==
  ASSUME NEW r, NEW entries, Reads(r, entries), NEW label \in Int,
         \A i, j \in LabelsOf(r, label) : i = j
  PROVE  Answers(r, label, Get(entries, label))
<1> DEFINE at == {i \in DOMAIN entries : i % 2 = 1 /\ entries[i].kind = "number" /\ entries[i].n = label}
<1>0. Get(entries, label) = IF at = {} THEN Value("undefined")
                            ELSE entries[1 + CHOOSE i \in at : \A j \in at : j <= i]
  BY DEF Get
<1>1. at = {i \in DOMAIN entries : i % 2 = 1 /\ entries[i].kind = "number" /\ entries[i].n = label}
  OBVIOUS
<1> HIDE DEF at
<1>2. at = LabelsOf(r, label)
  <2>1. \A i \in Places(r) :
          entries[i].kind = "number" /\ entries[i].n = label <=> Item(r, i) \in Numbers(label)
    BY Zenon DEF Reads, Meaning, IsNumber
  <2>2. DOMAIN entries = Places(r)
    BY Zenon DEF Reads
  <2>3. \A i : i \in at <=> i \in LabelsOf(r, label)
    BY <1>1, <2>1, <2>2, Zenon DEF LabelsOf
  <2> QED  BY <2>3
<1>3. PICK v : v = Get(entries, label)
  OBVIOUS
<1>4. v = IF at = {} THEN Value("undefined")
          ELSE entries[1 + CHOOSE i \in at : \A j \in at : j <= i]
  BY <1>0, <1>3, Zenon
<1>5. CASE at = {}
  <2>1. v.kind = "undefined"
    BY <1>4, <1>5, ValueFields
  <2>2. "undefined" # "number" /\ "undefined" # "bytes"
    OBVIOUS
  <2>3. ValuesOf(r, label) = {}
    BY <1>2, <1>5 DEF ValuesOf
  <2>4. \A n \in Int : ~IsNumber(v, n)
    BY <2>1, <2>2, Zenon DEF IsNumber
  <2>5. \A n \in Nat : ~IsCoordinate(v, n)
    BY <2>1, <2>2, Zenon DEF IsCoordinate
  <2>6. \A n \in Int : ~Says(r, label, n)
    BY <2>3 DEF Says
  <2>7. \A n \in Nat : BytesOf(r, label, n) = {}
    BY <2>3 DEF BytesOf
  <2> QED  BY <1>3, <2>4, <2>5, <2>6, <2>7, Zenon DEF Answers
<1>6. CASE at # {}
  <2>1. PICK i \in at : \A j \in at : j = i
    BY <1>2, <1>6, Zenon
  <2>2. i \in Places(r) /\ i % 2 = 1
    BY <1>2, <2>1, Zenon DEF LabelsOf
  <2>3. i \in Nat /\ i + 1 \in Places(r) /\ 1 + i = i + 1
    <3>1. i \in Nat /\ i + 1 \in Places(r)
      BY <2>2, Zenon DEF Reads
    <3> QED  BY <3>1
  <2>4. (CHOOSE x \in at : \A j \in at : j <= x) = i
    <3>1. i <= i
      BY <2>3
    <3>2. \E x \in at : \A j \in at : j <= x
      BY <2>1, <3>1, Zenon
    <3> QED  BY <2>1, <3>2, Zenon
  <2>5. PICK b : b = Item(r, i + 1)
    OBVIOUS
  <2>6. Meaning(v, b, Known[MaxDepth - 1])
    <3>1. v = entries[i + 1]
      BY <1>4, <1>6, <2>3, <2>4, Zenon
    <3> QED  BY <2>3, <2>5, <3>1, Zenon DEF Reads
  <2>7. ValuesOf(r, label) = {b}
    <3>1. LabelsOf(r, label) = {i}
      BY <1>2, <2>1
    <3> QED  BY <2>5, <3>1 DEF ValuesOf
  <2>8. \A n \in Int : IsNumber(v, n) <=> Says(r, label, n)
    <3> TAKE n \in Int
    <3>1. IsNumber(v, n) <=> b \in Numbers(n)
      BY <2>6, Zenon DEF Meaning
    <3>2. Says(r, label, n) <=> b \in Numbers(n)
      BY <2>7 DEF Says
    <3> QED  BY <3>1, <3>2
  <2>9. \A n \in Nat : BytesOf(r, label, n) = IF IsCoordinate(v, n) THEN {v.bytes} ELSE {}
    <3> TAKE n \in Nat
    <3>1. PICK p : p <=> IsCoordinate(v, n)
      OBVIOUS
    <3>2. (p <=> b \in Strings(2, n)) /\ (p => v.bytes = Ending(b, n))
      BY <2>6, <3>1, Zenon DEF Meaning
    <3>3. \A x : x \in BytesOf(r, label, n) <=> p /\ x = Ending(b, n)
      BY <2>7, <3>2, Zenon DEF BytesOf
    <3>4. PICK bytes, B : bytes = v.bytes /\ B = BytesOf(r, label, n)
      OBVIOUS
    <3>5. \A x : x \in B <=> p /\ x = bytes
      BY <3>2, <3>3, <3>4, Zenon
    <3>6. B = IF p THEN {bytes} ELSE {}
      BY <3>5
    <3> QED  BY <3>1, <3>4, <3>6, Zenon
  <2> QED  BY <1>3, <2>8, <2>9, Zenon DEF Answers
<1> QED  BY <1>5, <1>6

\* v is at most one number.
LEMMA OneNumber ==
  ASSUME NEW v, NEW i, NEW j, IsNumber(v, i), IsNumber(v, j)
  PROVE  i = j
BY Zenon DEF IsNumber

\* The key the answers of the decoder speak of.
Ec2Found(r, kty, crv, x, y, curve, c, n) ==
  Ec2Keys(r, curve, c, n) =
    IF IsNumber(kty, 2) /\ IsNumber(crv, c) /\ IsCoordinate(x, n) /\ IsCoordinate(y, n)
    THEN {[curve |-> curve, point |-> <<4>> \o x.bytes \o y.bytes]} ELSE {}

\* The EC2 key the answers speak of is there exactly if the answers have its parts.
LEMMA Ec2Answers ==
  ASSUME NEW r, NEW kty, NEW crv, NEW x, NEW y, NEW curve, NEW c \in Int, NEW n \in Nat,
         Answers(r, Labels.kty, kty), Answers(r, Labels.crv, crv),
         Answers(r, Labels.x, x), Answers(r, Labels.y, y)
  PROVE  Ec2Found(r, kty, crv, x, y, curve, c, n)
<1>1. PICK p, q : /\ p <=> Says(r, Labels.kty, 2) /\ Says(r, Labels.crv, c)
                  /\ q <=> IsCoordinate(x, n) /\ IsCoordinate(y, n)
  OBVIOUS
<1>2. p <=> IsNumber(kty, 2) /\ IsNumber(crv, c)
  <2>1. 2 \in Int
    OBVIOUS
  <2> QED  BY <1>1, <2>1, Zenon DEF Answers
<1>3. PICK bx, by, X, Y : /\ bx = x.bytes /\ by = y.bytes
                          /\ X = BytesOf(r, Labels.x, n) /\ Y = BytesOf(r, Labels.y, n)
  OBVIOUS
<1>4. /\ X = IF IsCoordinate(x, n) THEN {bx} ELSE {}
      /\ Y = IF IsCoordinate(y, n) THEN {by} ELSE {}
  BY <1>3, Zenon DEF Answers
<1> DEFINE F(u, w) == [curve |-> curve, point |-> <<4>> \o u \o w]
           S == {F(u, w) : u \in X, w \in Y}
<1>6. Ec2Keys(r, curve, c, n) = IF p THEN S ELSE {}
  BY <1>1, <1>3 DEF Ec2Keys
<1>10. F(bx, by) = [curve |-> curve, point |-> <<4>> \o bx \o by]
  OBVIOUS
<1> HIDE DEF F
<1>5. S = IF q THEN {F(bx, by)} ELSE {}
  <2>1. CASE q
    <3>1. X = {bx} /\ Y = {by}
      BY <1>1, <1>4, <2>1, Zenon
    <3> QED  BY <2>1, <3>1
  <2>2. CASE ~q
    <3>1. X = {} \/ Y = {}
      BY <1>1, <1>4, <2>2, Zenon
    <3> QED  BY <2>2, <3>1
  <2> QED  BY <2>1, <2>2
<1> HIDE DEF S
<1>7. PICK K, one : /\ K = Ec2Keys(r, curve, c, n)
                    /\ one = {[curve |-> curve, point |-> <<4>> \o bx \o by]}
  OBVIOUS
<1>8. K = IF p /\ q THEN one ELSE {}
  BY <1>5, <1>6, <1>7, <1>10, Zenon
<1> QED  BY <1>1, <1>2, <1>3, <1>7, <1>8, Zenon DEF Ec2Found

\* The same for Ed25519.
LEMMA OkpAnswers ==
  ASSUME NEW r, NEW kty, NEW crv, NEW x,
         Answers(r, Labels.kty, kty), Answers(r, Labels.crv, crv), Answers(r, Labels.x, x)
  PROVE  OkpKeys(r) =
           IF IsNumber(kty, 1) /\ IsNumber(crv, 6) /\ IsCoordinate(x, 32)
           THEN {[curve |-> "Ed25519", point |-> x.bytes]} ELSE {}
<1>0. PICK n, c : n = 32 /\ c = 6
  OBVIOUS
<1>9. n \in Nat /\ c \in Int
  BY <1>0
<1>1. PICK p, q : /\ p <=> Says(r, Labels.kty, 1) /\ Says(r, Labels.crv, c)
                  /\ q <=> IsCoordinate(x, n)
  OBVIOUS
<1>2. p <=> IsNumber(kty, 1) /\ IsNumber(crv, c)
  <2>1. 1 \in Int
    OBVIOUS
  <2> QED  BY <1>1, <1>9, <2>1, Zenon DEF Answers
<1>3. PICK bx, X : bx = x.bytes /\ X = BytesOf(r, Labels.x, n)
  OBVIOUS
<1>4. X = IF q THEN {bx} ELSE {}
  BY <1>1, <1>3, <1>9, Zenon DEF Answers
<1> DEFINE S == {[curve |-> "Ed25519", point |-> u] : u \in X}
<1>5. S = IF q THEN {[curve |-> "Ed25519", point |-> bx]} ELSE {}
  BY <1>4
<1>6. OkpKeys(r) = IF p THEN S ELSE {}
  BY <1>0, <1>1, <1>3 DEF OkpKeys
<1> HIDE DEF S
<1>7. PICK K, one : K = OkpKeys(r) /\ one = {[curve |-> "Ed25519", point |-> bx]}
  OBVIOUS
<1>8. K = IF p /\ q THEN one ELSE {}
  BY <1>5, <1>6, <1>7, Zenon
<1>10. OkpKeys(r) = IF IsNumber(kty, 1) /\ IsNumber(crv, c) /\ IsCoordinate(x, n)
                    THEN {[curve |-> "Ed25519", point |-> x.bytes]} ELSE {}
  BY <1>1, <1>2, <1>3, <1>7, <1>8, Zenon
<1> QED  BY <1>0, <1>10, SMT

\* COSEToSPKIPublicKey finds the key a registration's entries speak of, or refuses.
LEMMA Converted ==
  ASSUME NEW r, IsKey(r), NEW s, base64UrlToBytes(s) = r.key
  PROVE  \/ KeysOf(r) = {COSEToSPKIPublicKey(s)}
         \/ KeysOf(r) = {} /\ COSEToSPKIPublicKey(s) = Refused
<1>1. PICK entries, kty, crv, x, y :
        /\ entries = Entries(r.key)
        /\ kty = Get(entries, Labels.kty) /\ crv = Get(entries, Labels.crv)
        /\ x = Get(entries, Labels.x) /\ y = Get(entries, Labels.y)
  OBVIOUS
<1>2. /\ Answers(r, Labels.kty, kty) /\ Answers(r, Labels.crv, crv)
      /\ Answers(r, Labels.x, x) /\ Answers(r, Labels.y, y)
  <2>1. Reads(r, entries)
    BY <1>1, EntriesRead
  <2>2. \A l \in {Labels.kty, Labels.crv, Labels.x, Labels.y} : l \in Int
    BY DEF Labels
  <2>3. \A l \in {Labels.kty, Labels.crv, Labels.x, Labels.y} :
          \A i, j \in LabelsOf(r, l) : i = j
    BY Zenon DEF IsKey
  <2>4. \A l \in {Labels.kty, Labels.crv, Labels.x, Labels.y} : Answers(r, l, Get(entries, l))
    BY <2>1, <2>2, <2>3, GetAnswers
  <2> QED  BY <1>1, <2>4, Zenon
<1>3. PICK a, b, e : /\ a = [curve |-> "P-256", point |-> <<4>> \o x.bytes \o y.bytes]
                     /\ b = [curve |-> "P-384", point |-> <<4>> \o x.bytes \o y.bytes]
                     /\ e = [curve |-> "Ed25519", point |-> x.bytes]
  OBVIOUS
<1>4. PICK A, B, E : /\ A = Ec2Keys(r, "P-256", 1, 32) /\ B = Ec2Keys(r, "P-384", 2, 48)
                     /\ E = OkpKeys(r)
  OBVIOUS
<1>17. PICK k1, k2 : (k1 <=> IsNumber(kty, 1)) /\ (k2 <=> IsNumber(kty, 2))
  OBVIOUS
<1>18. PICK c1, c2, c6 : /\ c1 <=> IsNumber(crv, 1)
                         /\ c2 <=> IsNumber(crv, 2)
                         /\ c6 <=> IsNumber(crv, 6)
  OBVIOUS
<1>19. PICK x32, y32 : (x32 <=> IsCoordinate(x, 32)) /\ (y32 <=> IsCoordinate(y, 32))
  OBVIOUS
<1>20. PICK x48, y48 : (x48 <=> IsCoordinate(x, 48)) /\ (y48 <=> IsCoordinate(y, 48))
  OBVIOUS
<1>21. 1 \in Int /\ 2 \in Int /\ 32 \in Nat /\ 48 \in Nat
  OBVIOUS
<1>6. A = IF k2 /\ c1 /\ x32 /\ y32 THEN {a} ELSE {}
  <2>0. Ec2Found(r, kty, crv, x, y, "P-256", 1, 32)
    BY <1>2, <1>21, Ec2Answers
  <2>1. Ec2Keys(r, "P-256", 1, 32) =
          IF IsNumber(kty, 2) /\ IsNumber(crv, 1) /\ IsCoordinate(x, 32) /\ IsCoordinate(y, 32)
          THEN {[curve |-> "P-256", point |-> <<4>> \o x.bytes \o y.bytes]} ELSE {}
    BY <2>0, Zenon DEF Ec2Found
  <2> QED  BY <1>3, <1>4, <1>17, <1>18, <1>19, <2>1, Zenon
<1>7. B = IF k2 /\ c2 /\ x48 /\ y48 THEN {b} ELSE {}
  <2>0. Ec2Found(r, kty, crv, x, y, "P-384", 2, 48)
    BY <1>2, <1>21, Ec2Answers
  <2>1. Ec2Keys(r, "P-384", 2, 48) =
          IF IsNumber(kty, 2) /\ IsNumber(crv, 2) /\ IsCoordinate(x, 48) /\ IsCoordinate(y, 48)
          THEN {[curve |-> "P-384", point |-> <<4>> \o x.bytes \o y.bytes]} ELSE {}
    BY <2>0, Zenon DEF Ec2Found
  <2> QED  BY <1>3, <1>4, <1>17, <1>18, <1>20, <2>1, Zenon
<1>8. E = IF k1 /\ c6 /\ x32 THEN {e} ELSE {}
  BY <1>2, <1>3, <1>4, <1>17, <1>18, <1>19, OkpAnswers
<1>9. ~(k1 /\ k2) /\ ~(c1 /\ c2)
  BY <1>17, <1>18, OneNumber
<1>10. PICK known, found : /\ known <=> \A i \in Places(r) : Item(r, i) \in Known[MaxDepth - 1]
                          /\ found = COSEToSPKIPublicKey(s)
  OBVIOUS
<1>11. KeysOf(r) = IF known THEN A \cup B \cup E ELSE {}
  BY <1>4, <1>10, Zenon DEF KeysOf
<1>12. PICK ec2, okp : ec2 = ec2ToSpki(entries) /\ okp = okpToSpki(entries)
  OBVIOUS
<1>13. ec2 = IF c1 THEN IF x32 /\ y32 THEN a ELSE Refused
             ELSE IF c2 THEN IF x48 /\ y48 THEN b ELSE Refused ELSE Refused
  BY <1>1, <1>3, <1>9, <1>12, <1>18, <1>19, <1>20 DEF ec2ToSpki
<1>14. okp = IF c6 /\ x32 THEN e ELSE Refused
  BY <1>1, <1>3, <1>12, <1>18, <1>19 DEF okpToSpki
<1>15. found = IF ~known THEN Refused ELSE IF k2 THEN ec2 ELSE IF k1 THEN okp ELSE Refused
  <2>1. Decode(r.key)[MaxDepth][0].kind = "map" <=> known
    BY <1>10, EntriesRead
  <2> QED  BY <1>1, <1>9, <1>10, <1>12, <1>17, <2>1 DEF COSEToSPKIPublicKey
<1>16. \/ KeysOf(r) = {found}
       \/ KeysOf(r) = {} /\ found = Refused
  BY <1>6, <1>7, <1>8, <1>9, <1>11, <1>13, <1>14, <1>15
<1> QED  BY <1>10, <1>16

-----------------------------------------------------------------------------
(* Theorems on the passkey's public key. *)

\* For every byte string, decoding what bufferToBase64Url made of it gives it back
\* (hex.js of ows-signer against ConversionUtils.ts of ows-types): no padding
\* that is added and no bit that is dropped is one of the bytes'.
THEOREM Base64RoundTrip ==
  ASSUME NEW b \in Buffers
  PROVE  base64UrlToBytes(bufferToBase64Url(b)) = b
BY RoundTrip DEF Buffers

\* The two copies of cborFirstItemLength, one with signed and one with unsigned
\* shifts, give the length of every item an authenticator encodes, wherever in a
\* buffer it is and whatever follows it, if the stack has room for its depth.
THEOREM WalkersAgree ==
  ASSUME NEW buf \in Buffers, NEW d \in Nat, NEW b \in Encoded[d], NEW o \in Nat, Holds(buf, o, b)
  PROVE  SignerItemLength(buf)[d][o] = Len(b) /\ UtilsItemLength(buf)[d][o] = Len(b)
<1>1. "signed" \in Shifts /\ "unsigned" \in Shifts
  BY DEF Shifts
<1>2. /\ Measures(buf, ItemLength(buf, "signed")[d], Encoded[d])
      /\ Measures(buf, ItemLength(buf, "unsigned")[d], Encoded[d])
  BY <1>1, Walked
<1> QED  BY <1>2, Zenon DEF Measures, SignerItemLength, UtilsItemLength

\* decodeCborFirst gives the number or the bytes of every item an authenticator
\* encodes, wherever it is, and throws exactly for those that hold a tag or a simple
\* value other than true, false and null.
THEOREM DecoderCorrect ==
  ASSUME NEW buf \in Buffers, NEW d \in Nat, NEW b \in Encoded[d], NEW o \in Nat, Holds(buf, o, b)
  PROVE  Meaning(Decode(buf)[d][o], b, Known[d])
BY Decoded, Zenon DEF Means

\* The SPKI key of a registration that has a key.
LEMMA KeyOf ==
  ASSUME NEW r, IsRegistration(r), r.key # <<>>
  PROVE  r.of \in KeysOf(r) \/ (KeysOf(r) = {} /\ r.of = Refused)
BY DEF IsRegistration

\* What is known of a registration under way.
CoseInv ==
  /\ registration \in Registrations
  /\ step \in {"created", "reported", "converted"}
  /\ step # "created" => cose = bufferToBase64Url(registration.key)
  /\ step = "converted" => spki = registration.of

\* An empty key is reported as null, which is not converted.
LEMMA NothingReported ==
  bufferToBase64Url(<<>>) = <<>>
<1>1. (4 * Len(<<>>) + 2) \div 3 = 0
  OBVIOUS
<1>2. \A f : f \in [1..0 -> Int] => f = <<>>
  OBVIOUS
<1>3. PICK f : f = bufferToBase64Url(<<>>)
  OBVIOUS
<1>4. <<>> \in Seq(Byte)
  OBVIOUS
<1>5. f \in Seq(0..63) /\ Len(f) = 0
  BY <1>1, <1>3, <1>4, SextetsOf
<1> QED  BY <1>3, <1>5

\* Each step keeps it.
LEMMA CoseStep == CoseInv /\ [CoseNext]_coseVars => CoseInv'
<1> SUFFICES ASSUME CoseInv, [CoseNext]_coseVars
             PROVE  CoseInv'
  OBVIOUS
<1>1. registration \in Registrations /\ IsRegistration(registration)
  BY RegistrationsAssumption, Zenon DEF CoseInv, RegistrationsAssumption
<1>2. CASE UNCHANGED coseVars
  BY <1>2 DEF CoseInv, coseVars
<1>3. CASE Report
  <2>1. extractCosePublicKey(registration.data) = registration.key
    BY <1>1, Extracted, Zenon
  <2> QED  BY <1>1, <1>3, <2>1 DEF Report, CoseInv
<1>4. CASE Convert
  <2>1. /\ step = "reported" /\ cose # <<>> /\ step' = "converted"
        /\ spki' = COSEToSPKIPublicKey(cose) /\ registration' = registration /\ cose' = cose
    BY <1>4 DEF Convert
  <2>2. cose = bufferToBase64Url(registration.key)
    BY <2>1 DEF CoseInv
  <2>3. IsKey(registration) /\ registration.key \in Buffers
    BY <1>1, <2>1, <2>2, Extracted, NothingReported, Zenon
  <2>4. base64UrlToBytes(cose) = registration.key
    BY <2>2, <2>3, Base64RoundTrip, Zenon
  <2>5. \/ KeysOf(registration) = {spki'}
        \/ KeysOf(registration) = {} /\ spki' = Refused
    BY <2>1, <2>3, <2>4, Converted, Zenon
  <2>6. \/ registration.of \in KeysOf(registration)
        \/ KeysOf(registration) = {} /\ registration.of = Refused
    <3>1. registration.key # <<>>
      BY <2>1, <2>2, NothingReported, Zenon
    <3> QED  BY <1>1, <3>1, KeyOf, Zenon
  <2>7. spki' = registration.of
    BY <2>5, <2>6
  <2> QED  BY <1>1, <2>1, <2>2, <2>7 DEF CoseInv
<1> QED  BY <1>2, <1>3, <1>4 DEF CoseNext

\* For every registration an authenticator may answer with, whatever the key, its
\* encoding, what precedes it and what follows it: the Signing Layer reports the
\* key, no byte more or less, and the SPKI key is the one the entries speak of; a key
\* of another type is refused.
THEOREM KeyCorrect == CoseSpec => []KeyArrives
<1>1. CoseInit => CoseInv
  BY DEF CoseInit, CoseInv
<1>2. CoseInv => KeyArrives
  <2> SUFFICES ASSUME CoseInv
               PROVE  KeyArrives
    OBVIOUS
  <2>1. registration \in Registrations /\ IsRegistration(registration)
    BY RegistrationsAssumption, Zenon DEF CoseInv, RegistrationsAssumption
  <2>2. registration.key \in Buffers
    BY <2>1, Extracted, Zenon
  <2>3. base64UrlToBytes(bufferToBase64Url(registration.key)) = registration.key
    BY <2>2, Base64RoundTrip, Zenon
  <2> QED  BY <2>3, Zenon DEF CoseInv, KeyArrives
<1> QED  BY <1>1, <1>2, CoseStep, PTL DEF CoseSpec
===============================================================================
