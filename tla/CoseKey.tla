-------------------------------- MODULE CoseKey --------------------------------
(***************************************************************************)
(* The passkey's public key, from the authenticator data of its            *)
(* registration to an SPKI key: ows-signer slices the COSE key out of the  *)
(* attested credential data (webauthn.js) and reports it as base64url;     *)
(* ows-signer-utils decodes it and re-encodes it (cose-to-spki.ts).  Each  *)
(* package walks CBOR with code of its own, the length of an item apart    *)
(* from its value.  Byte strings are sequences of 0..255, offsets count    *)
(* from 0 as in the code; base64url is a sequence of sextets.              *)
(***************************************************************************)
EXTENDS Integers, Sequences

CONSTANTS Registrations, \* what authenticators answer: [data, key, ends, of], see below
          MaxDepth       \* bound: calls of a CBOR function the stack has room for

ASSUME DepthAssumption == MaxDepth \in Nat

VARIABLES registration, \* the one under way
          step,         \* "created", "reported" or "converted"
          cose,         \* cosePublicKey of CredentialCreated; <<>> for null
          spki          \* what COSEToSPKIPublicKey returned

coseVars == <<registration, step, cose, spki>>

Byte    == 0..255
Buffers == Seq(Byte)
Huge    == 2147483647   \* bound: lengths of 2^31 and more, beyond any buffer
Thrown  == -Huge - 1    \* no item has such a length

\* What is missing counts as 0 in a shift.
ByteAt(buf, offset) == IF offset + 1 \in DOMAIN buf THEN buf[offset + 1] ELSE 0

\* subarray: the end is clipped to the buffer.
Slice(buf, from, to) ==
  [k \in 1..(IF to < Len(buf) THEN to ELSE Len(buf)) - from |-> ByteAt(buf, from + k - 1)]

-----------------------------------------------------------------------------
(* CBOR items. *)

Major(buf, o)      == ByteAt(buf, o) \div 32
Additional(buf, o) == ByteAt(buf, o) % 32

\* 64-bit and indefinite lengths are refused.
Supported(buf, o) == o < Len(buf) /\ Additional(buf, o) <= 26

\* The initial byte and the bytes of the argument.
HeadLength(buf, o) ==
  CASE Additional(buf, o) < 24 -> 1
    [] Additional(buf, o) = 24 -> 2
    [] Additional(buf, o) = 25 -> 3
    [] Additional(buf, o) = 26 -> 5

BigEndian(b0, b1, b2, b3) == 16777216 * b0 + 65536 * b1 + 256 * b2 + b3

\* JavaScript's 32-bit shifts make the top bit a sign; >>> 0 takes it back.
Shifts == {"signed", "unsigned"}
Word(buf, o, shift) ==
  LET top == ByteAt(buf, o)
      Of(b0) == BigEndian(b0, ByteAt(buf, o + 1), ByteAt(buf, o + 2), ByteAt(buf, o + 3))
  IN IF top < 128 THEN Of(top) ELSE IF shift = "unsigned" THEN Huge ELSE Of(top - 256)

Argument(buf, o, shift) ==
  CASE HeadLength(buf, o) = 1 -> Additional(buf, o)
    [] HeadLength(buf, o) = 2 -> ByteAt(buf, o + 1)
    [] HeadLength(buf, o) = 3 -> 256 * ByteAt(buf, o + 1) + ByteAt(buf, o + 2)
    [] HeadLength(buf, o) = 5 -> Word(buf, o + 1, shift)

\* Fault: a map of n entries is walked as n items.
MapItemsOnce(major, n) == IF major = 6 THEN 1 ELSE n

\* How many items an item of this type contains.
Contained(major, n) == CASE major = 4 -> n [] major = 5 -> 2 * n [] major = 6 -> 1

\* The length of items that follow each other: of count items from o on, if the
\* item at p has length len[p].  No iteration for a negative count.
ItemsLength(len) ==
  LET sum[count \in Nat] ==
        [o \in Int |->
           IF count = 0 THEN 0
           ELSE LET rest == sum[count - 1][o + len[o]]
                IN IF len[o] = Thrown \/ rest = Thrown THEN Thrown ELSE len[o] + rest]
  IN sum

\* A call of cborFirstItemLength for a head it knows; those it makes return length.
\* A float's bytes are counted twice, as the argument and as the contents.
WalkOnce(buf, shift, length, o) ==
  LET major == Major(buf, o)
      head  == HeadLength(buf, o)
      n     == Argument(buf, o, shift)
      count == Contained(major, n)
      inner == ItemsLength(length)[IF count < 0 THEN 0 ELSE count][o + head]
  IN CASE major \in {0, 1} -> head
       [] major \in {2, 3} -> head + n
       [] major = 7 -> IF Additional(buf, o) \in {25, 26} THEN 2 * head - 1 ELSE head
       [] major \in {4, 5, 6} -> IF inner = Thrown THEN Thrown ELSE head + inner

\* For each depth of the stack that is left.
ItemLength(buf, shift) ==
  LET length[depth \in Nat] ==
        [o \in Int |-> IF depth = 0 \/ ~Supported(buf, o) THEN Thrown
                      ELSE WalkOnce(buf, shift, length[depth - 1], o)]
  IN length

\* The two copies of cborFirstItemLength.
SignerItemLength(buf) == ItemLength(buf, "signed")
UtilsItemLength(buf)  == ItemLength(buf, "unsigned")

\* Where the i-th of the items that start at o begins.
ItemAt(len, o, i) == o + ItemsLength(len)[i - 1][o]

ValueKinds == {"number", "bytes", "text", "array", "map", "simple", "thrown", "undefined"}
Value(kind) == [kind |-> kind, n |-> 0, bytes |-> <<>>]

\* An array or a map: decodeCborItem for each item, the next one starting where the
\* length of this one says.  Nobody looks into one that is itself inside a map.
Container(kind, values, len, start, count) ==
  IF \E i \in 1..count : LET o == ItemAt(len, start, i)
                         IN values[o].kind = "thrown" \/ len[o] = Thrown
  THEN Value("thrown") ELSE Value(kind)

\* A call of decodeCborFirst for a head it knows; those it makes return value and len.
DecodeOnce(buf, len, value, o) ==
  LET n     == Argument(buf, o, "unsigned")
      start == o + HeadLength(buf, o)
      major == Major(buf, o)
  IN CASE major = 0 -> [Value("number") EXCEPT !.n = n]
       [] major = 1 -> [Value("number") EXCEPT !.n = -1 - n]
       [] major = 2 -> [Value("bytes") EXCEPT !.bytes = Slice(buf, start, start + n)]
       [] major = 3 -> Value("text")
       [] major = 4 -> Container("array", value, len, start, n)
       [] major = 5 -> Container("map", value, len, start, 2 * n)
       [] major = 6 -> Value("thrown")
       [] major = 7 -> IF Additional(buf, o) \in 20..22 THEN Value("simple") ELSE Value("thrown")

Decode(buf) ==
  LET value[depth \in Nat] ==
        [o \in Int |-> IF depth = 0 \/ ~Supported(buf, o) THEN Value("thrown")
                      ELSE DecodeOnce(buf, UtilsItemLength(buf)[depth - 1], value[depth - 1], o)]
  IN value

\* The keys and values of the map at the start of the buffer, in turn.
Entries(buf) ==
  [i \in 1..2 * Argument(buf, 0, "unsigned") |->
     Decode(buf)[MaxDepth - 1][ItemAt(UtilsItemLength(buf)[MaxDepth - 1], HeadLength(buf, 0), i)]]

-----------------------------------------------------------------------------
(* base64url. *)

\* What is missing in the last group is padded with 0.
bufferToBase64Url(bytes) ==
  [k \in 1..(4 * Len(bytes) + 2) \div 3 |->
     LET o == 3 * ((k - 1) \div 4)
         b0 == ByteAt(bytes, o)
         b1 == ByteAt(bytes, o + 1)
         b2 == ByteAt(bytes, o + 2)
     IN CASE k % 4 = 1 -> b0 \div 4
          [] k % 4 = 2 -> 16 * (b0 % 4) + b1 \div 16
          [] k % 4 = 3 -> 4 * (b1 % 16) + b2 \div 64
          [] k % 4 = 0 -> b2 % 64]

\* Padded to whole groups and given to atob, which drops the surplus bits.
base64UrlToBytes(sextets) ==
  [k \in 1..(3 * Len(sextets)) \div 4 |->
     LET o == 4 * ((k - 1) \div 3)
     IN CASE k % 3 = 1 -> 4 * sextets[o + 1] + sextets[o + 2] \div 16
          [] k % 3 = 2 -> 16 * (sextets[o + 2] % 16) + sextets[o + 3] \div 4
          [] k % 3 = 0 -> 64 * (sextets[o + 3] % 4) + sextets[o + 4]]

-----------------------------------------------------------------------------
(* The Signing Layer's end. *)

FlagsOffset == 32
Attested(data) == (ByteAt(data, FlagsOffset) \div 64) % 2 = 1

\* rpIdHash, flags and signCount, the AAGUID, the credential id and its length.
KeyOffset(data) == LET o == 37 + 16 IN o + 2 + 256 * ByteAt(data, o) + ByteAt(data, o + 1)

\* <<>> for null.
extractCosePublicKey(data) ==
  IF Len(data) < 37 \/ ~Attested(data) \/ 37 + 16 + 2 > Len(data) \/ KeyOffset(data) >= Len(data)
  THEN <<>>
  ELSE LET o == KeyOffset(data)
           length == SignerItemLength(data)[MaxDepth][o]
       IN IF length = Thrown THEN <<>> ELSE Slice(data, o, o + length)

Report ==
  /\ step = "created"
  /\ step' = "reported"
  /\ cose' = bufferToBase64Url(extractCosePublicKey(registration.data))
  /\ UNCHANGED <<registration, spki>>

-----------------------------------------------------------------------------
(* The Branding Layer's end. *)

Labels == [kty |-> 1, crv |-> -1, x |-> -2, y |-> -3]

\* Map.get: a later entry replaces an earlier one.
Get(entries, label) ==
  LET at == {i \in DOMAIN entries : i % 2 = 1 /\ entries[i].kind = "number" /\ entries[i].n = label}
  IN IF at = {} THEN Value("undefined")
     ELSE entries[1 + CHOOSE i \in at : \A j \in at : j <= i]

\* The SPKI header stands for the curve.
Refused == [curve |-> "none", point |-> <<>>]
IsNumber(v, n) == v.kind = "number" /\ v.n = n
IsCoordinate(v, length) == v.kind = "bytes" /\ Len(v.bytes) = length

ec2ToSpki(entries) ==
  LET crv == Get(entries, Labels.crv)
      x == Get(entries, Labels.x)
      y == Get(entries, Labels.y)
      Point(curve, length) == IF IsCoordinate(x, length) /\ IsCoordinate(y, length)
                              THEN [curve |-> curve, point |-> <<4>> \o x.bytes \o y.bytes]
                              ELSE Refused
  IN CASE IsNumber(crv, 1) -> Point("P-256", 32)
       [] IsNumber(crv, 2) -> Point("P-384", 48)
       [] OTHER -> Refused

okpToSpki(entries) ==
  LET x == Get(entries, Labels.x)
  IN IF IsNumber(Get(entries, Labels.crv), 6) /\ IsCoordinate(x, 32)
     THEN [curve |-> "Ed25519", point |-> x.bytes]
     ELSE Refused

COSEToSPKIPublicKey(sextets) ==
  LET buf == base64UrlToBytes(sextets)
      kty == Get(Entries(buf), Labels.kty)
  IN CASE Decode(buf)[MaxDepth][0].kind # "map" -> Refused
       [] OTHER -> CASE IsNumber(kty, 2) -> ec2ToSpki(Entries(buf))
                     [] IsNumber(kty, 1) -> okpToSpki(Entries(buf))
                     [] OTHER -> Refused

Convert ==
  /\ step = "reported" /\ cose # <<>>
  /\ step' = "converted"
  /\ spki' = COSEToSPKIPublicKey(cose)
  /\ UNCHANGED <<registration, cose>>

CoseInit ==
  /\ registration \in Registrations
  /\ step = "created"
  /\ cose = <<>>
  /\ spki = Refused

CoseNext == Report \/ Convert

CoseSpec == CoseInit /\ [][CoseNext]_coseVars

-----------------------------------------------------------------------------
(* What authenticators make: CBOR as its RFC 8949 has it, by what an item is made *)
(* of, and the COSE keys among the items.                                        *)

\* The initial byte and the argument, which need not be the shortest.
Heads(major) ==
  {h \in Buffers : \/ Len(h) = 1 /\ h[1] \in 32 * major..32 * major + 23
                   \/ Len(h) = 2 /\ h[1] = 32 * major + 24
                   \/ Len(h) = 3 /\ h[1] = 32 * major + 25
                   \/ Len(h) = 5 /\ h[1] = 32 * major + 26 /\ h[2] < 128}

\* The argument of a head.
Counts(h) ==
  CASE Len(h) = 1 -> h[1] % 32
    [] Len(h) = 2 -> h[2]
    [] Len(h) = 3 -> 256 * h[2] + h[3]
    [] Len(h) = 5 -> BigEndian(h[2], h[3], h[4], h[5])

Opening(b, k) == SubSeq(b, 1, k)
Ending(b, n)  == SubSeq(b, Len(b) - n + 1, Len(b))

Numbers(n) == IF n >= 0 THEN {h \in Heads(0) : Counts(h) = n}
              ELSE {h \in Heads(1) : Counts(h) = -1 - n}

\* Strings of n bytes.
Strings(major, n) ==
  {b \in Buffers : /\ Len(b) > n
                   /\ Opening(b, Len(b) - n) \in Heads(major)
                   /\ Counts(Opening(b, Len(b) - n)) = n}

\* b consists, after its first ends[1] bytes, of n items that end at these places.
Joins(b, ends, n, items) ==
  /\ ends \in [1..n + 1 -> 0..Len(b)]
  /\ ends[n + 1] = Len(b)
  /\ \A i \in 1..n : ends[i] <= ends[i + 1] /\ SubSeq(b, ends[i] + 1, ends[i + 1]) \in items

ItemsOf(major, n) == CASE major = 4 -> n [] major = 5 -> 2 * n [] major = 6 -> 1

Nested(major, items) ==
  {b \in Buffers :
     \E k \in 1..Len(b) :
       /\ Opening(b, k) \in Heads(major)
       /\ LET n == ItemsOf(major, Counts(Opening(b, k)))
          IN \E ends \in [1..n + 1 -> 0..Len(b)] : ends[1] = k /\ Joins(b, ends, n, items)}

\* Items with these simple values, and containers that hold items.
Made(simple, majors, items) ==
  {b \in Buffers :
     \/ b \in Heads(0) \cup Heads(1)
     \/ \E major \in {2, 3}, n \in 0..Len(b) : b \in Strings(major, n)
     \/ Len(b) = 1 /\ b[1] - 224 \in simple
     \/ \E major \in majors : b \in Nested(major, items)}

\* Those that nest at most so deep.
Items(simple, majors) ==
  LET items[depth \in Nat] == IF depth = 0 THEN {} ELSE Made(simple, majors, items[depth - 1])
  IN items

\* All but floats; and those that have a value in JavaScript: no tags, and of the
\* simple values true, false and null.
Encoded == Items(0..23, {4, 5, 6})
Known   == Items(20..22, {4, 5})

\* The entries of a registration's key: items 1, 3, ... are labels, 2, 4, ... values.
Places(r)  == 1..Len(r.ends) - 1
Item(r, i) == SubSeq(r.key, r.ends[i] + 1, r.ends[i + 1])

LabelsOf(r, label)  == {i \in Places(r) : i % 2 = 1 /\ Item(r, i) \in Numbers(label)}
ValuesOf(r, label)  == {Item(r, i + 1) : i \in LabelsOf(r, label)}
Says(r, label, n)   == ValuesOf(r, label) \cap Numbers(n) # {}
BytesOf(r, label, n) == {Ending(b, n) : b \in {v \in ValuesOf(r, label) : v \in Strings(2, n)}}

\* The keys a registration's entries speak of, as COSE (RFC 9053) has them.
Ec2Keys(r, curve, crv, n) ==
  IF Says(r, Labels.kty, 2) /\ Says(r, Labels.crv, crv)
  THEN {[curve |-> curve, point |-> <<4>> \o x \o y] :
          x \in BytesOf(r, Labels.x, n), y \in BytesOf(r, Labels.y, n)}
  ELSE {}

OkpKeys(r) ==
  IF Says(r, Labels.kty, 1) /\ Says(r, Labels.crv, 6)
  THEN {[curve |-> "Ed25519", point |-> x] : x \in BytesOf(r, Labels.x, 32)}
  ELSE {}

\* Those this wallet knows.
KeysOf(r) ==
  IF \A i \in Places(r) : Item(r, i) \in Known[MaxDepth - 1]
  THEN Ec2Keys(r, "P-256", 1, 32) \cup Ec2Keys(r, "P-384", 2, 48) \cup OkpKeys(r)
  ELSE {}

\* The key is a map that has each label of Labels once at most.
IsKey(r) ==
  /\ r.key \in Buffers /\ r.ends \in Seq(Nat) /\ Len(r.ends) > 0
  /\ r.ends[1] \in 1..Len(r.key)
  /\ Opening(r.key, r.ends[1]) \in Heads(5)
  /\ Len(r.ends) = 2 * Counts(Opening(r.key, r.ends[1])) + 1
  /\ MaxDepth > 0
  /\ Joins(r.key, r.ends, Len(r.ends) - 1, Encoded[MaxDepth - 1])
  /\ \A l \in {Labels.kty, Labels.crv, Labels.x, Labels.y} :
       \A i, j \in LabelsOf(r, l) : i = j

\* Authenticator data (WebAuthn, section 6.1): the key, if there is one, follows the
\* credential id, whatever follows it.
IsRegistration(r) ==
  LET o == 55 + 256 * r.data[54] + r.data[55]
  IN /\ r.data \in Buffers /\ Len(r.data) >= 37
     /\ \/ (r.data[33] \div 64) % 2 = 0 /\ r.key = <<>>
        \/ /\ (r.data[33] \div 64) % 2 = 1 /\ Len(r.data) >= 55
           /\ IsKey(r)
           /\ o + Len(r.key) <= Len(r.data)
           /\ SubSeq(r.data, o + 1, o + Len(r.key)) = r.key
           /\ r.of \in KeysOf(r) \/ (KeysOf(r) = {} /\ r.of = Refused)

ASSUME RegistrationsAssumption == \A r \in Registrations : IsRegistration(r)

-----------------------------------------------------------------------------
(* Properties. *)

\* The Signing Layer reports the registration's key, no byte more or less,
\* whatever precedes and follows it (webauthn.js:184-203), and the SPKI key is
\* the one the authenticator made, however it encoded it; a key of another type
\* is refused (cose-to-spki.ts:45-62).
KeyArrives ==
  /\ step # "created" => base64UrlToBytes(cose) = registration.key
  /\ step = "converted" => spki = registration.of
================================================================================
