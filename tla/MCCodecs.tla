------------------------------- MODULE MCCodecs -------------------------------
(* Registrations as authenticators encode them: every supported type of key   *)
(* and some others, entries in either order, arguments wider than needed,     *)
(* further entries in the map, extensions after it, short and long ids.       *)
EXTENDS CoseKey, SequencesExt

\* The shortest head for n, or a wider one.
HeadOf(major, n, width) ==
  CASE width = 0 /\ n < 24 -> <<32 * major + n>>
    [] width <= 1 /\ n < 256 -> <<32 * major + 24, n>>
    [] width <= 2 -> <<32 * major + 25, n \div 256, n % 256>>
    [] OTHER -> <<32 * major + 26, 0, 0, n \div 256, n % 256>>

Number(n, w) == IF n >= 0 THEN HeadOf(0, n, w) ELSE HeadOf(1, -1 - n, w)
Bytes(s, w)  == HeadOf(2, Len(s), w) \o s

First(n)  == [i \in 1..n |-> i]
Second(n) == [i \in 1..n |-> 256 - i]
True      == <<245>>

\* A type of key: its entries but for the further ones, and its SPKI key.
Ec2(crv, n, alg, of, w) ==
  [entries |-> <<<<Number(1, w), Number(2, w)>>, <<Number(3, w), Number(alg, w)>>,
                 <<Number(-1, w), Number(crv, w)>>, <<Number(-2, w), Bytes(First(n), w)>>,
                 <<Number(-3, w), Bytes(Second(n), w)>>>>,
   of |-> of]
PointOf(curve, n) == [curve |-> curve, point |-> <<4>> \o First(n) \o Second(n)]

KeyTypes(w) ==
  {Ec2(1, 32, -7, PointOf("P-256", 32), w), Ec2(2, 48, -35, PointOf("P-384", 48), w),
   Ec2(3, 66, -36, Refused, w),
   \* Ed25519
   [entries |-> <<<<Number(1, w), Number(1, w)>>, <<Number(3, w), Number(-8, w)>>,
                  <<Number(-1, w), Number(6, w)>>, <<Number(-2, w), Bytes(First(32), w)>>>>,
    of |-> [curve |-> "Ed25519", point |-> First(32)]],
   \* P-256 with a compressed point
   [entries |-> <<<<Number(1, w), Number(2, w)>>, <<Number(3, w), Number(-7, w)>>,
                  <<Number(-1, w), Number(1, w)>>, <<Number(-2, w), Bytes(First(32), w)>>,
                  <<Number(-3, w), True>>>>,
    of |-> Refused],
   \* RSA: n and e under the labels of crv and x
   [entries |-> <<<<Number(1, w), Number(3, w)>>, <<Number(3, w), Number(-257, w)>>,
                  <<Number(-1, w), Bytes([i \in 1..256 |-> i % 256], w)>>,
                  <<Number(-2, w), Bytes(<<1, 0, 1>>, w)>>>>,
    of |-> Refused]}

\* Further entries: none, key_ops, a kid, a label of two bytes with a map, a
\* text under a text, and a tagged item, which the decoder does not know.
Further(w) ==
  {<<>>, <<<<Number(4, w), HeadOf(4, 2, w) \o <<1, 2>>>>>>, <<<<Number(2, w), Bytes(First(3), w)>>>>,
   <<<<Number(300, w), HeadOf(5, 1, w) \o <<1>> \o True>>>>,
   <<<<HeadOf(3, 2, w) \o <<107, 107>>, HeadOf(3, 1, w) \o <<118>>>>>>}
Tagged(w) == <<<<Number(5, w), HeadOf(6, 1, w) \o <<1>>>>>>

\* A key, and where its head and each of its items end.
Key(type, further, reversed, w) ==
  LET all     == type.entries \o further
      entries == IF reversed THEN Reverse(all) ELSE all
      head    == HeadOf(5, Len(entries), w)
      items   == FlattenSeq(entries)
  IN [bytes |-> head \o FlattenSeq(items),
      ends  |-> [i \in 1..Len(items) + 1 |-> Len(head) + Len(FlattenSeq(SubSeq(items, 1, i - 1)))]]

\* {"credProtect": 2} and nothing.
Extensions == {<<>>, <<161, 107>> \o First(11) \o <<2>>}

Data(flags, id, key, extensions) ==
  First(32) \o <<flags>> \o <<0, 0, 0, 1>> \o First(16)
    \o <<id \div 256, id % 256>> \o [i \in 1..id |-> i % 256] \o key \o extensions

MCRegistrations ==
  LET Registered(key, of) ==
        {[data |-> Data(64 + 1, id, key.bytes, extensions), key |-> key.bytes, ends |-> key.ends,
          of |-> of] :
           id \in {16, 300}, extensions \in Extensions}
  IN UNION {UNION {Registered(Key(type, further, reversed, w), type.of) :
                     type \in KeyTypes(w), further \in Further(w), reversed \in BOOLEAN} :
              w \in {0, 1, 2, 4}}
     \cup UNION {Registered(Key(type, Tagged(w), FALSE, w), Refused) :
                   w \in {0, 1, 2, 4}, type \in KeyTypes(0)}
     \cup {[data |-> Data(1, 16, <<>>, extensions), key |-> <<>>, ends |-> <<>>,
           of |-> Refused] :
             extensions \in Extensions}
===============================================================================
