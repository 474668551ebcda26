----------------------------- MODULE WireProofs -----------------------------
(***************************************************************************)
(* What the operators of module Wire return.                               *)
(***************************************************************************)
EXTENDS Wire, SequenceTheorems, WellFoundedInduction, TLAPS

(***************************************************************************)
(* Numbers have no end downwards: a set of them has a least one, and one   *)
(* that goes on from each number to the next holds them all.               *)
(***************************************************************************)
Less == {pair \in Nat \X Nat : pair[1] < pair[2]}

LEMMA LessIsWellFounded == IsWellFoundedOn(Less, Nat)
<1> QED
    BY NatLessThanWellFounded DEF OpToRel, Less

LEMMA HasLeast ==
    ASSUME NEW S \in SUBSET Nat, S # {}
    PROVE  \E n \in S : \A m \in S : n <= m
<1>1. PICK n \in S : \A m \in S : << m, n >> \notin Less
    BY LessIsWellFounded, WFMin
<1>2. \A m \in S : ~(m < n)
    BY <1>1 DEF Less
<1>3. \A m \in S : m \in Nat /\ n \in Nat
    BY <1>1
<1> QED
    BY <1>1, <1>2, <1>3

LEMMA AllNumbers ==
    ASSUME NEW S, 0 \in S, \A n \in Nat : n \in S => n + 1 \in S
    PROVE  \A n \in Nat : n \in S
<1> DEFINE others == Nat \ S
<1> SUFFICES ASSUME others # {} PROVE FALSE
    OBVIOUS
<1>1. others \in SUBSET Nat
    OBVIOUS
<1>2. PICK n \in others : \A m \in others : n <= m
    <2> HIDE DEF others
    <2> QED
        BY <1>1, HasLeast
<1>3. n \in Nat /\ n # 0 /\ n - 1 \in Nat
    BY <1>2
<1>4. n - 1 \in S /\ n - 1 + 1 = n
    BY <1>2, <1>3
<1> QED
    BY <1>2, <1>3, <1>4

(***************************************************************************)
(* Sequences with the same elements are the same.                          *)
(***************************************************************************)
LEMMA SameElements ==
    ASSUME NEW S, NEW s \in Seq(S), NEW t \in Seq(S), Len(s) = Len(t),
           \A k \in 1 .. Len(s) : s[k] = t[k]
    PROVE  s = t
<1>1. s = [k \in 1 .. Len(s) |-> s[k]]
    OBVIOUS
<1>2. t = [k \in 1 .. Len(s) |-> t[k]]
    OBVIOUS
<1> QED
    BY <1>1, <1>2

LEMMA HasElement ==
    ASSUME NEW S, NEW s \in Seq(S), NEW k \in 1 .. Len(s)
    PROVE  s[k] \in S
<1> QED
    OBVIOUS

LEMMA ElementsIn ==
    ASSUME NEW S, NEW T, NEW s \in Seq(T), \A k \in 1 .. Len(s) : s[k] \in S
    PROVE  s \in Seq(S)
<1>1. s = [k \in 1 .. Len(s) |-> s[k]] /\ Len(s) \in Nat
    OBVIOUS
<1> QED
    BY <1>1

LEMMA OneAndAnother ==
    ASSUME NEW S, NEW d \in S, NEW e \in S
    PROVE  Append(<< d >>, e) = << d, e >>
<1> DEFINE s == Append(<< d >>, e)
           t == << d, e >>
<1>1. << d >> \in Seq(S) /\ Len(<< d >>) = 1
    OBVIOUS
<1>2. s \in Seq(S) /\ Len(s) = 2 /\ s[1] = d /\ s[2] = e
    BY <1>1
<1>3. t \in Seq(S) /\ Len(t) = 2 /\ t[1] = d /\ t[2] = e
    OBVIOUS
<1>4. \A k \in 1 .. 2 : s[k] = t[k]
    BY <1>2, <1>3
<1> HIDE DEF s, t
<1>5. s = t
    BY <1>2, <1>3, <1>4, SameElements
<1> QED
    BY <1>5 DEF s, t

-----------------------------------------------------------------------------
(* Lists of TLVs *)

(***************************************************************************)
(* Cmdu::AddTlv moves nothing but an END_OF_MESSAGE from the end of the    *)
(* list.                                                                   *)
(***************************************************************************)
LEMMA AddTlvList ==
    ASSUME NEW list \in Seq(Tlv), NEW tlv \in Tlv
    PROVE  /\ AddTlv(list, tlv) \in Seq(Tlv)
           /\ Len(AddTlv(list, tlv)) = Len(list) + 1
           /\ EndsMessage(list) =>
                 /\ Len(list) >= 1
                 /\ AddTlv(list, tlv)[Len(list)] = tlv
                 /\ AddTlv(list, tlv)[Len(list) + 1] = list[Len(list)]
                 /\ \A k \in 1 .. Len(list) - 1 : AddTlv(list, tlv)[k] = list[k]
           /\ ~EndsMessage(list) =>
                 /\ AddTlv(list, tlv)[Len(list) + 1] = tlv
                 /\ \A k \in 1 .. Len(list) : AddTlv(list, tlv)[k] = list[k]
<1>1. Len(list) \in Nat
    OBVIOUS
<1>2. CASE EndsMessage(list)
    <2> DEFINE moved == [list EXCEPT ![Len(list)] = tlv]
               end == << list[Len(list)] >>
    <2>1. Len(list) >= 1 /\ Len(list) \in 1 .. Len(list)
        BY <1>1, <1>2 DEF EndsMessage
    <2>2. list[Len(list)] \in Tlv
        BY <2>1
    <2>3. moved \in Seq(Tlv) /\ Len(moved) = Len(list)
        BY <2>1, ExceptSeq
    <2>4. moved[Len(list)] = tlv /\ \A k \in 1 .. Len(list) - 1 : moved[k] = list[k]
        BY <1>1, <2>1, ExceptSeq
    <2>5. end \in Seq(Tlv) /\ Len(end) = 1 /\ end[1] = list[Len(list)]
        BY <2>2
    <2>6. AddTlv(list, tlv) = moved \o end
        BY <1>2 DEF AddTlv
    <2> HIDE DEF moved, end
    <2>7. /\ moved \o end \in Seq(Tlv)
          /\ Len(moved \o end) = Len(list) + 1
          /\ \A k \in 1 .. Len(list) + 1 :
                (moved \o end)[k] = IF k <= Len(list) THEN moved[k] ELSE end[k - Len(list)]
        <3>1. moved \in Seq(Tlv) /\ end \in Seq(Tlv)
            BY <2>3, <2>5
        <3>2. /\ moved \o end \in Seq(Tlv)
              /\ Len(moved \o end) = Len(moved) + Len(end)
              /\ \A k \in 1 .. Len(moved) + Len(end) :
                    (moved \o end)[k] = IF k <= Len(moved) THEN moved[k]
                                                          ELSE end[k - Len(moved)]
            BY <3>1, ConcatProperties, Zenon
        <3>3. Len(moved) = Len(list) /\ Len(end) = 1
            BY <2>3, <2>5
        <3> QED
            BY <3>2, <3>3, Zenon
    <2>8. /\ (moved \o end)[Len(list) + 1] = end[1]
          /\ \A k \in 1 .. Len(list) : (moved \o end)[k] = moved[k]
        BY <1>1, <2>7
    <2> QED
        BY <1>1, <1>2, <2>1, <2>4, <2>5, <2>6, <2>7, <2>8
<1>3. CASE ~EndsMessage(list)
    BY <1>1, <1>3 DEF AddTlv
<1> QED
    BY <1>2, <1>3

-----------------------------------------------------------------------------
(* Numbers and bytes *)

(***************************************************************************)
(* Two bytes make a 16-bit integer (ReadUint16).                           *)
(***************************************************************************)
LEMMA Uint16OfType ==
    ASSUME NEW h \in Byte, NEW l \in Byte
    PROVE  Uint16Of(h, l) \in Uint16
<1>1. Base \in Nat /\ Base >= 2
    BY BaseAssumption
<1>2. h \in Nat /\ l \in Nat /\ h <= Base - 1 /\ l <= Base - 1
    BY <1>1 DEF Byte
<1>3. h * Base <= (Base - 1) * Base
    BY <1>1, <1>2
<1>4. (Base - 1) * Base = Base * Base - Base
    BY <1>1
<1>5. h * Base \in Nat /\ Base * Base \in Nat
    BY <1>1, <1>2
<1>6. h * Base + l \in 0 .. Base * Base - 1
    BY <1>1, <1>2, <1>3, <1>4, <1>5
<1> QED
    BY <1>6 DEF Uint16Of, Uint16

(***************************************************************************)
(* Writing a 16-bit integer and reading it back gives it again             *)
(* (WriteUint16, then ReadUint16).                                         *)
(***************************************************************************)
LEMMA Uint16RoundTrip ==
    ASSUME NEW v \in Uint16
    PROVE  /\ HighByte(v) \in Byte
           /\ LowByte(v) \in Byte
           /\ Uint16Of(HighByte(v), LowByte(v)) = v
<1>1. Base \in Nat /\ Base >= 2 /\ v \in Nat /\ Base * Base \in Nat
    BY BaseAssumption DEF Uint16
<1>2. v < Base * Base
    BY <1>1 DEF Uint16
<1>3. v % Base \in 0 .. Base - 1
    BY <1>1
<1>4. v \div Base \in Nat /\ v = Base * (v \div Base) + (v % Base)
    BY <1>1
<1>5. v \div Base < Base
    <2>1. SUFFICES ASSUME v \div Base >= Base PROVE FALSE
        BY <1>1, <1>4
    <2>2. Base * (v \div Base) >= Base * Base
        BY <1>1, <1>4, <2>1
    <2> QED
        BY <1>1, <1>2, <1>3, <1>4, <2>2
<1> QED
    BY <1>1, <1>3, <1>4, <1>5 DEF HighByte, LowByte, Uint16Of, Byte

(***************************************************************************)
(* GetLength loses nothing of a size that 16 bits hold.                    *)
(***************************************************************************)
LEMMA SmallModulo ==
    ASSUME NEW m \in Nat, NEW n \in Nat, n < m
    PROVE  n % m = n
<1>1. n % m \in 0 .. m - 1 /\ n \div m \in Nat /\ n = m * (n \div m) + (n % m)
    OBVIOUS
<1>2. n \div m = 0
    <2>1. SUFFICES ASSUME n \div m >= 1 PROVE FALSE
        BY <1>1
    <2>2. m * (n \div m) >= m
        BY <1>1, <2>1
    <2> QED
        BY <1>1, <2>2
<1> QED
    BY <1>1, <1>2

(***************************************************************************)
(* The quotient and the remainder are the only ones.                       *)
(***************************************************************************)
LEMMA RemainderIs ==
    ASSUME NEW m \in Nat, m > 0, NEW q \in Int, NEW r \in Int, 0 <= r, r < m
    PROVE  (m * q + r) % m = r
<1> DEFINE n == m * q + r
           d == n \div m
           k == d - q
<1>1. n \in Int /\ d \in Int /\ n = m * d + (n % m) /\ n % m \in 0 .. m - 1
    OBVIOUS
<1>2. k \in Int /\ m * d = m * q + m * k
    BY <1>1
<1>3. r - (n % m) = m * k
    BY <1>1, <1>2
<1>4. r - (n % m) < m /\ r - (n % m) > -m
    BY <1>1
<1>5. k = 0
    <2>1. CASE k >= 1
        BY <1>2, <1>3, <1>4, <2>1
    <2>2. CASE k <= -1
        BY <1>2, <1>3, <1>4, <2>2
    <2> QED
        BY <1>2, <2>1, <2>2
<1> QED
    BY <1>1, <1>2, <1>3, <1>5

(***************************************************************************)
(* Counting on from a number that has been reduced, as m_next_message_id   *)
(* does.                                                                   *)
(***************************************************************************)
LEMMA CountOn ==
    ASSUME NEW m \in Nat, m > 1, NEW n \in Nat
    PROVE  ((n % m) + 1) % m = (n + 1) % m
<1> DEFINE q == n \div m
           r == n % m
<1>1. q \in Int /\ r \in Int /\ 0 <= r /\ r < m /\ n = m * q + r
    OBVIOUS
<1>2. CASE r + 1 < m
    <2>1. r + 1 = m * 0 + (r + 1) /\ n + 1 = m * q + (r + 1)
        BY <1>1
    <2>2. (m * 0 + (r + 1)) % m = r + 1
        BY <1>1, <1>2, RemainderIs
    <2>3. (m * q + (r + 1)) % m = r + 1
        BY <1>1, <1>2, RemainderIs
    <2> QED
        BY <2>1, <2>2, <2>3
<1>3. CASE r + 1 = m
    <2>1. r + 1 = m * 1 + 0 /\ n + 1 = m * (q + 1) + 0
        BY <1>1, <1>3
    <2>2. (m * 1 + 0) % m = 0
        BY <1>1, RemainderIs
    <2>3. (m * (q + 1) + 0) % m = 0
        BY <1>1, RemainderIs
    <2> QED
        BY <2>1, <2>2, <2>3
<1> QED
    BY <1>1, <1>2, <1>3

(***************************************************************************)
(* Two numbers that are apart, but by less than m, are not the same modulo *)
(* m.                                                                      *)
(***************************************************************************)
LEMMA NotTheSameModulo ==
    ASSUME NEW m \in Nat, m > 0, NEW a \in Nat, NEW b \in Nat, a < b, b - a < m
    PROVE  a % m # b % m
<1> SUFFICES ASSUME a % m = b % m PROVE FALSE
    OBVIOUS
<1> DEFINE k == (b \div m) - (a \div m)
<1>1. /\ a \div m \in Int /\ b \div m \in Int
      /\ a = m * (a \div m) + (a % m) /\ b = m * (b \div m) + (b % m)
    OBVIOUS
<1>2. k \in Int /\ m * (b \div m) = m * (a \div m) + m * k
    BY <1>1
<1>3. b - a = m * k
    BY <1>1, <1>2
<1>4. CASE k >= 1
    BY <1>2, <1>3, <1>4
<1>5. CASE k <= 0
    BY <1>2, <1>3, <1>5
<1> QED
    BY <1>2, <1>4, <1>5

(***************************************************************************)
(* What is read from a buffer has its type, wherever it is read.           *)
(***************************************************************************)
LEMMA ByteAtType ==
    ASSUME NEW buffer \in Seq(Byte), NEW p \in Int
    PROVE  ByteAt(buffer, p) \in Byte
<1>1. 0 \in Byte
    BY BaseAssumption DEF Byte
<1> QED
    BY <1>1 DEF ByteAt

LEMMA Uint16AtType ==
    ASSUME NEW buffer \in Seq(Byte), NEW p \in Int
    PROVE  Uint16At(buffer, p) \in Uint16
<1> QED
    BY ByteAtType, Uint16OfType DEF Uint16At

LEMMA Uint16IsNat == Uint16 \subseteq Nat
<1> QED
    BY BaseAssumption DEF Uint16

LEMMA LengthAtType ==
    ASSUME NEW buffer \in Seq(Byte), NEW p \in Int
    PROVE  LengthAt(buffer, p) \in Uint16 /\ LengthAt(buffer, p) \in Nat
<1>1. Uint16At(buffer, p + 1) \in Uint16
    BY Uint16AtType
<1> QED
    BY <1>1, Uint16IsNat DEF LengthAt

LEMMA TlvAtType ==
    ASSUME NEW buffer \in Seq(Byte), NEW p \in Int
    PROVE  TlvAt(buffer, p) \in Tlv
<1>1. LengthAt(buffer, p) \in Nat
    BY LengthAtType
<1>2. \A k \in 1 .. LengthAt(buffer, p) :
          ByteAt(buffer, p + TlvHeaderSize + k - 1) \in Byte
    BY <1>1, ByteAtType DEF TlvHeaderSize
<1>3. ValueAt(buffer, p) \in Seq(Byte)
    BY <1>1, <1>2 DEF ValueAt, BytesAt
<1> QED
    BY <1>3, ByteAtType DEF TlvAt, Tlv

LEMMA HeaderAtType ==
    ASSUME NEW buffer \in Seq(Byte)
    PROVE  HeaderAt(buffer) \in Header
<1> QED
    BY Uint16AtType, ByteAtType DEF HeaderAt, Header

(***************************************************************************)
(* A TLV is what its own bytes make it: what comes after it does not       *)
(* matter to it.                                                           *)
(***************************************************************************)
LEMMA TlvKept ==
    ASSUME NEW b \in Seq(Byte), NEW w \in Seq(Byte), NEW p \in Int, NEW q \in Int,
           \A r \in Int : r < p => ByteAt(w, r) = ByteAt(b, r),
           EndOfTlvAt(b, q) <= p
    PROVE  /\ TlvAt(w, q) = TlvAt(b, q)
           /\ EndOfTlvAt(w, q) = EndOfTlvAt(b, q)
<1>1. LengthAt(b, q) \in Nat
    BY LengthAtType
<1>2. q + 3 + LengthAt(b, q) <= p
    BY DEF EndOfTlvAt, TlvHeaderSize
<1>3. ByteAt(w, q) = ByteAt(b, q)
    BY <1>1, <1>2
<1>4. LengthAt(w, q) = LengthAt(b, q)
    BY <1>1, <1>2 DEF LengthAt, Uint16At
<1>5. ValueAt(w, q) = ValueAt(b, q)
    <2>1. \A k \in 1 .. LengthAt(b, q) : ByteAt(w, q + 3 + k - 1) = ByteAt(b, q + 3 + k - 1)
        BY <1>1, <1>2
    <2> QED
        BY <1>4, <2>1 DEF ValueAt, BytesAt, TlvHeaderSize
<1> QED
    BY <1>3, <1>4, <1>5 DEF TlvAt, EndOfTlvAt

(***************************************************************************)
(* A buffer begins with another one: a packet with its padding, or one     *)
(* that was cut to the size of the receive buffer.                         *)
(***************************************************************************)
BeginsWith(w, b) == Len(b) <= Len(w) /\ \A k \in 1 .. Len(b) : w[k] = b[k]

LEMMA BytesInFront ==
    ASSUME NEW b \in Seq(Byte), NEW w \in Seq(Byte), BeginsWith(w, b)
    PROVE  \A r \in Int : r < Len(b) + 1 => ByteAt(w, r) = ByteAt(b, r)
<1> QED
    BY DEF BeginsWith, ByteAt

LEMMA HeaderInFront ==
    ASSUME NEW b \in Seq(Byte), NEW w \in Seq(Byte), BeginsWith(w, b),
           Len(b) >= CmduHeaderSize
    PROVE  HeaderAt(w) = HeaderAt(b)
<1>1. \A r \in 3 .. 8 : ByteAt(w, r) = ByteAt(b, r)
    BY BytesInFront DEF CmduHeaderSize
<1>2. /\ Uint16At(w, 3) = Uint16At(b, 3) /\ Uint16At(w, 5) = Uint16At(b, 5)
      /\ ByteAt(w, 7) = ByteAt(b, 7) /\ ByteAt(w, 8) = ByteAt(b, 8)
    BY <1>1 DEF Uint16At
<1> QED
    BY <1>2 DEF HeaderAt

LEMMA TlvInFront ==
    ASSUME NEW b \in Seq(Byte), NEW w \in Seq(Byte), BeginsWith(w, b),
           NEW p \in Int, TlvFitsAt(b, p)
    PROVE  /\ TlvFitsAt(w, p)
           /\ TlvAt(w, p) = TlvAt(b, p)
           /\ EndOfTlvAt(w, p) = EndOfTlvAt(b, p)
<1>1. Len(b) + 1 \in Int /\ Len(w) \in Int /\ Len(b) <= Len(w)
    BY DEF BeginsWith
<1>2. EndOfTlvAt(b, p) <= Len(b) + 1
    BY DEF TlvFitsAt
<1>3. TlvAt(w, p) = TlvAt(b, p) /\ EndOfTlvAt(w, p) = EndOfTlvAt(b, p)
    BY <1>1, <1>2, BytesInFront, TlvKept
<1>4. LengthAt(b, p) \in Nat /\ EndOfTlvAt(b, p) = p + 3 + LengthAt(b, p)
    BY LengthAtType DEF EndOfTlvAt, TlvHeaderSize
<1> QED
    BY <1>1, <1>2, <1>3, <1>4 DEF TlvFitsAt, TlvHeaderSize

LEMMA LiesInFront ==
    ASSUME NEW b \in Seq(Byte), NEW w \in Seq(Byte), BeginsWith(w, b),
           NEW list \in Seq(Tlv), NEW starts \in Seq(Nat), LiesIn(b, list, starts)
    PROVE  LiesIn(w, list, starts)
<1>1. ASSUME NEW k \in 1 .. Len(list)
      PROVE  /\ TlvFitsAt(w, starts[k])
             /\ list[k] = TlvAt(w, starts[k])
             /\ starts[k + 1] = EndOfTlvAt(w, starts[k])
    <2>1. starts[k] \in Int
        BY DEF LiesIn
    <2> QED
        BY <2>1, TlvInFront DEF LiesIn
<1> QED
    BY <1>1 DEF LiesIn

(***************************************************************************)
(* There is only one way to read TLVs from a buffer: two lists of them in  *)
(* it are the same as far as both go.                                      *)
(***************************************************************************)
LEMMA ReadsOneWay ==
    ASSUME NEW b,
           NEW list \in Seq(Tlv), NEW starts \in Seq(Nat), LiesIn(b, list, starts),
           NEW other \in Seq(Tlv), NEW places \in Seq(Nat), LiesIn(b, other, places)
    PROVE  /\ \A k \in Nat :
                 k <= Len(list) /\ k <= Len(other) => starts[k + 1] = places[k + 1]
           /\ \A k \in Nat \ {0} :
                 k <= Len(list) /\ k <= Len(other) =>
                     list[k] = other[k] /\ starts[k] = places[k]
<1> DEFINE S == {k \in Nat : k <= Len(list) /\ k <= Len(other) =>
                                  starts[k + 1] = places[k + 1]}
<1>1. Len(list) \in Nat /\ Len(other) \in Nat
    OBVIOUS
<1>2. 0 \in S
    BY DEF LiesIn
<1>3. ASSUME NEW k \in Nat, k \in S
      PROVE  k + 1 \in S
    <2> SUFFICES ASSUME k + 1 <= Len(list), k + 1 <= Len(other)
                 PROVE  starts[k + 1 + 1] = places[k + 1 + 1]
        OBVIOUS
    <2>1. k + 1 \in 1 .. Len(list) /\ k + 1 \in 1 .. Len(other)
        BY <1>1
    <2>2. starts[k + 1] = places[k + 1]
        BY <1>1, <1>3
    <2> QED
        BY <2>1, <2>2 DEF LiesIn
<1>4. \A k \in Nat : k \in S
    <2> HIDE DEF S
    <2> QED
        BY <1>2, <1>3, AllNumbers
<1>5. ASSUME NEW k \in Nat \ {0}, k <= Len(list), k <= Len(other)
      PROVE  list[k] = other[k] /\ starts[k] = places[k]
    <2>1. /\ k - 1 \in Nat /\ k - 1 + 1 = k
          /\ k - 1 <= Len(list) /\ k - 1 <= Len(other)
        BY <1>1, <1>5
    <2>2. starts[k - 1 + 1] = places[k - 1 + 1]
        BY <1>4, <2>1
    <2>3. k \in 1 .. Len(list) /\ k \in 1 .. Len(other)
        BY <1>1, <1>5
    <2> QED
        BY <2>1, <2>2, <2>3 DEF LiesIn
<1> QED
    BY <1>4, <1>5

-----------------------------------------------------------------------------
(* Sequences of bytes, one after the other *)

(* upTo[k] are the first k of some sequences of bytes, one after the other. *)
IsFlatUpTo(parts, upTo, n) ==
    upTo = [k \in 1 .. n |-> IF k = 1 THEN parts[k] ELSE upTo[k - 1] \o parts[k]]

LEMMA HasFlatUpTo ==
    ASSUME NEW parts
    PROVE  \A n \in Nat : \E upTo : IsFlatUpTo(parts, upTo, n)
<1> DEFINE S == {n \in Nat : \E upTo : IsFlatUpTo(parts, upTo, n)}
<1>1. 0 \in S
    <2>1. IsFlatUpTo(parts, [k \in 1 .. 0 |-> parts], 0)
        BY DEF IsFlatUpTo
    <2> QED
        BY <2>1
<1>2. ASSUME NEW n \in Nat, n \in S PROVE n + 1 \in S
    <2>1. PICK upTo : IsFlatUpTo(parts, upTo, n)
        BY <1>2
    <2> DEFINE last == IF n = 0 THEN parts[n + 1] ELSE upTo[n] \o parts[n + 1]
               longer == [k \in 1 .. n + 1 |-> IF k = n + 1 THEN last ELSE upTo[k]]
    <2>2. /\ longer = [k \in 1 .. n + 1 |-> longer[k]]
          /\ \A k \in 1 .. n : longer[k] = upTo[k]
        <3> HIDE DEF last
        <3>1. longer = [k \in 1 .. n + 1 |-> longer[k]]
            OBVIOUS
        <3>2. \A k \in 1 .. n : k \in 1 .. n + 1 /\ k # n + 1
            OBVIOUS
        <3> QED
            BY <3>1, <3>2
    <2>3. longer[n + 1] = IF n + 1 = 1 THEN parts[n + 1] ELSE longer[n] \o parts[n + 1]
        OBVIOUS
    <2>4. \A k \in 1 .. n : k # 1 => k - 1 \in 1 .. n
        OBVIOUS
    <2>5. \A k \in 1 .. n + 1 : k \in 1 .. n \/ (k = n + 1 /\ k - 1 = n)
        OBVIOUS
    <2> HIDE DEF longer, last
    <2>6. \A k \in 1 .. n :
             upTo[k] = IF k = 1 THEN parts[k] ELSE upTo[k - 1] \o parts[k]
        BY <2>1, Zenon DEF IsFlatUpTo
    <2>7. \A k \in 1 .. n + 1 :
             longer[k] = IF k = 1 THEN parts[k] ELSE longer[k - 1] \o parts[k]
        BY <2>2, <2>3, <2>4, <2>5, <2>6
    <2>8. IsFlatUpTo(parts, longer, n + 1)
        BY <2>2, <2>7, Zenon DEF IsFlatUpTo
    <2> QED
        BY <2>8
<1> HIDE DEF S
<1>3. \A n \in Nat : n \in S
    BY <1>1, <1>2, AllNumbers
<1> QED
    BY <1>3 DEF S

=============================================================================
