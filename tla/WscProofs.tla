----------------------------- MODULE WscProofs ------------------------------
(***************************************************************************)
(* A WscMessage, for every set of attributes, values and TLVs of other     *)
(* devices: what ToTlv made is read again, and as it was given; what is    *)
(* read is what the bytes hold.                                            *)
(***************************************************************************)
EXTENDS Wsc, WireProofs, FiniteSetTheorems

-----------------------------------------------------------------------------
(* The order of a std::map *)

IsOrder(order, keys, n) ==
    /\ order \in [1 .. n -> keys]
    /\ \A j, k \in 1 .. n : j < k => order[j] < order[k]

(* Every set of numbers below n is finite and has an order. *)
LEMMA NumbersHaveOrder ==
    \A n \in Nat : \A keys \in SUBSET (0 .. n - 1) :
        IsFiniteSet(keys) /\ \E order : IsOrder(order, keys, Cardinality(keys))
<1> DEFINE Has(keys) == \E order : IsOrder(order, keys, Cardinality(keys))
           S == {n \in Nat : \A keys \in SUBSET (0 .. n - 1) : IsFiniteSet(keys) /\ Has(keys)}
<1>1. 0 \in S
    <2>1. \A keys \in SUBSET (0 .. 0 - 1) : keys = {}
        OBVIOUS
    <2>2. IsFiniteSet({}) /\ Cardinality({}) = 0
        BY FS_EmptySet
    <2>3. IsOrder([k \in 1 .. 0 |-> 0], {}, 0)
        BY DEF IsOrder
    <2> QED
        BY <2>1, <2>2, <2>3
<1>2. ASSUME NEW n \in Nat, n \in S PROVE n + 1 \in S
    <2> SUFFICES ASSUME NEW keys \in SUBSET (0 .. n + 1 - 1)
                 PROVE  IsFiniteSet(keys) /\ Has(keys)
        OBVIOUS
    <2>1. \A rest \in SUBSET (0 .. n - 1) : IsFiniteSet(rest) /\ Has(rest)
        BY <1>2
    <2>2. CASE n \notin keys
        <3>1. keys \in SUBSET (0 .. n - 1)
            BY <2>2
        <3> QED
            BY <2>1, <3>1
    <2>3. CASE n \in keys
        <3> DEFINE rest == keys \ {n}
                   c == Cardinality(rest)
        <3>1. rest \in SUBSET (0 .. n - 1)
            OBVIOUS
        <3>2. IsFiniteSet(rest) /\ Has(rest)
            BY <2>1, <3>1
        <3>3. rest \union {n} = keys /\ n \notin rest
            BY <2>3
        <3>4. IsFiniteSet(keys) /\ Cardinality(keys) = c + 1 /\ c \in Nat
            <4> HIDE DEF rest
            <4> QED
                BY <3>2, <3>3, FS_AddElement, FS_CardinalityType
        <3>5. PICK order : IsOrder(order, rest, c)
            BY <3>2
        <3> DEFINE longer == [k \in 1 .. c + 1 |-> IF k = c + 1 THEN n ELSE order[k]]
        <3>6. \A k \in 1 .. c : order[k] \in rest
            BY <3>5 DEF IsOrder
        <3> HIDE DEF c
        <3>7. /\ \A k \in 1 .. c : longer[k] = order[k]
              /\ longer[c + 1] = n
              /\ longer \in [1 .. c + 1 -> keys]
            BY <3>3, <3>4, <3>6
        <3> HIDE DEF longer
        <3>8. ASSUME NEW j \in 1 .. c + 1, NEW k \in 1 .. c + 1, j < k
              PROVE  longer[j] < longer[k]
            <4>1. j \in 1 .. c
                BY <3>4, <3>8
            <4>2. CASE k = c + 1
                <5>1. order[j] \in 0 .. n - 1
                    BY <3>1, <3>6, <4>1
                <5> QED
                    BY <3>7, <4>1, <4>2, <5>1
            <4>3. CASE k \in 1 .. c
                BY <3>5, <3>7, <3>8, <4>1, <4>3 DEF IsOrder
            <4> QED
                BY <3>4, <4>2, <4>3
        <3>9. IsOrder(longer, keys, c + 1)
            BY <3>7, <3>8 DEF IsOrder
        <3> QED
            BY <3>4, <3>9
    <2> QED
        BY <2>2, <2>3
<1> HIDE DEF S
<1>3. \A n \in Nat : n \in S
    BY <1>1, <1>2, AllNumbers
<1> QED
    BY <1>3 DEF S

(***************************************************************************)
(* The order visits every key.                                             *)
(***************************************************************************)
LEMMA OrderOfKeys ==
    ASSUME NEW keys \in SUBSET Uint16
    PROVE  /\ Cardinality(keys) \in Nat
           /\ InOrder(keys) \in [1 .. Cardinality(keys) -> keys]
           /\ \A key \in keys : \E k \in 1 .. Cardinality(keys) : InOrder(keys)[k] = key
<1> DEFINE n == Cardinality(keys)
           order == InOrder(keys)
<1>1. IsFiniteSet(keys) /\ \E o : IsOrder(o, keys, n)
    <2>1. Base * Base \in Nat
        BY BaseAssumption
    <2>2. keys \in SUBSET (0 .. Base * Base - 1)
        BY DEF Uint16
    <2> QED
        BY <2>1, <2>2, NumbersHaveOrder
<1>2. n \in Nat /\ IsFiniteSet(1 .. n) /\ Cardinality(1 .. n) = n
    <2>1. n \in Nat
        BY <1>1, FS_CardinalityType
    <2> HIDE DEF n
    <2>2. IsFiniteSet(1 .. n) /\ Cardinality(1 .. n) = IF 1 > n THEN 0 ELSE n - 1 + 1
        BY <2>1, FS_Interval
    <2> QED
        BY <2>1, <2>2
<1>3. IsOrder(order, keys, n)
    BY <1>1 DEF InOrder, IsOrder
<1> HIDE DEF order, n
<1>4. order \in [1 .. n -> keys]
    BY <1>3 DEF IsOrder
<1>5. ASSUME NEW j \in 1 .. n, NEW k \in 1 .. n, order[j] = order[k]
      PROVE  j = k
    <2>1. order[j] \in Nat
        BY <1>4, Uint16IsNat
    <2>2. ~(j < k) /\ ~(k < j)
        BY <1>3, <1>5, <2>1 DEF IsOrder
    <2> QED
        BY <1>2, <2>2
<1>6. order \in Injection(1 .. n, keys)
    BY <1>4, <1>5 DEF Injection, IsInjective
<1>7. order \in Surjection(1 .. n, keys)
    BY <1>1, <1>2, <1>6, FS_Injection DEF n
<1>8. \A key \in keys : \E k \in 1 .. n : order[k] = key
    BY <1>7 DEF Surjection
<1> QED
    BY <1>2, <1>4, <1>8 DEF n, order

-----------------------------------------------------------------------------
(* How the attributes lie in a packed message *)

(***************************************************************************)
(* Whatever is put behind them, the first parts stay where they are.       *)
(***************************************************************************)
LEMMA FlatGrows ==
    ASSUME NEW n \in Nat, NEW parts, \A k \in 1 .. n : parts[k] \in Seq(Byte),
           NEW flat, IsFlatUpTo(parts, flat, n)
    PROVE  \A k \in Nat : 1 <= k /\ k <= n =>
               /\ flat[k] \in Seq(Byte)
               /\ \A j \in 1 .. k : flat[j] \in Seq(Byte) /\ BeginsWith(flat[k], flat[j])
<1> DEFINE Good(k) ==
               /\ flat[k] \in Seq(Byte)
               /\ \A j \in 1 .. k : flat[j] \in Seq(Byte) /\ BeginsWith(flat[k], flat[j])
           S == {k \in Nat : 1 <= k /\ k <= n => Good(k)}
<1>1. \A k \in 1 .. n :
         flat[k] = IF k = 1 THEN parts[k] ELSE flat[k - 1] \o parts[k]
    BY Zenon DEF IsFlatUpTo
<1>2. 0 \in S
    OBVIOUS
<1>3. ASSUME NEW i \in Nat, i \in S PROVE i + 1 \in S
    <2> DEFINE k == i + 1
    <2> SUFFICES ASSUME k <= n PROVE Good(k)
        OBVIOUS
    <2>1. k \in 1 .. n /\ k \in 1 .. k /\ parts[k] \in Seq(Byte)
        OBVIOUS
    <2>2. \A b \in Seq(Byte) : BeginsWith(b, b)
        BY DEF BeginsWith
    <2>3. CASE i = 0
        <3>1. flat[k] = parts[k] /\ \A j \in 1 .. k : j = k
            BY <1>1, <2>1, <2>3
        <3> QED
            BY <2>1, <2>2, <3>1
    <2>4. CASE i # 0
        <3>1. i \in 1 .. i /\ 1 <= i /\ i <= n
            BY <2>4
        <3>2. Good(i)
            BY <1>3, <3>1
        <3>3. flat[k] = flat[i] \o parts[k]
            <4>1. k # 1 /\ k - 1 = i
                BY <2>4
            <4> HIDE DEF k
            <4>2. flat[k] = flat[k - 1] \o parts[k]
                BY <1>1, <2>1, <4>1, Zenon
            <4> QED
                BY <4>1, <4>2, Zenon
        <3>4. \A s, t \in Seq(Byte) : s \o t \in Seq(Byte) /\ BeginsWith(s \o t, s)
            BY DEF BeginsWith
        <3>5. flat[k] \in Seq(Byte) /\ BeginsWith(flat[k], flat[i])
            BY <2>1, <3>2, <3>3, <3>4, Zenon
        <3>6. ASSUME NEW j \in 1 .. k
              PROVE  flat[j] \in Seq(Byte) /\ BeginsWith(flat[k], flat[j])
            <4>1. CASE j = k
                BY <2>2, <3>5, <4>1
            <4>2. CASE j \in 1 .. i
                <5>1. flat[j] \in Seq(Byte) /\ BeginsWith(flat[i], flat[j])
                    BY <3>2, <4>2
                <5>2. \A a, b, c \in Seq(Byte) :
                         BeginsWith(a, b) /\ BeginsWith(b, c) => BeginsWith(a, c)
                    BY DEF BeginsWith
                <5> QED
                    BY <3>2, <3>5, <5>1, <5>2, Zenon
            <4> QED
                BY <3>1, <4>1, <4>2
        <3> QED
            BY <3>5, <3>6
    <2> QED
        BY <2>3, <2>4
<1> HIDE DEF S
<1>4. \A k \in Nat : k \in S
    BY <1>2, <1>3, AllNumbers
<1> QED
    BY <1>4 DEF S

(* ParseAttributes finds this attribute at p. *)
LiesAt(b, p, type, value) ==
    /\ p \in Nat \ {0}
    /\ p + AttributeHeaderSize + Len(value) <= Len(b) + 1
    /\ Uint16At(b, p) = type
    /\ Uint16At(b, p + 2) = Len(value)
    /\ BytesAt(b, p + AttributeHeaderSize, Len(value)) = value

(* The attributes of m lie in b in their order, from the first byte to the last. *)
MessageLies(b, m, starts) ==
    /\ starts[1] = 1
    /\ starts[Cardinality(DOMAIN m) + 1] = Len(b) + 1
    /\ \A k \in 1 .. Cardinality(DOMAIN m) :
          LET type == InOrder(DOMAIN m)[k]
          IN  /\ LiesAt(b, starts[k], type, m[type])
              /\ starts[k + 1] = starts[k] + AttributeHeaderSize + Len(m[type])

Fit(m) == \A type \in DOMAIN m : FitsTlv(m[type])

(* The bytes of one attribute. *)
IsPart(part, type, value) ==
    /\ part \in Seq(Byte) /\ Len(part) = 4 + Len(value)
    /\ Uint16Of(part[1], part[2]) = type
    /\ Uint16Of(part[3], part[4]) = Len(value)
    /\ \A i \in 1 .. Len(value) : part[4 + i] = value[i]

LEMMA AttributeBytesAre ==
    ASSUME NEW m, IsAttributes(m), Fit(m), NEW type \in DOMAIN m
    PROVE  IsPart(AttributeBytes(m, type), type, m[type])
<1> DEFINE value == m[type]
           part == AttributeBytes(m, type)
           length == Len(value) % (Base * Base)
           head == << HighByte(type), LowByte(type), HighByte(length), LowByte(length) >>
<1>1. type \in Uint16 /\ value \in Seq(Byte) /\ Len(value) \in Uint16
    BY DEF IsAttributes, Fit, FitsTlv
<1>2. length = Len(value)
    <2>1. Base * Base \in Nat /\ Len(value) \in Nat /\ Len(value) < Base * Base
        BY <1>1, BaseAssumption DEF Uint16
    <2> QED
        BY <2>1, SmallModulo
<1>3. part = head \o value
    BY DEF AttributeBytes
<1> HIDE DEF length, value, part
<1>4. /\ HighByte(type) \in Byte /\ LowByte(type) \in Byte
      /\ HighByte(length) \in Byte /\ LowByte(length) \in Byte
      /\ Uint16Of(HighByte(type), LowByte(type)) = type
      /\ Uint16Of(HighByte(length), LowByte(length)) = length
    BY <1>1, <1>2, Uint16RoundTrip
<1>5. /\ head \in Seq(Byte) /\ Len(head) = 4
      /\ head[1] = HighByte(type) /\ head[2] = LowByte(type)
      /\ head[3] = HighByte(length) /\ head[4] = LowByte(length)
    BY <1>4
<1> HIDE DEF head
<1>6. /\ part \in Seq(Byte) /\ Len(part) = 4 + Len(value)
      /\ part[1] = head[1] /\ part[2] = head[2] /\ part[3] = head[3] /\ part[4] = head[4]
      /\ \A i \in 1 .. Len(value) : part[4 + i] = value[i]
    <2>1. \A s, t \in Seq(Byte) :
             /\ s \o t \in Seq(Byte) /\ Len(s \o t) = Len(s) + Len(t)
             /\ \A i \in 1 .. Len(s) : (s \o t)[i] = s[i]
             /\ \A i \in 1 .. Len(t) : (s \o t)[Len(s) + i] = t[i]
        OBVIOUS
    <2>2. /\ part \in Seq(Byte) /\ Len(part) = Len(head) + Len(value)
          /\ \A i \in 1 .. Len(head) : part[i] = head[i]
          /\ \A i \in 1 .. Len(value) : part[Len(head) + i] = value[i]
        <3>1. value \in Seq(Byte) /\ head \in Seq(Byte)
            BY <1>1, <1>5
        <3>2. /\ head \o value \in Seq(Byte) /\ Len(head \o value) = Len(head) + Len(value)
              /\ \A i \in 1 .. Len(head) : (head \o value)[i] = head[i]
              /\ \A i \in 1 .. Len(value) : (head \o value)[Len(head) + i] = value[i]
            BY <2>1, <3>1
        <3> QED
            BY <1>3, <3>2, Zenon
    <2>3. 1 \in 1 .. 4 /\ 2 \in 1 .. 4 /\ 3 \in 1 .. 4 /\ 4 \in 1 .. 4
        OBVIOUS
    <2> QED
        BY <1>5, <2>2, <2>3, Zenon
<1> QED
    BY <1>2, <1>4, <1>5, <1>6 DEF IsPart, value, part

LEMMA PartLies ==
    ASSUME NEW type, NEW value \in Seq(Byte), NEW part, IsPart(part, type, value),
           NEW b \in Seq(Byte), NEW p \in Nat \ {0},
           p + Len(part) <= Len(b) + 1,
           \A i \in 1 .. Len(part) : b[p + i - 1] = part[i]
    PROVE  LiesAt(b, p, type, value)
<1>1. /\ part \in Seq(Byte) /\ Len(part) = 4 + Len(value)
      /\ Uint16Of(part[1], part[2]) = type
      /\ Uint16Of(part[3], part[4]) = Len(value)
      /\ \A i \in 1 .. Len(value) : part[4 + i] = value[i]
    BY DEF IsPart
<1>2. value \in Seq(Byte) /\ Len(value) \in Nat /\ Len(b) \in Nat
    OBVIOUS
<1>3. \A i \in 1 .. 4 + Len(value) : ByteAt(b, p + i - 1) = part[i]
    BY <1>1, <1>2 DEF ByteAt
<1>4. /\ ByteAt(b, p) = part[1] /\ ByteAt(b, p + 1) = part[2]
      /\ ByteAt(b, p + 2) = part[3] /\ ByteAt(b, p + 3) = part[4]
    <2>1. /\ 1 \in 1 .. 4 + Len(value) /\ 2 \in 1 .. 4 + Len(value)
          /\ 3 \in 1 .. 4 + Len(value) /\ 4 \in 1 .. 4 + Len(value)
          /\ p + 1 - 1 = p /\ p + 2 - 1 = p + 1 /\ p + 3 - 1 = p + 2 /\ p + 4 - 1 = p + 3
        BY <1>2
    <2> QED
        BY <1>3, <2>1
<1>5. Uint16At(b, p) = type /\ Uint16At(b, p + 2) = Len(value)
    <2>1. p + 2 + 1 = p + 3
        OBVIOUS
    <2> QED
        BY <1>1, <1>4, <2>1 DEF Uint16At
<1>6. \A i \in 1 .. Len(value) : ByteAt(b, p + 4 + i - 1) = value[i]
    <2> SUFFICES ASSUME NEW i \in 1 .. Len(value) PROVE ByteAt(b, p + 4 + i - 1) = value[i]
        OBVIOUS
    <2>1. 4 + i \in 1 .. 4 + Len(value) /\ p + (4 + i) - 1 = p + 4 + i - 1
        BY <1>2
    <2> QED
        BY <1>1, <1>3, <2>1
<1>7. BytesAt(b, p + 4, Len(value)) = value
    <2>1. value = [i \in 1 .. Len(value) |-> value[i]]
        BY <1>2
    <2> QED
        BY <1>6, <2>1 DEF BytesAt
<1> QED
    BY <1>1, <1>2, <1>5, <1>7 DEF LiesAt, AttributeHeaderSize

LEMMA PackedLies ==
    ASSUME NEW m, IsAttributes(m), Fit(m)
    PROVE  /\ PackAttributes(m) \in Seq(Byte)
           /\ \E starts : MessageLies(PackAttributes(m), m, starts)
<1> DEFINE n == Cardinality(DOMAIN m)
           order == InOrder(DOMAIN m)
           parts == [k \in 1 .. n |-> AttributeBytes(m, order[k])]
           flat == CHOOSE f : IsFlatUpTo(parts, f, n)
           starts == [k \in 1 .. n + 1 |-> IF k = 1 THEN 1 ELSE Len(flat[k - 1]) + 1]
<1>1. n \in Nat /\ \A k \in 1 .. n : order[k] \in DOMAIN m
    BY OrderOfKeys DEF IsAttributes
<1>2. PackAttributes(m) = FlattenSeq(parts)
    BY DEF PackAttributes
<1> HIDE DEF n, order
<1>3. \A k \in 1 .. n : IsPart(parts[k], order[k], m[order[k]])
    <2> SUFFICES ASSUME NEW k \in 1 .. n PROVE IsPart(parts[k], order[k], m[order[k]])
        OBVIOUS
    <2>1. order[k] \in DOMAIN m /\ parts[k] = AttributeBytes(m, order[k])
        BY <1>1
    <2> QED
        BY <2>1, AttributeBytesAre
<1>4. parts \in Seq(Seq(Byte)) /\ Len(parts) = n /\ \A k \in 1 .. n : parts[k] \in Seq(Byte)
    BY <1>1, <1>3 DEF IsPart
<1>5. DOMAIN parts = 1 .. n
    OBVIOUS
<1> HIDE DEF parts
<1>6. IsFlatUpTo(parts, flat, n)
    <2>1. \E f : IsFlatUpTo(parts, f, n)
        BY <1>1, HasFlatUpTo
    <2> QED
        BY <2>1, Zenon
<1>7. CASE n = 0
    <2>1. PackAttributes(m) = << >>
        <3>1. parts = << >>
            BY <1>4, <1>7
        <3> QED
            BY <1>2, <3>1 DEF FlattenSeq
    <2>2. MessageLies(<< >>, m, [k \in 1 .. 1 |-> 1])
        BY <1>7 DEF MessageLies, n
    <2> QED
        BY <2>1, <2>2
<1>8. CASE n # 0
    <2> DEFINE b == PackAttributes(m)
    <2>1. b = flat[n]
        BY <1>2, <1>4, <1>8, Zenon DEF FlattenSeq, IsFlatUpTo
    <2> HIDE DEF b, flat
    <2>2. \A k \in 1 .. n : flat[k] \in Seq(Byte) /\ Len(flat[k]) \in Nat
                            /\ BeginsWith(b, flat[k])
        <3>1. \A k \in Nat : 1 <= k /\ k <= n =>
                 flat[k] \in Seq(Byte) /\ \A j \in 1 .. k : flat[j] \in Seq(Byte)
                                                            /\ BeginsWith(flat[k], flat[j])
            BY <1>1, <1>4, <1>6, FlatGrows
        <3>2. n \in Nat /\ 1 <= n /\ n <= n
            BY <1>1, <1>8
        <3> QED
            BY <2>1, <3>1, <3>2
    <2>3. n \in 1 .. n /\ b \in Seq(Byte) /\ Len(b) \in Nat
        BY <1>1, <1>8, <2>1, <2>2
    <2>4. /\ starts[1] = 1 /\ starts[n + 1] = Len(b) + 1
          /\ \A k \in 1 .. n : starts[k + 1] = Len(flat[k]) + 1
        <3>1. \A k \in 1 .. n + 1 : starts[k] = IF k = 1 THEN 1 ELSE Len(flat[k - 1]) + 1
            OBVIOUS
        <3> HIDE DEF starts
        <3>2. 1 \in 1 .. n + 1
            BY <1>1
        <3>3. ASSUME NEW k \in 1 .. n PROVE starts[k + 1] = Len(flat[k]) + 1
            <4>1. k + 1 \in 1 .. n + 1 /\ k + 1 # 1 /\ k + 1 - 1 = k
                BY <1>1
            <4> QED
                BY <3>1, <4>1
        <3> QED
            BY <2>1, <2>3, <3>1, <3>2, <3>3
    <2> HIDE DEF starts
    <2>5. ASSUME NEW k \in 1 .. n
          PROVE  /\ LiesAt(b, starts[k], order[k], m[order[k]])
                 /\ starts[k + 1] = starts[k] + AttributeHeaderSize + Len(m[order[k]])
        <3> DEFINE part == parts[k]
                   p == starts[k]
        <3>1. IsPart(part, order[k], m[order[k]]) /\ part \in Seq(Byte) /\ Len(part) \in Nat
            BY <1>3, <1>4
        <3>2. m[order[k]] \in Seq(Byte)
            BY <1>1 DEF IsAttributes
        <3>3. starts[k + 1] = Len(flat[k]) + 1
            BY <2>4
        <3>4. flat[k] = IF k = 1 THEN parts[k] ELSE flat[k - 1] \o parts[k]
            BY <1>6, Zenon DEF IsFlatUpTo
        <3>5. /\ p \in Nat \ {0} /\ Len(flat[k]) + 1 = p + Len(part)
              /\ \A i \in 1 .. Len(part) : flat[k][p + i - 1] = part[i]
            <4>1. CASE k = 1
                <5>1. p = 1 /\ flat[k] = part
                    BY <2>4, <3>4, <4>1
                <5> HIDE DEF p, part
                <5>2. \A i \in 1 .. Len(part) : 1 + i - 1 = i
                    BY <3>1
                <5> QED
                    BY <3>1, <5>1, <5>2
            <4>2. CASE k # 1
                <5>1. k - 1 \in 1 .. n /\ k - 1 + 1 = k
                    BY <1>1, <4>2
                <5>2. p = Len(flat[k - 1]) + 1 /\ flat[k] = flat[k - 1] \o part
                    BY <2>4, <3>4, <4>2, <5>1
                <5>3. flat[k - 1] \in Seq(Byte) /\ Len(flat[k - 1]) \in Nat
                    BY <2>2, <5>1
                <5>4. \A s, t \in Seq(Byte) :
                         /\ Len(s \o t) = Len(s) + Len(t)
                         /\ \A i \in 1 .. Len(t) : (s \o t)[Len(s) + 1 + i - 1] = t[i]
                    OBVIOUS
                <5>5. /\ Len(flat[k]) = Len(flat[k - 1]) + Len(part)
                      /\ \A i \in 1 .. Len(part) :
                            flat[k][Len(flat[k - 1]) + 1 + i - 1] = part[i]
                    <6> HIDE DEF part
                    <6> QED
                        BY <3>1, <5>2, <5>3, <5>4
                <5> HIDE DEF p, part
                <5>6. p \in Nat \ {0} /\ Len(flat[k]) + 1 = p + Len(part)
                    BY <3>1, <5>2, <5>3, <5>5
                <5> QED
                    BY <5>2, <5>5, <5>6
            <4> QED
                BY <4>1, <4>2
        <3> HIDE DEF p, part
        <3>6. /\ p + Len(part) <= Len(b) + 1
              /\ \A i \in 1 .. Len(part) : b[p + i - 1] = part[i]
            <4>1. Len(flat[k]) \in Nat /\ Len(flat[k]) <= Len(b)
                  /\ \A r \in 1 .. Len(flat[k]) : b[r] = flat[k][r]
                BY <2>2 DEF BeginsWith
            <4>2. \A i \in 1 .. Len(part) : p + i - 1 \in 1 .. Len(flat[k])
                BY <3>1, <3>5, <4>1
            <4>3. p + Len(part) <= Len(b) + 1
                BY <2>3, <3>1, <3>5, <4>1
            <4>4. \A i \in 1 .. Len(part) : b[p + i - 1] = part[i]
                BY <3>5, <4>1, <4>2
            <4> QED
                BY <4>3, <4>4
        <3>7. LiesAt(b, p, order[k], m[order[k]])
            BY <2>3, <3>1, <3>2, <3>5, <3>6, PartLies
        <3>8. starts[k + 1] = p + AttributeHeaderSize + Len(m[order[k]])
            <4>1. Len(part) = 4 + Len(m[order[k]]) /\ Len(m[order[k]]) \in Nat
                BY <3>1, <3>2 DEF IsPart
            <4> DEFINE length == Len(m[order[k]])
            <4>2. length \in Nat /\ Len(part) = 4 + length
                BY <4>1
            <4> HIDE DEF length
            <4>3. starts[k + 1] = p + 4 + length
                BY <3>3, <3>5, <4>2
            <4> QED
                BY <4>3 DEF AttributeHeaderSize, length
        <3> QED
            BY <3>7, <3>8 DEF p
    <2>6. MessageLies(b, m, starts)
        BY <2>4, <2>5 DEF MessageLies, n, order
    <2> QED
        BY <2>3, <2>6 DEF b
<1> QED
    BY <1>1, <1>7, <1>8

-----------------------------------------------------------------------------
(* The inductive invariant *)

(***************************************************************************)
(* No two names stand for the same code.  The names of wsc.h do.           *)
(***************************************************************************)
DistinctCodes ==
    \A name, other \in Names : Attributes[name] = Attributes[other] => name = other

(* The map holds what was added. *)
KeepsAdded ==
    /\ DOMAIN m_attributes = {Attributes[name] : name \in DOMAIN added}
    /\ DistinctCodes =>
          \A name \in DOMAIN added : m_attributes[Attributes[name]] = added[name]

(* The TLV holds the map. *)
MadeIsPacked ==
    /\ at = "build" => tlv = {}
    /\ \A made \in tlv : made.value = PackAttributes(m_attributes)
    /\ at = "length_error" => ~FitsTlv(PackAttributes(m_attributes))

(* The first n attributes of the map have been read. *)
HasRead(starts, n) ==
    /\ ptr = starts[n + 1]
    /\ DOMAIN parsed = {InOrder(DOMAIN m_attributes)[k] : k \in 1 .. n}
    /\ \A type \in DOMAIN parsed : parsed[type] = m_attributes[type]

IsReading ==
    \E starts : /\ MessageLies(raw, m_attributes, starts)
                /\ \E n \in 0 .. Cardinality(DOMAIN m_attributes) : HasRead(starts, n)

(* A message that ToTlv made is read attribute by attribute. *)
OwnIsRead == own => at \in {"parse", "return"} /\ IsReading

(***************************************************************************)
(* The attributes read so far lie one after the other up to ptr, and       *)
(* parsed holds them.                                                      *)
(***************************************************************************)
EndOfRead(k) == IF k = Len(offsets) THEN ptr ELSE offsets[k + 1]

IsLast(k) ==
    \A j \in k + 1 .. Len(offsets) : Uint16At(raw, offsets[j]) # Uint16At(raw, offsets[k])

ReadSoFar ==
    /\ IF offsets = << >> THEN ptr = 1 ELSE offsets[1] = 1
    /\ DOMAIN parsed = {Uint16At(raw, offsets[k]) : k \in 1 .. Len(offsets)}
    /\ \A k \in 1 .. Len(offsets) :
          /\ offsets[k] + AttributeHeaderSize + AttributeLength(offsets[k]) = EndOfRead(k)
          /\ IsLast(k) => parsed[Uint16At(raw, offsets[k])] = AttributeValue(offsets[k])
    /\ at = "return" => ptr = Len(raw) + 1

IInv ==
    /\ TypeOK
    /\ Fit(m_attributes)
    /\ KeepsAdded
    /\ MadeIsPacked
    /\ OwnIsRead
    /\ ReadSoFar

LEMMA InitIInv == Init => IInv
<1> SUFFICES ASSUME Init PROVE IInv
    OBVIOUS
<1>1. DOMAIN Empty = {}
    BY DEF Empty
<1>2. TypeOK
    <2>1. IsAttributes(m_attributes) /\ IsAttributes(parsed) /\ DOMAIN added \subseteq Names
        BY <1>1 DEF Init, IsAttributes
    <2>2. raw \in Seq(Byte) /\ offsets \in Seq(1 .. Len(raw)) /\ ptr \in 1 .. Len(raw) + 1
        BY DEF Init
    <2>3. calls \in 0 .. MaxCalls
        BY MaxCallsAssumption DEF Init
    <2> QED
        BY <2>1, <2>2, <2>3 DEF Init, TypeOK
<1>3. Fit(m_attributes) /\ KeepsAdded /\ MadeIsPacked /\ OwnIsRead
    BY <1>1 DEF Init, Fit, KeepsAdded, MadeIsPacked, OwnIsRead
<1>4. ReadSoFar
    BY <1>1 DEF Init, ReadSoFar
<1> QED
    BY <1>2, <1>3, <1>4 DEF IInv

(* What m[key] = value makes of a map of attributes. *)
LEMMA WithType ==
    ASSUME NEW m, IsAttributes(m), NEW key \in Uint16, NEW value \in Seq(Byte)
    PROVE  /\ IsAttributes(With(m, key, value))
           /\ Fit(m) /\ FitsTlv(value) => Fit(With(m, key, value))
<1> DEFINE w == With(m, key, value)
<1>1. /\ DOMAIN w = DOMAIN m \union {key} /\ w[key] = value
      /\ \A k \in DOMAIN m : k # key => w[k] = m[k]
    BY DEF With
<1> HIDE DEF w
<1>2. IsAttributes(w)
    BY <1>1 DEF IsAttributes
<1>3. Fit(m) /\ FitsTlv(value) => Fit(w)
    BY <1>1 DEF Fit
<1> QED
    BY <1>2, <1>3 DEF w

-----------------------------------------------------------------------------
(* Building a message keeps it *)

LEMMA AddAttributeIInv ==
    ASSUME IInv, NEW name \in Names, NEW value \in Values, AddAttribute(name, value)
    PROVE  IInv'
<1> DEFINE code == Attributes[name]
<1>1. /\ code \in Uint16 /\ value \in Seq(Byte) /\ FitsTlv(value)
      /\ m_attributes' = With(m_attributes, code, value)
      /\ added' = With(added, name, value)
    BY AttributesAssumption, ValuesAssumption DEF AddAttribute, Assigned
<1>2. calls' \in 0 .. MaxCalls
    <2>1. calls \in Nat /\ MaxCalls \in Nat /\ calls' = calls + 1 /\ calls < MaxCalls
        BY MaxCallsAssumption DEF IInv, TypeOK, AddAttribute
    <2> QED
        BY <2>1
<1>3. IsAttributes(m_attributes') /\ Fit(m_attributes')
    BY <1>1, WithType DEF IInv, TypeOK
<1>4. /\ DOMAIN added' = DOMAIN added \union {name} /\ added'[name] = value
      /\ \A other \in DOMAIN added : other # name => added'[other] = added[other]
    BY <1>1 DEF With
<1>5. /\ DOMAIN m_attributes' = DOMAIN m_attributes \union {code}
      /\ m_attributes'[code] = value
      /\ \A type \in DOMAIN m_attributes :
            type # code => m_attributes'[type] = m_attributes[type]
    BY <1>1 DEF With
<1>6. DOMAIN added' \subseteq Names
    BY <1>4 DEF IInv, TypeOK
<1>7. TypeOK'
    BY <1>2, <1>3, <1>6 DEF IInv, TypeOK, AddAttribute, parseVars, IsAttributes
<1>8. KeepsAdded'
    <2>2. DOMAIN m_attributes' = {Attributes[other] : other \in DOMAIN added'}
        BY <1>4, <1>5 DEF IInv, KeepsAdded
    <2>3. ASSUME DistinctCodes, NEW other \in DOMAIN added'
          PROVE  m_attributes'[Attributes[other]] = added'[other]
        <3>1. CASE other = name
            BY <1>4, <1>5, <3>1
        <3>2. CASE other # name
            <4>1. other \in DOMAIN added /\ other \in Names /\ Attributes[other] # code
                BY <1>4, <1>6, <2>3, <3>2 DEF DistinctCodes
            <4>2. /\ m_attributes[Attributes[other]] = added[other]
                  /\ Attributes[other] \in DOMAIN m_attributes
                BY <2>3, <4>1 DEF IInv, KeepsAdded
            <4> QED
                BY <1>4, <1>5, <3>2, <4>1, <4>2
        <3> QED
            BY <3>1, <3>2
    <2> QED
        BY <2>2, <2>3 DEF KeepsAdded
<1>9. MadeIsPacked'
    BY DEF IInv, MadeIsPacked, AddAttribute
<1>10. OwnIsRead'
    BY DEF IInv, OwnIsRead, AddAttribute, parseVars
<1>11. ReadSoFar'
    BY DEF IInv, ReadSoFar, AddAttribute, parseVars, EndOfRead, IsLast, AttributeLength,
           AttributeValue
<1> QED
    BY <1>3, <1>7, <1>8, <1>9, <1>10, <1>11 DEF IInv

(* Nothing but a counter or the place in the program changes. *)
LEMMA KeepsIInv ==
    ASSUME IInv, UNCHANGED << m_attributes, added, tlv, parseVars >>,
           calls' \in 0 .. MaxCalls,
           at' \in {"build", "made", "length_error", "parse", "return", "runtime_error"},
           at' = "build" => at = "build",
           at' = "length_error" => ~FitsTlv(PackAttributes(m_attributes)),
           own => at' \in {"parse", "return"},
           at' = "return" => ptr = Len(raw) + 1
    PROVE  IInv'
<1>1. TypeOK' /\ Fit(m_attributes)' /\ KeepsAdded' /\ MadeIsPacked'
    BY DEF IInv, TypeOK, Fit, KeepsAdded, MadeIsPacked, parseVars, IsAttributes
<1>2. OwnIsRead'
    BY DEF IInv, OwnIsRead, IsReading, HasRead, parseVars
<1>3. ReadSoFar'
    BY DEF IInv, ReadSoFar, parseVars, EndOfRead, IsLast, AttributeLength, AttributeValue
<1> QED
    BY <1>1, <1>2, <1>3 DEF IInv

LEMMA PackedType ==
    ASSUME IInv
    PROVE  PackAttributes(m_attributes) \in Seq(Byte)
<1> QED
    BY PackedLies DEF IInv, TypeOK

LEMMA ToTlvIInv == IInv /\ ToTlv => IInv'
<1> SUFFICES ASSUME IInv, ToTlv PROVE IInv'
    OBVIOUS
<1> DEFINE made == [type |-> WscMessagingTlv, value |-> PackAttributes(m_attributes)]
<1>1. made \in Tlv /\ FitsTlv(made.value)
    BY PackedType, WscMessagingTlvAssumption DEF ToTlv, Tlv
<1>2. /\ tlv' = {made} /\ at' = "made" /\ at = "build"
      /\ UNCHANGED << m_attributes, added, calls, raw, ptr, parsed, offsets, own >>
    BY DEF ToTlv, parseVars
<1>3. ~own
    BY <1>2 DEF IInv, OwnIsRead
<1>4. TypeOK'
    BY <1>1, <1>2 DEF IInv, TypeOK, IsAttributes
<1>5. Fit(m_attributes)' /\ KeepsAdded' /\ MadeIsPacked' /\ OwnIsRead'
    BY <1>2, <1>3 DEF IInv, Fit, KeepsAdded, MadeIsPacked, OwnIsRead
<1>6. ReadSoFar'
    BY <1>2 DEF IInv, ReadSoFar, EndOfRead, IsLast, AttributeLength, AttributeValue
<1> QED
    BY <1>4, <1>5, <1>6 DEF IInv

-----------------------------------------------------------------------------
(* Reading a message keeps it *)

LEMMA EnterIInv ==
    ASSUME IInv, NEW data \in Seq(Byte), EnterParseAttributes(data),
           UNCHANGED buildVars, own' \in BOOLEAN, at # "length_error",
           own' => data = PackAttributes(m_attributes)
    PROVE  IInv'
<1>1. /\ raw' = data /\ ptr' = 1 /\ parsed' = Empty /\ offsets' = << >> /\ at' = "parse"
      /\ UNCHANGED << m_attributes, added, calls, tlv >>
    BY DEF EnterParseAttributes, buildVars
<1>2. DOMAIN parsed' = {}
    BY <1>1 DEF Empty
<1>3. ptr' \in 1 .. Len(raw') + 1 /\ offsets' \in Seq(1 .. Len(raw'))
    BY <1>1
<1>4. TypeOK'
    BY <1>1, <1>2, <1>3 DEF IInv, TypeOK, IsAttributes
<1>5. Fit(m_attributes)' /\ KeepsAdded' /\ MadeIsPacked'
    BY <1>1 DEF IInv, Fit, KeepsAdded, MadeIsPacked
<1>6. ASSUME own' PROVE IsReading'
    <2>1. PICK starts : MessageLies(data, m_attributes, starts)
        BY <1>6, PackedLies DEF IInv, TypeOK
    <2>2. starts[0 + 1] = 1
        BY <2>1 DEF MessageLies
    <2>3. HasRead(starts, 0)'
        BY <1>1, <1>2, <2>2 DEF HasRead
    <2>4. 0 \in 0 .. Cardinality(DOMAIN m_attributes)
        <3>1. Cardinality(DOMAIN m_attributes) \in Nat
            BY OrderOfKeys DEF IInv, TypeOK, IsAttributes
        <3> QED
            BY <3>1
    <2> QED
        BY <1>1, <2>1, <2>3, <2>4 DEF IsReading
<1>7. OwnIsRead'
    BY <1>1, <1>6 DEF OwnIsRead
<1>8. ReadSoFar'
    BY <1>1, <1>2 DEF ReadSoFar
<1> QED
    BY <1>4, <1>5, <1>7, <1>8 DEF IInv

LEMMA ReadOwnIInv == IInv /\ ReadOwn => IInv'
<1> SUFFICES ASSUME IInv, ReadOwn PROVE IInv'
    OBVIOUS
<1>1. PICK made \in tlv : EnterParseAttributes(made.value)
    BY DEF ReadOwn
<1>2. made.value \in Seq(Byte) /\ made.value = PackAttributes(m_attributes)
    BY DEF IInv, TypeOK, Tlv, MadeIsPacked
<1> QED
    BY <1>1, <1>2, EnterIInv DEF ReadOwn

LEMMA ReadForeignIInv == IInv /\ ReadForeign => IInv'
<1> SUFFICES ASSUME IInv, ReadForeign PROVE IInv'
    OBVIOUS
<1>1. PICK data \in Foreign : EnterParseAttributes(data)
    BY DEF ReadForeign
<1>2. data \in Seq(Byte)
    BY ForeignAssumption
<1> QED
    BY <1>1, <1>2, EnterIInv DEF ReadForeign

(***************************************************************************)
(* While a message that ToTlv made is read, and not at its end, the next   *)
(* attribute of the map lies at ptr.                                       *)
(***************************************************************************)
LEMMA NextOfOwn ==
    ASSUME IInv, ptr <= Len(raw),
           NEW starts, MessageLies(raw, m_attributes, starts),
           NEW n \in 0 .. Cardinality(DOMAIN m_attributes), HasRead(starts, n),
           NEW type, type = InOrder(DOMAIN m_attributes)[n + 1]
    PROVE  /\ n + 1 \in 1 .. Cardinality(DOMAIN m_attributes)
           /\ type \in DOMAIN m_attributes
           /\ LiesAt(raw, ptr, type, m_attributes[type])
           /\ starts[n + 1 + 1] = ptr + AttributeHeaderSize + Len(m_attributes[type])
<1>1. /\ Cardinality(DOMAIN m_attributes) \in Nat
      /\ InOrder(DOMAIN m_attributes)
            \in [1 .. Cardinality(DOMAIN m_attributes) -> DOMAIN m_attributes]
    BY OrderOfKeys DEF IInv, TypeOK, IsAttributes
<1>2. n # Cardinality(DOMAIN m_attributes)
    <2>1. ptr \in Nat /\ Len(raw) \in Nat
        BY DEF IInv, TypeOK
    <2>2. n = Cardinality(DOMAIN m_attributes) => ptr = Len(raw) + 1
        BY DEF HasRead, MessageLies
    <2> QED
        BY <2>1, <2>2
<1>3. n + 1 \in 1 .. Cardinality(DOMAIN m_attributes)
    BY <1>1, <1>2
<1> QED
    BY <1>1, <1>3 DEF HasRead, MessageLies

LEMMA LiesFits ==
    ASSUME NEW type, NEW value \in Seq(Byte), raw \in Seq(Byte),
           LiesAt(raw, ptr, type, value)
    PROVE  /\ AttributeHeaderFits /\ AttributeFits
           /\ AttributeLength(ptr) = Len(value)
           /\ AttributeValue(ptr) = value
<1>1. /\ ptr \in Nat /\ Len(raw) \in Nat /\ Len(value) \in Nat
      /\ ptr + 4 + Len(value) <= Len(raw) + 1
      /\ AttributeLength(ptr) = Len(value)
    BY DEF LiesAt, AttributeHeaderSize, AttributeLength
<1>2. AttributeHeaderFits /\ AttributeFits
    BY <1>1 DEF AttributeHeaderFits, AttributeFits, AttributeHeaderSize
<1> QED
    BY <1>1, <1>2 DEF LiesAt, AttributeValue

LEMMA ParseThrowsIInv == IInv /\ ParseThrows => IInv'
<1> SUFFICES ASSUME IInv, ParseThrows PROVE IInv'
    OBVIOUS
<1>1. ~own
    <2> SUFFICES ASSUME own PROVE FALSE
        BY DEF IInv, TypeOK
    <2>1. PICK starts : /\ MessageLies(raw, m_attributes, starts)
                        /\ \E n \in 0 .. Cardinality(DOMAIN m_attributes) : HasRead(starts, n)
        BY DEF IInv, OwnIsRead, IsReading
    <2>2. PICK n \in 0 .. Cardinality(DOMAIN m_attributes) : HasRead(starts, n)
        BY <2>1
    <2> DEFINE type == InOrder(DOMAIN m_attributes)[n + 1]
    <2>3. ptr <= Len(raw)
        BY DEF ParseThrows
    <2>4. type \in DOMAIN m_attributes /\ LiesAt(raw, ptr, type, m_attributes[type])
        BY <2>1, <2>2, <2>3, NextOfOwn
    <2> HIDE DEF type
    <2>5. m_attributes[type] \in Seq(Byte) /\ raw \in Seq(Byte)
        BY <2>4 DEF IInv, TypeOK, IsAttributes
    <2> QED
        BY <2>4, <2>5, LiesFits DEF ParseThrows
<1>2. calls' \in 0 .. MaxCalls
    BY DEF IInv, TypeOK, ParseThrows, buildVars
<1> QED
    BY <1>1, <1>2, KeepsIInv DEF ParseThrows, buildVars

LEMMA ParseReturnsIInv == IInv /\ ParseReturns => IInv'
<1> SUFFICES ASSUME IInv, ParseReturns PROVE IInv'
    OBVIOUS
<1>1. ptr = Len(raw) + 1
    <2>1. Len(raw) \in Nat /\ ptr \in 1 .. Len(raw) + 1 /\ ptr > Len(raw)
        BY DEF IInv, TypeOK, ParseReturns
    <2> QED
        BY <2>1
<1>2. calls' \in 0 .. MaxCalls
    BY DEF IInv, TypeOK, ParseReturns, buildVars
<1> QED
    BY <1>1, <1>2, KeepsIInv DEF ParseReturns, buildVars

LEMMA ParseAttributeIInv == IInv /\ ParseAttribute => IInv'
<1> SUFFICES ASSUME IInv, ParseAttribute PROVE IInv'
    OBVIOUS
<1> DEFINE type == Uint16At(raw, ptr)
           value == AttributeValue(ptr)
           length == AttributeLength(ptr)
<1>1. /\ UNCHANGED << m_attributes, added, calls, tlv, raw, own, at >>
      /\ parsed' = With(parsed, type, value)
      /\ offsets' = Append(offsets, ptr)
      /\ ptr' = ptr + AttributeHeaderSize + length
      /\ at = "parse" /\ ptr <= Len(raw) /\ AttributeFits
    BY DEF ParseAttribute, ParsedWith, buildVars
<1>2. /\ raw \in Seq(Byte) /\ Len(raw) \in Nat /\ ptr \in 1 .. Len(raw)
      /\ offsets \in Seq(1 .. Len(raw)) /\ IsAttributes(parsed)
    BY <1>1 DEF IInv, TypeOK
<1>3. /\ DOMAIN parsed' = DOMAIN parsed \union {type} /\ parsed'[type] = value
      /\ \A other \in DOMAIN parsed : other # type => parsed'[other] = parsed[other]
    BY <1>1 DEF With
<1>4. type \in Uint16 /\ length \in Nat /\ value \in Seq(Byte)
    <2>1. type \in Uint16 /\ length \in Nat
        <3>1. ptr \in Int /\ ptr + 2 \in Int
            BY <1>2
        <3> QED
            BY <1>2, <3>1, Uint16AtType, Uint16IsNat DEF AttributeLength
    <2>2. \A k \in 1 .. length : ByteAt(raw, ptr + AttributeHeaderSize + k - 1) \in Byte
        <3> SUFFICES ASSUME NEW k \in 1 .. length
                     PROVE  ByteAt(raw, ptr + AttributeHeaderSize + k - 1) \in Byte
            OBVIOUS
        <3>1. ptr + AttributeHeaderSize + k - 1 \in Int
            BY <1>2, <2>1 DEF AttributeHeaderSize
        <3> QED
            BY <1>2, <3>1, ByteAtType
    <2>3. value = [k \in 1 .. length |-> ByteAt(raw, ptr + AttributeHeaderSize + k - 1)]
        BY DEF AttributeValue, BytesAt
    <2> HIDE DEF value, length
    <2> QED
        BY <2>1, <2>2, <2>3
<1>5. TypeOK'
    <2>1. IsAttributes(parsed')
        BY <1>1, <1>2, <1>4, WithType
    <2>2. offsets' \in Seq(1 .. Len(raw))
        BY <1>1, <1>2
    <2>3. ptr' \in 1 .. Len(raw) + 1
        <3>1. Len(raw) + 1 - (ptr + 4) >= length
            BY <1>1 DEF AttributeFits, AttributeHeaderSize
        <3>2. ptr' = ptr + 4 + length
            BY <1>1 DEF AttributeHeaderSize
        <3> HIDE DEF length
        <3> QED
            BY <1>2, <1>4, <3>1, <3>2
    <2> QED
        BY <1>1, <2>1, <2>2, <2>3 DEF IInv, TypeOK, IsAttributes
<1> HIDE DEF type, value, length
<1>6. Fit(m_attributes)' /\ KeepsAdded' /\ MadeIsPacked'
    BY <1>1 DEF IInv, Fit, KeepsAdded, MadeIsPacked
<1>7. ASSUME own PROVE IsReading'
    <2>1. PICK starts : /\ MessageLies(raw, m_attributes, starts)
                        /\ \E n \in 0 .. Cardinality(DOMAIN m_attributes) : HasRead(starts, n)
        BY <1>7 DEF IInv, OwnIsRead, IsReading
    <2>2. PICK n \in 0 .. Cardinality(DOMAIN m_attributes) : HasRead(starts, n)
        BY <2>1
    <2> DEFINE order == InOrder(DOMAIN m_attributes)
               next == order[n + 1]
    <2>3. /\ n + 1 \in 1 .. Cardinality(DOMAIN m_attributes)
          /\ next \in DOMAIN m_attributes
          /\ LiesAt(raw, ptr, next, m_attributes[next])
          /\ starts[n + 1 + 1] = ptr + AttributeHeaderSize + Len(m_attributes[next])
        BY <1>1, <2>1, <2>2, NextOfOwn
    <2> HIDE DEF next
    <2>4. m_attributes[next] \in Seq(Byte)
        BY <2>3 DEF IInv, TypeOK, IsAttributes
    <2>5. type = next /\ value = m_attributes[next] /\ length = Len(m_attributes[next])
        <3>1. type = next
            BY <2>3 DEF LiesAt, type
        <3> QED
            BY <1>2, <2>3, <2>4, <3>1, LiesFits DEF value, length
    <2>6. ptr' = starts[n + 1 + 1]
        BY <1>1, <2>3, <2>5
    <2>7. DOMAIN parsed' = {order[k] : k \in 1 .. n + 1}
        <3>1. DOMAIN parsed = {order[k] : k \in 1 .. n}
            BY <2>2 DEF HasRead
        <3>2. 1 .. n + 1 = (1 .. n) \union {n + 1}
            BY <2>2
        <3> HIDE DEF order
        <3> QED
            BY <1>3, <2>5, <3>1, <3>2 DEF next
    <2>8. \A other \in DOMAIN parsed' : parsed'[other] = m_attributes[other]
        BY <1>3, <2>2, <2>5 DEF HasRead
    <2>9. HasRead(starts, n + 1)'
        BY <1>1, <2>6, <2>7, <2>8 DEF HasRead
    <2>10. n + 1 \in 0 .. Cardinality(DOMAIN m_attributes)
        BY <2>3
    <2> QED
        BY <1>1, <2>1, <2>9, <2>10 DEF IsReading
<1>8. OwnIsRead'
    BY <1>1, <1>7 DEF IInv, OwnIsRead
<1>9. ReadSoFar'
    <2> DEFINE n == Len(offsets)
    <2>1. /\ n \in Nat /\ Len(offsets') = n + 1 /\ offsets'[n + 1] = ptr
          /\ \A k \in 1 .. n : offsets'[k] = offsets[k]
          /\ offsets' # << >>
        BY <1>1, <1>2
    <2>2. offsets = << >> <=> n = 0
        BY <1>2
    <2> HIDE DEF n
    <2>3. offsets'[1] = 1
        <3>1. CASE n = 0
            BY <2>1, <2>2, <3>1 DEF IInv, ReadSoFar
        <3>2. CASE n # 0
            <4>1. 1 \in 1 .. n
                BY <2>1, <3>2
            <4> QED
                BY <2>1, <2>2, <3>2, <4>1 DEF IInv, ReadSoFar
        <3> QED
            BY <3>1, <3>2
    <2>4. 1 .. n + 1 = (1 .. n) \union {n + 1}
        BY <2>1
    <2>5. DOMAIN parsed' = {Uint16At(raw, offsets'[k]) : k \in 1 .. n + 1}
        <3>1. DOMAIN parsed = {Uint16At(raw, offsets[k]) : k \in 1 .. n}
            BY DEF IInv, ReadSoFar, n
        <3> QED
            BY <1>3, <2>1, <2>4, <3>1 DEF type
    <2>6. ASSUME NEW k \in 1 .. n + 1
          PROVE  /\ offsets'[k] + AttributeHeaderSize + AttributeLength(offsets'[k])
                        = (IF k = n + 1 THEN ptr' ELSE offsets'[k + 1])
                 /\ (\A j \in k + 1 .. n + 1 :
                        Uint16At(raw, offsets'[j]) # Uint16At(raw, offsets'[k]))
                    => parsed'[Uint16At(raw, offsets'[k])] = AttributeValue(offsets'[k])
        <3>1. CASE k = n + 1
            BY <1>1, <1>3, <2>1, <3>1 DEF type, value, length
        <3>2. CASE k # n + 1
            <4>1. k \in 1 .. n /\ offsets'[k] = offsets[k]
                BY <2>1, <3>2
            <4>2. /\ offsets[k] + AttributeHeaderSize + AttributeLength(offsets[k])
                        = (IF k = n THEN ptr ELSE offsets[k + 1])
                  /\ IsLast(k) =>
                        parsed[Uint16At(raw, offsets[k])] = AttributeValue(offsets[k])
                BY <4>1 DEF IInv, ReadSoFar, EndOfRead, n
            <4>3. offsets'[k + 1] = IF k = n THEN ptr ELSE offsets[k + 1]
                <5>1. CASE k = n
                    BY <2>1, <5>1
                <5>2. CASE k # n
                    <6>1. k + 1 \in 1 .. n
                        BY <2>1, <4>1, <5>2
                    <6> QED
                        BY <2>1, <5>2, <6>1
                <5> QED
                    BY <5>1, <5>2
            <4>4. ASSUME \A j \in k + 1 .. n + 1 :
                             Uint16At(raw, offsets'[j]) # Uint16At(raw, offsets'[k])
                  PROVE  parsed'[Uint16At(raw, offsets'[k])] = AttributeValue(offsets'[k])
                <5>1. IsLast(k)
                    <6>1. SUFFICES ASSUME NEW j \in k + 1 .. n
                                   PROVE  Uint16At(raw, offsets[j]) # Uint16At(raw, offsets[k])
                        BY DEF IsLast, n
                    <6>2. j \in k + 1 .. n + 1 /\ j \in 1 .. n
                        BY <2>1, <4>1
                    <6> QED
                        BY <2>1, <4>1, <4>4, <6>2
                <5>2. n + 1 \in k + 1 .. n + 1
                    BY <2>1, <4>1
                <5>3. Uint16At(raw, offsets[k]) # type
                    BY <2>1, <4>1, <4>4, <5>2 DEF type
                <5>4. Uint16At(raw, offsets[k]) \in DOMAIN parsed
                    BY <4>1 DEF IInv, ReadSoFar, n
                <5> QED
                    BY <1>3, <4>1, <4>2, <5>1, <5>3, <5>4
            <4> QED
                BY <3>2, <4>1, <4>2, <4>3, <4>4
        <3> QED
            BY <3>1, <3>2
    <2>7. at' # "return"
        BY <1>1
    <2>8. \A k : /\ AttributeLength(offsets[k])' = AttributeLength(offsets'[k])
                 /\ AttributeValue(offsets[k])' = AttributeValue(offsets'[k])
                 /\ Uint16At(raw, offsets[k])' = Uint16At(raw, offsets'[k])
        BY <1>1 DEF AttributeLength, AttributeValue
    <2>9. \A k : EndOfRead(k)' = IF k = n + 1 THEN ptr' ELSE offsets'[k + 1]
        BY <2>1 DEF EndOfRead
    <2>10. \A k : IsLast(k)' <=>
                     \A j \in k + 1 .. n + 1 :
                         Uint16At(raw, offsets'[j]) # Uint16At(raw, offsets'[k])
        BY <1>1, <2>1 DEF IsLast
    <2>11. \A k \in 1 .. n + 1 :
              /\ (offsets[k] + AttributeHeaderSize + AttributeLength(offsets[k]) = EndOfRead(k))'
              /\ (IsLast(k) => parsed[Uint16At(raw, offsets[k])] = AttributeValue(offsets[k]))'
        <3> SUFFICES ASSUME NEW k \in 1 .. n + 1
                     PROVE  /\ offsets'[k] + AttributeHeaderSize + AttributeLength(offsets[k])'
                                    = EndOfRead(k)'
                            /\ IsLast(k)' => parsed'[Uint16At(raw, offsets[k])']
                                                 = AttributeValue(offsets[k])'
            BY Zenon
        <3> QED
            BY <2>6, <2>8, <2>9, <2>10, Zenon
    <2>12. (DOMAIN parsed = {Uint16At(raw, offsets[k]) : k \in 1 .. Len(offsets)})'
        BY <1>1, <2>1, <2>5
    <2> QED
        BY <2>1, <2>3, <2>7, <2>11, <2>12, Zenon DEF ReadSoFar
<1> QED
    BY <1>1, <1>5, <1>6, <1>8, <1>9 DEF IInv

LEMMA NextIInv == IInv /\ [Next]_vars => IInv'
<1> SUFFICES ASSUME IInv, [Next]_vars PROVE IInv'
    OBVIOUS
<1>1. ASSUME NEW name \in Names, NEW value \in Values, AddAttributeThrows(name, value)
      PROVE  IInv'
    <2>1. calls \in Nat /\ MaxCalls \in Nat /\ calls' = calls + 1 /\ calls < MaxCalls
        BY <1>1, MaxCallsAssumption DEF IInv, TypeOK, AddAttributeThrows
    <2>2. calls' \in 0 .. MaxCalls
        BY <2>1
    <2>3. ~own
        BY <1>1 DEF IInv, OwnIsRead, AddAttributeThrows
    <2> QED
        BY <1>1, <2>2, <2>3, KeepsIInv DEF AddAttributeThrows
<1>2. CASE ToTlvThrows
    <2>1. calls' \in 0 .. MaxCalls /\ ~own
        BY <1>2 DEF IInv, TypeOK, OwnIsRead, ToTlvThrows, buildVars
    <2> QED
        BY <1>2, <2>1, KeepsIInv DEF ToTlvThrows, buildVars
<1>3. CASE UNCHANGED vars
    <2>1. TypeOK' /\ Fit(m_attributes)' /\ KeepsAdded' /\ MadeIsPacked'
        BY <1>3 DEF IInv, TypeOK, Fit, KeepsAdded, MadeIsPacked, vars, buildVars, parseVars,
                    IsAttributes
    <2>2. OwnIsRead'
        BY <1>3 DEF IInv, OwnIsRead, IsReading, HasRead, vars, buildVars, parseVars
    <2>3. ReadSoFar'
        BY <1>3 DEF IInv, ReadSoFar, vars, parseVars, EndOfRead, IsLast, AttributeLength,
                    AttributeValue
    <2> QED
        BY <2>1, <2>2, <2>3 DEF IInv
<1> QED
    BY <1>1, <1>2, <1>3, AddAttributeIInv, ToTlvIInv, ReadOwnIInv, ReadForeignIInv,
       ParseThrowsIInv, ParseAttributeIInv, ParseReturnsIInv
    DEF Next

THEOREM SpecIInv == Spec => []IInv
<1> QED
    BY InitIInv, NextIInv, PTL DEF Spec

-----------------------------------------------------------------------------
(* What follows from it *)

(***************************************************************************)
(* The maps hold bytes under 16-bit codes, and ParseAttributes never moves *)
(* its pointer past the end.                                               *)
(***************************************************************************)
THEOREM TypeCorrect == Spec => []TypeOK
<1> QED
    BY SpecIInv, PTL DEF IInv

(***************************************************************************)
(* For any attributes and values: a message that ToTlv made is not         *)
(* refused, and ToTlv refuses those that do not fit a TLV, and only those. *)
(***************************************************************************)
THEOREM OwnAreRead == Spec => []OwnMessagesAreRead
<1>1. IInv => OwnMessagesAreRead
    <2> SUFFICES ASSUME IInv PROVE OwnMessagesAreRead
        OBVIOUS
    <2>1. own => at # "runtime_error"
        BY DEF IInv, OwnIsRead
    <2>2. ASSUME at = "length_error" PROVE Len(PackAttributes(m_attributes)) >= Base * Base
        <3>1. Len(PackAttributes(m_attributes)) \in Nat /\ Base * Base \in Nat
            BY PackedType, BaseAssumption
        <3>2. Len(PackAttributes(m_attributes)) \notin Uint16
            BY <2>2 DEF IInv, MadeIsPacked, FitsTlv
        <3> QED
            BY <3>1, <3>2 DEF Uint16
    <2>3. ASSUME NEW made \in tlv PROVE GetLength(made) = Len(made.value)
        <3>1. Len(made.value) \in Nat /\ Len(made.value) < Base * Base /\ Base * Base \in Nat
            BY BaseAssumption DEF IInv, TypeOK, Tlv, FitsTlv, Uint16
        <3> QED
            BY <3>1, SmallModulo DEF GetLength
    <2> QED
        BY <2>1, <2>2, <2>3 DEF OwnMessagesAreRead
<1> QED
    BY <1>1, SpecIInv, PTL

(***************************************************************************)
(* For any bytes: a message that is read holds the attributes that lie in  *)
(* them from the first byte to the last, the last of those with one code.  *)
(***************************************************************************)
THEOREM ReadsTheBytes == Spec => []ReadsWhatTheBytesHold
<1>1. IInv => ReadsWhatTheBytesHold
    <2> SUFFICES ASSUME IInv, at = "return"
                 PROVE  /\ IF offsets = << >> THEN raw = << >> ELSE offsets[1] = 1
                        /\ DOMAIN parsed = {Uint16At(raw, offsets[k]) : k \in 1 .. Len(offsets)}
                        /\ \A k \in 1 .. Len(offsets) :
                              /\ offsets[k] + AttributeHeaderSize + AttributeLength(offsets[k])
                                    = (IF k = Len(offsets) THEN Len(raw) + 1
                                                           ELSE offsets[k + 1])
                              /\ (\A j \in k + 1 .. Len(offsets) :
                                     Uint16At(raw, offsets[j]) # Uint16At(raw, offsets[k]))
                                 => parsed[Uint16At(raw, offsets[k])]
                                        = AttributeValue(offsets[k])
        BY DEF ReadsWhatTheBytesHold
    <2>1. ptr = Len(raw) + 1 /\ Len(raw) \in Nat /\ raw \in Seq(Byte)
        BY DEF IInv, TypeOK, ReadSoFar
    <2>2. offsets = << >> => raw = << >>
        <3>1. offsets = << >> => Len(raw) = 0
            BY <2>1 DEF IInv, ReadSoFar
        <3> QED
            BY <2>1, <3>1
    <2> QED
        BY <2>1, <2>2 DEF IInv, ReadSoFar, EndOfRead, IsLast
<1> QED
    BY <1>1, SpecIInv, PTL

(***************************************************************************)
(* When a message that ToTlv made has been read, the reader has the map    *)
(* that was packed.                                                        *)
(***************************************************************************)
LEMMA OwnIsReadWhole ==
    ASSUME IInv, at = "return", own
    PROVE  /\ DOMAIN parsed = DOMAIN m_attributes
           /\ \A type \in DOMAIN m_attributes : parsed[type] = m_attributes[type]
<1> DEFINE keys == DOMAIN m_attributes
<1>1. PICK starts : /\ MessageLies(raw, m_attributes, starts)
                    /\ \E n \in 0 .. Cardinality(keys) : HasRead(starts, n)
    BY DEF IInv, OwnIsRead, IsReading
<1>2. PICK n \in 0 .. Cardinality(keys) : HasRead(starts, n)
    BY <1>1
<1>3. /\ Cardinality(keys) \in Nat
      /\ \A key \in keys : \E k \in 1 .. Cardinality(keys) : InOrder(keys)[k] = key
      /\ InOrder(keys) \in [1 .. Cardinality(keys) -> keys]
    BY OrderOfKeys DEF IInv, TypeOK, IsAttributes
<1>4. ptr = Len(raw) + 1 /\ Len(raw) \in Nat
    BY DEF IInv, TypeOK, ReadSoFar
<1>5. n = Cardinality(keys)
    <2> SUFFICES ASSUME n # Cardinality(keys) PROVE FALSE
        OBVIOUS
    <2> DEFINE type == InOrder(keys)[n + 1]
    <2>1. n + 1 \in 1 .. Cardinality(keys)
        BY <1>2, <1>3
    <2>2. LiesAt(raw, starts[n + 1], type, m_attributes[type]) /\ type \in keys
        BY <1>1, <1>3, <2>1 DEF MessageLies
    <2> HIDE DEF type
    <2>3. Len(m_attributes[type]) \in Nat
        BY <2>2 DEF IInv, TypeOK, IsAttributes
    <2>4. ptr + 4 + Len(m_attributes[type]) <= Len(raw) + 1
        BY <1>2, <2>2 DEF HasRead, LiesAt, AttributeHeaderSize
    <2> DEFINE length == Len(m_attributes[type])
    <2>5. length \in Nat /\ Len(raw) + 1 + 4 + length <= Len(raw) + 1
        BY <1>4, <2>3, <2>4
    <2> HIDE DEF length
    <2> QED
        BY <1>4, <2>5
<1>6. DOMAIN parsed = keys
    <2>1. DOMAIN parsed = {InOrder(keys)[k] : k \in 1 .. n}
        BY <1>2 DEF HasRead
    <2> HIDE DEF keys
    <2> QED
        BY <1>3, <1>5, <2>1
<1>7. \A type \in keys : parsed[type] = m_attributes[type]
    BY <1>2, <1>6 DEF HasRead
<1> QED
    BY <1>6, <1>7

(***************************************************************************)
(* For any attributes no two of which have one code, and any values: the   *)
(* receiver gets of each attribute what it was last given.                 *)
(***************************************************************************)
THEOREM ReadsTheAdded ==
    ASSUME DistinctCodes
    PROVE  Spec => []ReadsWhatWasAdded
<1>1. IInv => ReadsWhatWasAdded
    <2> SUFFICES ASSUME IInv, at = "return", own, NEW name \in Names
                 PROVE  GetAttributeValue(parsed, Attributes[name]) =
                            GetAttributeValue(added, name)
        BY DEF ReadsWhatWasAdded
    <2> DEFINE keys == DOMAIN m_attributes
               code == Attributes[name]
    <2>1. DOMAIN parsed = keys /\ \A type \in keys : parsed[type] = m_attributes[type]
        BY OwnIsReadWhole
    <2>2. code \in keys <=> name \in DOMAIN added
        <3>1. keys = {Attributes[other] : other \in DOMAIN added} /\ DOMAIN added \subseteq Names
            BY DEF IInv, KeepsAdded, TypeOK
        <3>2. \A other \in DOMAIN added : Attributes[other] = code => other = name
            BY <3>1, DistinctCodes DEF DistinctCodes
        <3> HIDE DEF keys
        <3> QED
            BY <3>1, <3>2
    <2>3. name \in DOMAIN added => m_attributes[code] = added[name]
        BY DEF IInv, KeepsAdded
    <2> HIDE DEF keys, code
    <2> QED
        BY <2>1, <2>2, <2>3 DEF GetAttributeValue, code
<1> QED
    BY <1>1, SpecIInv, PTL

=============================================================================
