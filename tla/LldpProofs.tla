----------------------------- MODULE LldpProofs -----------------------------
(***************************************************************************)
(* An LldpPdu, for every sequence of calls: what AddTlv takes fits the two *)
(* bytes of an LLDP TLV's header.                                          *)
(***************************************************************************)
EXTENDS Lldp, WireProofs

-----------------------------------------------------------------------------
(* Packing two fields into one number *)

LEMMA QuotientAndRest ==
    ASSUME NEW m \in Nat, NEW q \in Nat, NEW r \in Nat, r < m
    PROVE  (q * m + r) \div m = q /\ (q * m + r) % m = r
<1> DEFINE h == q * m + r
           d == h \div m
<1>1. m \in Nat /\ m > 0 /\ h \in Nat /\ q * m \in Nat
    OBVIOUS
<1>2. d \in Nat /\ h % m \in 0 .. m - 1 /\ h = m * d + (h % m)
    BY <1>1
<1>3. ~(d >= q + 1)
    <2>1. SUFFICES ASSUME d >= q + 1 PROVE FALSE
        OBVIOUS
    <2>2. m * d >= m * (q + 1)
        BY <1>1, <1>2, <2>1
    <2>3. m * (q + 1) = q * m + m
        BY <1>1
    <2> HIDE DEF d
    <2> QED
        BY <1>1, <1>2, <2>2, <2>3
<1>4. ~(d + 1 <= q)
    <2>1. SUFFICES ASSUME d + 1 <= q PROVE FALSE
        OBVIOUS
    <2>2. q * m >= (d + 1) * m
        BY <1>1, <1>2, <2>1
    <2>3. (d + 1) * m = m * d + m
        BY <1>1, <1>2
    <2> HIDE DEF d
    <2> QED
        BY <1>1, <1>2, <2>2, <2>3
<1>5. d = q
    BY <1>2, <1>3, <1>4
<1> QED
    BY <1>1, <1>2, <1>5

-----------------------------------------------------------------------------
(* The inductive invariant *)

(***************************************************************************)
(* Every TLV in the list passed the three tests of AddTlv, and its 16-bit  *)
(* length, which they look at, is that of its value.                       *)
(***************************************************************************)
Tested(tlv) ==
    /\ tlv.type # EndOfLldpdu
    /\ TypeFits(tlv)
    /\ LengthFits(tlv)

IInv ==
    /\ TypeOK
    /\ \A k \in 1 .. Len(m_tlvs) : Tested(m_tlvs[k])

LEMMA InitIInv == Init => IInv
    BY MaxCallsAssumption DEF Init, IInv, TypeOK

LEMMA TlvOfType ==
    ASSUME NEW type \in Types, NEW length \in Lengths
    PROVE  TlvOf(type, length) \in Tlv
<1>1. type \in Byte /\ length \in Nat /\ 1 \in Byte
    BY TypesAssumption, LengthsAssumption, BaseAssumption DEF Byte
<1>2. [k \in 1 .. length |-> 1] \in Seq(Byte)
    BY <1>1
<1> QED
    BY <1>1, <1>2 DEF TlvOf, Tlv

LEMMA TakesIInv ==
    ASSUME IInv, calls < MaxCalls, NEW tlv \in Tlv, Takes(tlv)
    PROVE  IInv'
<1>1. /\ m_tlvs \in Seq(Tlv) /\ Len(m_tlvs) \in Nat
      /\ m_tlvs' = Append(m_tlvs, tlv)
      /\ tlv.value \in Seq(Byte) /\ Len(tlv.value) \in Nat
    <2>1. m_tlvs \in Seq(Tlv) /\ m_tlvs' = Append(m_tlvs, tlv)
        BY DEF IInv, TypeOK, Takes
    <2>2. tlv.value \in Seq(Byte)
        BY DEF Tlv
    <2> QED
        BY <2>1, <2>2
<1>2. /\ m_tlvs' \in Seq(Tlv) /\ Len(m_tlvs') = Len(m_tlvs) + 1
      /\ m_tlvs'[Len(m_tlvs) + 1] = tlv
      /\ \A k \in 1 .. Len(m_tlvs) : m_tlvs'[k] = m_tlvs[k]
    BY <1>1
<1>3. GetLength(tlv) = Len(tlv.value)
    <2>1. Base * Base \in Nat /\ Len(tlv.value) < Base * Base
        BY <1>1, BaseAssumption DEF Takes, FitsTlv, Uint16
    <2> QED
        BY <1>1, <2>1, SmallModulo DEF GetLength
<1>4. Tested(tlv)
    BY DEF Takes, Tested
<1>5. \A k \in 1 .. Len(m_tlvs') :
          GetLength(m_tlvs'[k]) = Len(m_tlvs'[k].value) /\ Tested(m_tlvs'[k])
    <2>1. SUFFICES ASSUME NEW k \in 1 .. Len(m_tlvs')
                   PROVE  GetLength(m_tlvs'[k]) = Len(m_tlvs'[k].value) /\ Tested(m_tlvs'[k])
        OBVIOUS
    <2>2. CASE k = Len(m_tlvs) + 1
        BY <1>2, <1>3, <1>4, <2>2
    <2>3. CASE k \in 1 .. Len(m_tlvs)
        BY <1>2, <2>3 DEF IInv, TypeOK
    <2> QED
        BY <1>1, <1>2, <2>2, <2>3
<1>6. calls' \in 0 .. MaxCalls /\ thrown' = "none"
    <2>1. calls \in Nat /\ MaxCalls \in Nat /\ calls' = calls + 1 /\ thrown' = "none"
        BY MaxCallsAssumption DEF IInv, TypeOK, Takes
    <2> QED
        BY <2>1
<1> QED
    BY <1>2, <1>5, <1>6 DEF IInv, TypeOK

LEMMA NextIInv == IInv /\ [Next]_vars => IInv'
<1> SUFFICES ASSUME IInv, [Next]_vars PROVE IInv'
    OBVIOUS
<1>1. ASSUME calls < MaxCalls, NEW exception, Throw(exception),
             exception \in {"tlv_length_error", "invalid_argument", "length_error"}
      PROVE  IInv'
    <2>1. calls' \in 0 .. MaxCalls
        <3>1. calls \in Nat /\ MaxCalls \in Nat /\ calls' = calls + 1
            BY <1>1, MaxCallsAssumption DEF IInv, TypeOK, Throw
        <3> QED
            BY <1>1, <3>1
    <2> QED
        BY <1>1, <2>1 DEF IInv, TypeOK, Throw
<1>2. ASSUME calls < MaxCalls, NEW type \in Types, NEW length \in Lengths,
             Takes(TlvOf(type, length))
      PROVE  IInv'
    BY <1>2, TlvOfType, TakesIInv
<1>3. CASE UNCHANGED vars
    BY <1>3 DEF vars, IInv, TypeOK
<1> QED
    BY <1>1, <1>2, <1>3 DEF Next, ConstructorThrows, RefusesEnd, RefusesType, RefusesLength

THEOREM SpecIInv == Spec => []IInv
<1> QED
    BY InitIInv, NextIInv, PTL DEF Spec

-----------------------------------------------------------------------------
(* What follows from it *)

(***************************************************************************)
(* AddTlv keeps the list one of TLVs whose 16-bit length is their value's. *)
(***************************************************************************)
THEOREM TypeCorrect == Spec => []TypeOK
<1> QED
    BY SpecIInv, PTL DEF IInv

(***************************************************************************)
(* A TLV with a 7-bit type and a 9-bit length has a 16-bit header, from    *)
(* which both can be read.                                                 *)
(***************************************************************************)
LEMMA HeaderOfTested ==
    ASSUME NEW tlv \in Tlv, Tested(tlv), GetLength(tlv) = Len(tlv.value)
    PROVE  /\ PackedHeader(tlv) \in Uint16
           /\ PackedHeader(tlv) \div (MaxLength + 1) = tlv.type
           /\ PackedHeader(tlv) % (MaxLength + 1) = Len(tlv.value)
           /\ PackedHeader(tlv) >= MaxLength + 1
<1> DEFINE m == MaxLength + 1
           q == tlv.type
           r == Len(tlv.value)
<1>1. Base \in Nat /\ Base >= 2 /\ q \in Nat /\ r \in Nat
    BY BaseAssumption DEF Tlv, Byte
<1>2. m = 2 * Base /\ r < m /\ m \in Nat
    BY <1>1 DEF Tested, LengthFits, MaxLength
<1>3. q >= 1 /\ q <= Base \div 2 - 1
    BY <1>1 DEF Tested, TypeFits, EndOfLldpdu, OrganizationSpecific
<1>4. PackedHeader(tlv) = q * m + r
    BY DEF PackedHeader
<1>5. 2 * q + 2 <= Base
    BY <1>1, <1>3
<1> HIDE DEF m, q, r
<1>6. q * m + r < Base * Base
    <2>1. (2 * q + 2) * Base <= Base * Base
        BY <1>1, <1>5
    <2>2. (2 * q + 2) * Base = q * (2 * Base) + 2 * Base
        BY <1>1
    <2>3. q * (2 * Base) \in Nat /\ Base * Base \in Nat
        BY <1>1
    <2>4. q * m = q * (2 * Base)
        BY <1>2
    <2> QED
        BY <1>1, <1>2, <2>1, <2>2, <2>3, <2>4
<1>7. q * m >= m /\ q * m \in Nat
    <2>1. q * m = (q - 1) * m + m /\ (q - 1) * m >= 0
        BY <1>1, <1>2, <1>3
    <2> QED
        BY <1>1, <1>2, <2>1
<1>8. (q * m + r) \div m = q /\ (q * m + r) % m = r
    BY <1>1, <1>2, QuotientAndRest
<1>9. q * m + r \in Uint16
    <2>1. Base * Base \in Nat
        BY <1>1
    <2> QED
        BY <1>1, <1>6, <1>7, <2>1 DEF Uint16
<1>10. q * m + r >= m
    BY <1>1, <1>2, <1>7
<1> QED
    BY <1>4, <1>8, <1>9, <1>10 DEF m, q, r

(***************************************************************************)
(* For every byte size: no TLV that AddTlv takes overflows its header, and *)
(* none reads as END_OF_LLDPDU.                                            *)
(***************************************************************************)
THEOREM HeadersFit == Spec => []HeadersCanBePacked
<1> DEFINE end == [type |-> EndOfLldpdu, value |-> << >>]
<1>1. PackedHeader(end) = 0 /\ MaxLength + 1 > 0
    <2>1. Base * Base \in Nat /\ 0 < Base * Base /\ Base \in Nat /\ Base >= 2
        BY BaseAssumption
    <2>2. 0 % (Base * Base) = 0
        BY <2>1, SmallModulo
    <2> QED
        BY <2>1, <2>2 DEF PackedHeader, GetLength, EndOfLldpdu, MaxLength
<1>2. IInv => HeadersCanBePacked
    <2>1. SUFFICES ASSUME IInv, NEW k \in 1 .. Len(m_tlvs)
                   PROVE  /\ PackedHeader(m_tlvs[k]) \in Uint16
                          /\ PackedHeader(m_tlvs[k]) \div (MaxLength + 1) = m_tlvs[k].type
                          /\ PackedHeader(m_tlvs[k]) % (MaxLength + 1) = Len(m_tlvs[k].value)
                          /\ PackedHeader(m_tlvs[k]) # PackedHeader(end)
        BY DEF HeadersCanBePacked
    <2>2. /\ m_tlvs[k] \in Tlv /\ Tested(m_tlvs[k])
          /\ GetLength(m_tlvs[k]) = Len(m_tlvs[k].value)
        <3>1. m_tlvs \in Seq(Tlv)
            BY <2>1 DEF IInv, TypeOK
        <3>2. m_tlvs[k] \in Tlv
            BY <2>1, <3>1
        <3>3. Tested(m_tlvs[k]) /\ GetLength(m_tlvs[k]) = Len(m_tlvs[k].value)
            BY <2>1 DEF IInv, TypeOK
        <3> QED
            BY <3>2, <3>3
    <2> HIDE DEF end
    <2>3. MaxLength + 1 \in Nat
        BY BaseAssumption DEF MaxLength
    <2>4. PackedHeader(m_tlvs[k]) \in Nat
        BY <2>2, HeaderOfTested, BaseAssumption DEF Uint16
    <2> QED
        BY <1>1, <2>2, <2>3, <2>4, HeaderOfTested
<1> QED
    BY <1>2, SpecIInv, PTL

-----------------------------------------------------------------------------
(* The size of the packet *)

(* upTo[k] is total_size after k turns of the loop of GetPackedSize. *)
IsSizeUpTo(list, upTo, n) ==
    upTo = [k \in 0 .. n |->
               IF k = 0 THEN 0 ELSE upTo[k - 1] + LldpTlvHeaderSize + GetLength(list[k])]

LEMMA HasSizeUpTo ==
    ASSUME NEW list
    PROVE  \A n \in Nat : \E upTo : IsSizeUpTo(list, upTo, n)
<1> DEFINE S == {n \in Nat : \E upTo : IsSizeUpTo(list, upTo, n)}
<1>1. 0 \in S
    <2>1. IsSizeUpTo(list, [k \in 0 .. 0 |-> 0], 0)
        BY DEF IsSizeUpTo
    <2> QED
        BY <2>1
<1>2. ASSUME NEW n \in Nat, n \in S PROVE n + 1 \in S
    <2>1. PICK upTo : IsSizeUpTo(list, upTo, n)
        BY <1>2
    <2> DEFINE last == upTo[n] + LldpTlvHeaderSize + GetLength(list[n + 1])
               longer == [k \in 0 .. n + 1 |-> IF k = n + 1 THEN last ELSE upTo[k]]
    <2>2. /\ longer = [k \in 0 .. n + 1 |-> longer[k]]
          /\ longer[n + 1] = longer[n] + LldpTlvHeaderSize + GetLength(list[n + 1])
          /\ \A k \in 0 .. n : longer[k] = upTo[k]
        OBVIOUS
    <2>3. \A k \in 0 .. n : k # 0 => k - 1 \in 0 .. n
        OBVIOUS
    <2>4. \A k \in 0 .. n + 1 : k \in 0 .. n \/ (k = n + 1 /\ k # 0 /\ k - 1 = n)
        OBVIOUS
    <2> HIDE DEF longer, last
    <2>5. \A k \in 0 .. n :
             upTo[k] = IF k = 0 THEN 0
                       ELSE upTo[k - 1] + LldpTlvHeaderSize + GetLength(list[k])
        BY <2>1, Zenon DEF IsSizeUpTo
    <2>6. \A k \in 0 .. n + 1 :
             longer[k] = IF k = 0 THEN 0
                         ELSE longer[k - 1] + LldpTlvHeaderSize + GetLength(list[k])
        BY <2>2, <2>3, <2>4, <2>5
    <2>7. IsSizeUpTo(list, longer, n + 1)
        BY <2>2, <2>6, Zenon DEF IsSizeUpTo
    <2> QED
        BY <2>7
<1> HIDE DEF S
<1>3. \A n \in Nat : n \in S
    BY <1>1, <1>2, AllNumbers
<1> QED
    BY <1>3 DEF S

(***************************************************************************)
(* Each turn of the loop adds the number of bytes its TLV will have.       *)
(***************************************************************************)
LEMMA SizeIsLength ==
    ASSUME NEW list, NEW parts, NEW n \in Nat,
           \A k \in 1 .. n : /\ parts[k] \in Seq(Byte)
                             /\ Len(parts[k]) = LldpTlvHeaderSize + GetLength(list[k]),
           NEW size, IsSizeUpTo(list, size, n),
           NEW flat, IsFlatUpTo(parts, flat, n), n # 0
    PROVE  size[n] = Len(flat[n])
<1> DEFINE S == {k \in Nat : 1 <= k /\ k <= n =>
                    flat[k] \in Seq(Byte) /\ size[k] = Len(flat[k])}
<1>1. \A k \in 0 .. n :
         size[k] = IF k = 0 THEN 0
                   ELSE size[k - 1] + LldpTlvHeaderSize + GetLength(list[k])
    BY Zenon DEF IsSizeUpTo
<1>2. \A k \in 1 .. n :
         flat[k] = IF k = 1 THEN parts[k] ELSE flat[k - 1] \o parts[k]
    BY Zenon DEF IsFlatUpTo
<1>3. 0 \in S
    OBVIOUS
<1>4. ASSUME NEW k \in Nat, k \in S PROVE k + 1 \in S
    <2> SUFFICES ASSUME k + 1 <= n
                 PROVE  flat[k + 1] \in Seq(Byte) /\ size[k + 1] = Len(flat[k + 1])
        OBVIOUS
    <2>1. /\ k + 1 \in 0 .. n /\ k + 1 \in 1 .. n /\ k + 1 # 0 /\ k + 1 - 1 = k
          /\ k \in 0 .. n
        OBVIOUS
    <2>2. /\ parts[k + 1] \in Seq(Byte)
          /\ Len(parts[k + 1]) = LldpTlvHeaderSize + GetLength(list[k + 1])
        BY <2>1
    <2>3. size[k + 1] = size[k] + LldpTlvHeaderSize + GetLength(list[k + 1])
        BY <1>1, <2>1
    <2>4. GetLength(list[k + 1]) \in Int
        <3>1. Len(parts[k + 1]) \in Nat
            BY <2>2
        <3> QED
            BY BaseAssumption DEF GetLength
    <2>5. CASE k = 0
        <3>1. flat[k + 1] = parts[k + 1] /\ size[k] = 0
            BY <1>1, <1>2, <2>1, <2>5
        <3> QED
            BY <2>2, <2>3, <2>4, <3>1 DEF LldpTlvHeaderSize
    <2>6. CASE k # 0
        <3>1. flat[k] \in Seq(Byte) /\ size[k] = Len(flat[k])
            BY <1>4, <2>6
        <3>2. flat[k + 1] = flat[k] \o parts[k + 1]
            <4> DEFINE j == k + 1
            <4>1. j \in 1 .. n /\ j # 1 /\ j - 1 = k
                BY <2>6
            <4> HIDE DEF j
            <4>2. flat[j] = flat[j - 1] \o parts[j]
                BY <1>2, <4>1, Zenon
            <4>3. flat[j] = flat[k] \o parts[j]
                BY <4>1, <4>2, Zenon
            <4> QED
                BY <4>3, Zenon DEF j
        <3>3. \A s, t \in Seq(Byte) :
                 s \o t \in Seq(Byte) /\ Len(s \o t) = Len(s) + Len(t) /\ Len(s) \in Nat
            OBVIOUS
        <3>4. /\ flat[k + 1] \in Seq(Byte) /\ Len(flat[k]) \in Nat
              /\ Len(flat[k + 1]) = Len(flat[k]) + Len(parts[k + 1])
            BY <2>2, <3>1, <3>2, <3>3, Zenon
        <3>5. size[k + 1] = Len(flat[k + 1])
            <4> DEFINE length == GetLength(list[k + 1])
                       before == Len(flat[k])
            <4>1. /\ size[k + 1] = before + LldpTlvHeaderSize + length
                  /\ Len(flat[k + 1]) = before + (LldpTlvHeaderSize + length)
                BY <2>2, <2>3, <3>1, <3>4, Zenon
            <4>2. length \in Int /\ before \in Int /\ LldpTlvHeaderSize \in Int
                BY <2>4, <3>4 DEF LldpTlvHeaderSize
            <4> HIDE DEF length, before
            <4>3. before + LldpTlvHeaderSize + length = before + (LldpTlvHeaderSize + length)
                BY <4>2
            <4> QED
                BY <4>1, <4>3, Zenon
        <3> QED
            BY <3>4, <3>5, Zenon
    <2> QED
        BY <2>5, <2>6
<1>5. \A k \in S : 1 <= k /\ k <= n => size[k] = Len(flat[k])
    OBVIOUS
<1> HIDE DEF S
<1>6. \A k \in Nat : k \in S
    BY <1>3, <1>4, AllNumbers
<1>7. n \in S /\ 1 <= n /\ n <= n
    BY <1>6
<1> QED
    BY <1>5, <1>7

LEMMA SizeOfTlvsIsLength ==
    ASSUME NEW list \in Seq(Tlv),
           \A k \in 1 .. Len(list) : GetLength(list[k]) = Len(list[k].value)
    PROVE  SizeOfTlvs(list) =
               Len(FlattenSeq([k \in 1 .. Len(list) |-> TlvBytes(list[k])]))
<1> DEFINE n == Len(list)
           parts == [k \in 1 .. n |-> TlvBytes(list[k])]
           size == CHOOSE f : IsSizeUpTo(list, f, n)
           flat == CHOOSE f : IsFlatUpTo(parts, f, n)
<1>1. n \in Nat
    OBVIOUS
<1>2. \A k \in 1 .. n : /\ parts[k] \in Seq(Byte)
                        /\ Len(parts[k]) = LldpTlvHeaderSize + GetLength(list[k])
    <2> SUFFICES ASSUME NEW k \in 1 .. n
                 PROVE  /\ TlvBytes(list[k]) \in Seq(Byte)
                        /\ Len(TlvBytes(list[k])) = LldpTlvHeaderSize + GetLength(list[k])
        OBVIOUS
    <2>1. list[k] \in Tlv
        BY HasElement
    <2>2. list[k].value \in Seq(Byte) /\ Len(list[k].value) \in Nat
        BY <2>1 DEF Tlv
    <2>3. << 0, 0 >> \in Seq(Byte) /\ Len(<< 0, 0 >>) = 2
        BY BaseAssumption DEF Byte
    <2>4. GetLength(list[k]) = Len(list[k].value)
        OBVIOUS
    <2> QED
        BY <2>2, <2>3, <2>4 DEF TlvBytes, LldpTlvHeaderSize
<1>3. parts \in Seq(Seq(Byte)) /\ Len(parts) = n
    BY <1>1, <1>2
<1>4. SizeOfTlvs(list) = size[n]
    BY DEF SizeOfTlvs, IsSizeUpTo
<1>5. IsSizeUpTo(list, size, n)
    <2> HIDE DEF n
    <2>1. \E f : IsSizeUpTo(list, f, n)
        BY <1>1, HasSizeUpTo
    <2> QED
        BY <2>1, Zenon
<1> HIDE DEF parts
<1>6. IsFlatUpTo(parts, flat, n)
    <2> HIDE DEF n
    <2>1. \E f : IsFlatUpTo(parts, f, n)
        BY <1>1, HasFlatUpTo
    <2> QED
        BY <2>1, Zenon
<1>7. CASE n = 0
    <2>1. FlattenSeq(parts) = parts
        BY <1>3, <1>7 DEF FlattenSeq
    <2>2. size[0] = 0
        BY <1>5, <1>7 DEF IsSizeUpTo
    <2> QED
        BY <1>3, <1>4, <1>7, <2>1, <2>2 DEF parts
<1>8. CASE n # 0
    <2>1. FlattenSeq(parts) = flat[n]
        BY <1>3, <1>8, Zenon DEF FlattenSeq, IsFlatUpTo
    <2> HIDE DEF n, size, flat
    <2>2. size[n] = Len(flat[n])
        BY <1>1, <1>2, <1>5, <1>6, <1>8, SizeIsLength
    <2> QED
        BY <1>4, <2>1, <2>2 DEF parts, n
<1> QED
    BY <1>7, <1>8

(***************************************************************************)
(* GetPackedSize never throws, and what it returns is the number of bytes  *)
(* of the TLVs and of the END_OF_LLDPDU that the packet ends with.         *)
(***************************************************************************)
THEOREM SizeIsRight == Spec => []SizeIsThatOfTheBytes
<1>1. IInv => SizeIsThatOfTheBytes
    <2> SUFFICES ASSUME IInv PROVE SizeIsThatOfTheBytes
        OBVIOUS
    <2>1. ~PackedSizeThrows(m_tlvs)
        BY DEF IInv, Tested, PackedSizeThrows
    <2>2. /\ m_tlvs \in Seq(Tlv)
          /\ \A k \in 1 .. Len(m_tlvs) : GetLength(m_tlvs[k]) = Len(m_tlvs[k].value)
        BY DEF IInv, TypeOK
    <2>3. SizeOfTlvs(m_tlvs) =
              Len(FlattenSeq([k \in 1 .. Len(m_tlvs) |-> TlvBytes(m_tlvs[k])]))
        BY <2>2, SizeOfTlvsIsLength
    <2> QED
        BY <2>1, <2>3 DEF SizeIsThatOfTheBytes, GetPackedSize
<1> QED
    BY <1>1, SpecIInv, PTL

=============================================================================
