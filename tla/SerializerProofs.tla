-------------------------- MODULE SerializerProofs --------------------------
(***************************************************************************)
(* Pack, for every Base and every set of CMDUs: the two passes agree on    *)
(* the size, and the packet holds the CMDU.                                *)
(***************************************************************************)
EXTENDS Serializer, WireProofs

-----------------------------------------------------------------------------
(* Bytes *)

LEMMA TlvBytesAre ==
    ASSUME NEW tlv \in Tlv, FitsTlv(tlv.value)
    PROVE  /\ TlvBytes(tlv) \in Seq(Byte)
           /\ Len(TlvBytes(tlv)) = GetPacketSize(tlv)
           /\ TlvBytes(tlv)[1] = tlv.type
           /\ TlvBytes(tlv)[2] = HighByte(Len(tlv.value))
           /\ TlvBytes(tlv)[3] = LowByte(Len(tlv.value))
           /\ \A k \in 1 .. Len(tlv.value) : TlvBytes(tlv)[k + 3] = tlv.value[k]
<1> DEFINE v == tlv.value
           n == Len(v)
           front == << tlv.type, HighByte(n), LowByte(n) >>
<1>1. v \in Seq(Byte) /\ n \in Nat /\ tlv.type \in Byte /\ n \in Uint16
    BY DEF Tlv, FitsTlv
<1>2. GetLength(tlv) = n
    <2>1. Base * Base \in Nat /\ n < Base * Base
        BY <1>1, BaseAssumption DEF Uint16
    <2> QED
        BY <1>1, <2>1, SmallModulo DEF GetLength
<1>3. HighByte(n) \in Byte /\ LowByte(n) \in Byte
    BY <1>1, Uint16RoundTrip
<1>5. TlvBytes(tlv) = front \o v
    BY <1>2 DEF TlvBytes
<1>6. front \in Seq(Byte) /\ Len(front) = 3
    BY <1>1, <1>3
<1> HIDE DEF v, n
<1>7. /\ front \o v \in Seq(Byte) /\ Len(front \o v) = 3 + Len(v)
      /\ \A k \in 1 .. 3 : (front \o v)[k] = front[k]
      /\ \A k \in 1 .. Len(v) : (front \o v)[k + 3] = v[k]
    BY <1>1, <1>6
<1> QED
    BY <1>1, <1>5, <1>7 DEF v, n, GetPacketSize, TlvHeaderSize

LEMMA HeaderBytesAre ==
    ASSUME NEW h \in Header
    PROVE  /\ HeaderBytes(h) \in Seq(Byte)
           /\ HeaderBytes(h) = << CmduVersion, 0, HighByte(h.type), LowByte(h.type),
                                  HighByte(h.id), LowByte(h.id), h.fragment, h.flags >>
<1>1. /\ h.type \in Uint16 /\ h.id \in Uint16 /\ h.fragment \in Byte /\ h.flags \in Byte
      /\ CmduVersion \in Byte
    BY BaseAssumption DEF Header, CmduVersion, Byte
<1>2. HeaderBytes(h) = << CmduVersion, 0, HighByte(h.type), LowByte(h.type),
                          HighByte(h.id), LowByte(h.id), h.fragment, h.flags >>
    BY DEF HeaderBytes
<1> QED
    BY <1>1, <1>2, Uint16RoundTrip DEF CmduVersion

(***************************************************************************)
(* Writing puts the bytes where it says and leaves the others.             *)
(***************************************************************************)
LEMMA WrittenIs ==
    ASSUME NEW b \in Seq(Byte), NEW bytes \in Seq(Byte), NEW p \in Nat \ {0},
           p + Len(bytes) <= Len(b) + 1
    PROVE  /\ Written(b, p, bytes) \in Seq(Byte)
           /\ Len(Written(b, p, bytes)) = Len(b)
           /\ \A q \in Int : q < p => ByteAt(Written(b, p, bytes), q) = ByteAt(b, q)
           /\ \A k \in 1 .. Len(bytes) : ByteAt(Written(b, p, bytes), p + k - 1) = bytes[k]
<1> DEFINE w == Written(b, p, bytes)
<1>1. Len(b) \in Nat /\ Len(bytes) \in Nat
    OBVIOUS
<1>2. ASSUME NEW k \in 1 .. Len(b)
      PROVE  (IF k \in p .. p + Len(bytes) - 1 THEN bytes[k - p + 1] ELSE b[k]) \in Byte
    <2>1. CASE k \in p .. p + Len(bytes) - 1
        <3>1. k - p + 1 \in 1 .. Len(bytes)
            BY <1>1, <2>1
        <3> QED
            BY <2>1, <3>1
    <2>2. CASE k \notin p .. p + Len(bytes) - 1
        BY <2>2
    <2> QED
        BY <2>1, <2>2
<1>3. w \in Seq(Byte) /\ Len(w) = Len(b)
    BY <1>1, <1>2 DEF Written
<1>4. \A k \in 1 .. Len(b) :
          w[k] = IF k \in p .. p + Len(bytes) - 1 THEN bytes[k - p + 1] ELSE b[k]
    BY DEF Written
<1> HIDE DEF w
<1>5. ASSUME NEW q \in Int, q < p
      PROVE  ByteAt(w, q) = ByteAt(b, q)
    BY <1>1, <1>3, <1>4, <1>5 DEF ByteAt
<1>6. ASSUME NEW k \in 1 .. Len(bytes)
      PROVE  ByteAt(w, p + k - 1) = bytes[k]
    <2>1. /\ p + k - 1 \in 1 .. Len(b) /\ p + k - 1 \in p .. p + Len(bytes) - 1
          /\ (p + k - 1) - p + 1 = k
        BY <1>1
    <2> QED
        BY <1>3, <1>4, <2>1 DEF ByteAt
<1> QED
    BY <1>3, <1>5, <1>6 DEF w

(***************************************************************************)
(* A TLV that has been written can be read again.                          *)
(***************************************************************************)
LEMMA TlvWritten ==
    ASSUME NEW b \in Seq(Byte), NEW tlv \in Tlv, FitsTlv(tlv.value), NEW p \in Nat \ {0},
           p + GetPacketSize(tlv) <= Len(b) + 1
    PROVE  /\ TlvAt(Written(b, p, TlvBytes(tlv)), p) = tlv
           /\ EndOfTlvAt(Written(b, p, TlvBytes(tlv)), p) = p + GetPacketSize(tlv)
<1> DEFINE w == Written(b, p, TlvBytes(tlv))
           n == Len(tlv.value)
<1>1. /\ tlv.value \in Seq(Byte) /\ n \in Nat /\ n \in Uint16
      /\ TlvBytes(tlv) \in Seq(Byte) /\ Len(TlvBytes(tlv)) = 3 + n
    BY TlvBytesAre DEF Tlv, FitsTlv, GetPacketSize, TlvHeaderSize
<1>2. \A k \in 1 .. 3 + n : ByteAt(w, p + k - 1) = TlvBytes(tlv)[k]
    BY <1>1, WrittenIs DEF GetPacketSize, TlvHeaderSize
<1> HIDE DEF w
<1>3. /\ ByteAt(w, p) = tlv.type
      /\ ByteAt(w, p + 1) = HighByte(n)
      /\ ByteAt(w, p + 2) = LowByte(n)
    <2>1. /\ ByteAt(w, p + 1 - 1) = TlvBytes(tlv)[1]
          /\ ByteAt(w, p + 2 - 1) = TlvBytes(tlv)[2]
          /\ ByteAt(w, p + 3 - 1) = TlvBytes(tlv)[3]
        <3>1. 1 \in 1 .. 3 + n /\ 2 \in 1 .. 3 + n /\ 3 \in 1 .. 3 + n
            BY <1>1
        <3> HIDE DEF n
        <3> QED
            BY <1>2, <3>1
    <2>2. p + 1 - 1 = p /\ p + 2 - 1 = p + 1 /\ p + 3 - 1 = p + 2
        OBVIOUS
    <2> QED
        BY <2>1, <2>2, TlvBytesAre
<1>4. LengthAt(w, p) = n
    <2>1. p + 1 + 1 = p + 2
        OBVIOUS
    <2> QED
        BY <1>1, <1>3, <2>1, Uint16RoundTrip DEF LengthAt, Uint16At
<1>5. \A k \in 1 .. n : ByteAt(w, p + 3 + k - 1) = tlv.value[k]
    <2> TAKE k \in 1 .. n
    <2>1. ByteAt(w, p + (k + 3) - 1) = TlvBytes(tlv)[k + 3]
        BY <1>1, <1>2
    <2>2. p + (k + 3) - 1 = p + 3 + k - 1
        BY <1>1
    <2> QED
        BY <2>1, <2>2, TlvBytesAre
<1>6. ValueAt(w, p) = tlv.value
    <2>1. tlv.value = [k \in 1 .. n |-> tlv.value[k]]
        BY <1>1
    <2>2. ValueAt(w, p) = [k \in 1 .. n |-> ByteAt(w, p + 3 + k - 1)]
        BY <1>4 DEF ValueAt, BytesAt, TlvHeaderSize
    <2>3. [k \in 1 .. n |-> ByteAt(w, p + 3 + k - 1)] = [k \in 1 .. n |-> tlv.value[k]]
        BY <1>5
    <2> QED
        BY <2>1, <2>2, <2>3
<1> QED
    BY <1>1, <1>3, <1>4, <1>6
       DEF w, TlvAt, EndOfTlvAt, GetPacketSize, TlvHeaderSize, Tlv

-----------------------------------------------------------------------------
(* The inductive invariant *)

Fit == {tlv \in Tlv : FitsTlv(tlv.value)}

Packed == Terminated(cmdu.tlvs)

(* The first pass has made room for the TLVs one after the other. *)
RoomForEach ==
    /\ Len(offsets) = IF at = "size" THEN i ELSE Len(Packed) + 1
    /\ offsets[1] = CmduHeaderSize + 1
    /\ \A k \in 1 .. Len(offsets) - 1 :
          offsets[k + 1] = offsets[k] + GetPacketSize(Packed[k])
    /\ offsets[Len(offsets)] = total_size + 1

InOrder ==
    \A j, k \in 1 .. Len(offsets) : j <= k => offsets[j] <= offsets[k]

(* The second pass is where the first made room. *)
PtrFollows ==
    /\ at = "header" => ptr = 1
    /\ at = "tlvs" => ptr = offsets[i]
    /\ at = "return" => ptr = total_size + 1

HeaderWritten ==
    at \in {"tlvs", "return"} =>
        /\ ByteAt(buffer, 1) = CmduVersion /\ ByteAt(buffer, 2) = 0
        /\ HeaderAt(buffer) = cmdu.header

Lies(k) ==
    /\ TlvAt(buffer, offsets[k]) = Packed[k]
    /\ EndOfTlvAt(buffer, offsets[k]) = offsets[k + 1]

TlvsWritten ==
    /\ at = "tlvs" => \A k \in 1 .. i - 1 : Lies(k)
    /\ at = "return" => \A k \in 1 .. Len(Packed) : Lies(k)

IInv ==
    /\ TypeOK
    /\ RoomForEach
    /\ InOrder
    /\ PtrFollows
    /\ HeaderWritten
    /\ TlvsWritten

-----------------------------------------------------------------------------
(* The steps *)

(***************************************************************************)
(* The TLVs of the packet are those of the CMDU, with an END_OF_MESSAGE if *)
(* they have none at their end; each fits a TLV's length field.            *)
(***************************************************************************)
LEMMA PackedAre ==
    ASSUME cmdu \in Cmdu
    PROVE  /\ cmdu.tlvs \in Seq(Fit) /\ Len(cmdu.tlvs) \in Nat
           /\ cmdu.header \in Header
           /\ Packed \in Seq(Fit)
           /\ Len(Packed) = IF AppendEndOfMessage
                            THEN Len(cmdu.tlvs) + 1 ELSE Len(cmdu.tlvs)
           /\ \A k \in 1 .. Len(cmdu.tlvs) : Packed[k] = cmdu.tlvs[k]
           /\ AppendEndOfMessage => Packed[Len(cmdu.tlvs) + 1] = EndTlv
           /\ EndTlv \in Fit
<1>1. cmdu.tlvs \in Seq(Fit) /\ Len(cmdu.tlvs) \in Nat /\ cmdu.header \in Header
    BY DEF Cmdu, Fit
<1>2. EndTlv \in Fit
    <2>1. EndTlv \in Tlv
        BY BaseAssumption DEF EndTlv, Tlv, EndOfMessage, Byte
    <2>2. 0 \in Uint16
        BY BaseAssumption DEF Uint16
    <2> QED
        BY <2>1, <2>2 DEF Fit, FitsTlv, EndTlv
<1>3. CASE AppendEndOfMessage
    <2>1. Packed = Append(cmdu.tlvs, EndTlv)
        BY <1>3 DEF Packed, Terminated, AppendEndOfMessage
    <2> QED
        BY <1>1, <1>2, <1>3, <2>1
<1>4. CASE ~AppendEndOfMessage
    <2>1. Packed = cmdu.tlvs
        BY <1>4 DEF Packed, Terminated, AppendEndOfMessage
    <2> QED
        BY <1>1, <1>2, <1>4, <2>1
<1> QED
    BY <1>3, <1>4

LEMMA GetPacketSizeIsNat ==
    ASSUME NEW tlv \in Tlv
    PROVE  GetPacketSize(tlv) \in Nat
<1> QED
    BY DEF Tlv, GetPacketSize, TlvHeaderSize

LEMMA EnteredIInv ==
    ASSUME NEW c \in Cmdu, EnteredWith(c)
    PROVE  IInv
<1>1. Len(c.tlvs) \in Nat
    BY DEF Cmdu
<1>2. TypeOK
    BY <1>1 DEF EnteredWith, TypeOK, Points, CmduHeaderSize
<1> QED
    BY <1>2 DEF EnteredWith, IInv, RoomForEach, InOrder, PtrFollows, HeaderWritten,
                TlvsWritten, CmduHeaderSize

(***************************************************************************)
(* The same of a call, for the modules that compose Pack with its caller.  *)
(***************************************************************************)
LEMMA EnterIInv ==
    ASSUME NEW c \in Cmdu, Enter(c)
    PROVE  IInv'
<1>1. Len(c.tlvs) \in Nat
    BY DEF Cmdu
<1>2. TypeOK'
    BY <1>1 DEF Enter, TypeOK, Points, CmduHeaderSize
<1> QED
    BY <1>2 DEF Enter, IInv, RoomForEach, InOrder, PtrFollows, HeaderWritten,
                TlvsWritten, CmduHeaderSize

LEMMA InitIInv == Init => IInv
<1> QED
    BY EnteredIInv, CmdusAssumption DEF Init

(***************************************************************************)
(* Making room for one more TLV, in either part of the first pass.         *)
(***************************************************************************)
LEMMA MoreRoom ==
    ASSUME NEW tlv \in Tlv, offsets \in Seq(Nat), total_size \in Nat,
           Len(offsets) >= 1, InOrder, offsets[Len(offsets)] = total_size + 1,
           total_size' = total_size + GetPacketSize(tlv),
           offsets' = Append(offsets, total_size' + 1)
    PROVE  /\ total_size' \in Nat /\ offsets' \in Seq(Nat)
           /\ Len(offsets') = Len(offsets) + 1
           /\ \A k \in 1 .. Len(offsets) : offsets'[k] = offsets[k]
           /\ offsets'[Len(offsets')] = total_size' + 1
           /\ offsets'[Len(offsets) + 1] = offsets[Len(offsets)] + GetPacketSize(tlv)
           /\ InOrder'
<1> DEFINE n == Len(offsets)
<1>1. GetPacketSize(tlv) \in Nat /\ n \in Nat
    BY GetPacketSizeIsNat
<1>2. total_size' \in Nat
    BY <1>1
<1>3. /\ offsets' \in Seq(Nat) /\ Len(offsets') = n + 1
      /\ \A k \in 1 .. n : offsets'[k] = offsets[k]
      /\ offsets'[n + 1] = total_size' + 1
    BY <1>1, <1>2
<1>4. total_size' + 1 = offsets[n] + GetPacketSize(tlv)
    BY <1>1
<1>5. ASSUME NEW j \in 1 .. n + 1, NEW k \in 1 .. n + 1, j <= k
      PROVE  offsets'[j] <= offsets'[k]
    <2>1. CASE k \in 1 .. n
        <3>1. j \in 1 .. n
            BY <1>1, <1>5, <2>1
        <3> QED
            BY <1>3, <1>5, <2>1, <3>1 DEF InOrder
    <2>2. CASE k = n + 1 /\ j \in 1 .. n
        <3>1. offsets[j] <= offsets[n] /\ offsets[j] \in Nat /\ offsets[n] \in Nat
            BY <1>1, <2>2 DEF InOrder
        <3> QED
            BY <1>1, <1>3, <1>4, <2>2, <3>1
    <2>3. CASE k = n + 1 /\ j = n + 1
        BY <1>2, <1>3, <2>3
    <2>4. k \in 1 .. n \/ (k = n + 1 /\ j \in 1 .. n) \/ (k = n + 1 /\ j = n + 1)
        BY <1>1, <1>5
    <2> QED
        BY <2>1, <2>2, <2>3, <2>4
<1>6. InOrder'
    BY <1>3, <1>5 DEF InOrder
<1> QED
    BY <1>1, <1>2, <1>3, <1>4, <1>6

LEMMA AddSizeIInv ==
    ASSUME IInv, AddSize
    PROVE  IInv'
<1> USE DEF AddSize
<1> DEFINE tlv == cmdu.tlvs[i]
<1>1. /\ cmdu \in Cmdu /\ i \in 1 .. Len(cmdu.tlvs) /\ i \in Nat
      /\ total_size \in Nat /\ offsets \in Seq(Nat)
    BY DEF IInv, TypeOK
<1>2. /\ Len(offsets) = i /\ offsets[1] = CmduHeaderSize + 1
      /\ offsets[Len(offsets)] = total_size + 1 /\ InOrder
      /\ \A k \in 1 .. Len(offsets) - 1 :
          offsets[k + 1] = offsets[k] + GetPacketSize(Packed[k])
    BY DEF IInv, RoomForEach
<1>3. tlv \in Tlv /\ tlv = Packed[i] /\ Len(cmdu.tlvs) \in Nat
    BY <1>1, PackedAre DEF Fit
<1>4. Packed' = Packed
    BY DEF Packed
<1>5. /\ total_size' \in Nat /\ offsets' \in Seq(Nat)
      /\ Len(offsets') = i + 1
      /\ \A k \in 1 .. i : offsets'[k] = offsets[k]
      /\ offsets'[Len(offsets')] = total_size' + 1
      /\ offsets'[i + 1] = offsets[i] + GetPacketSize(tlv)
      /\ InOrder'
    BY <1>1, <1>2, <1>3, MoreRoom
<1>6. TypeOK'
    <2>1. i' \in 1 .. Len(cmdu'.tlvs) + 1
        BY <1>1, <1>3
    <2> QED
        BY <1>5, <2>1 DEF IInv, TypeOK
<1>7. RoomForEach'
    <2>1. \A k \in 1 .. i : offsets'[k + 1] = offsets'[k] + GetPacketSize(Packed[k])
        <3> TAKE k \in 1 .. i
        <3>1. CASE k = i
            BY <1>3, <1>5, <3>1
        <3>2. CASE k # i
            <4>1. k \in 1 .. i - 1 /\ k + 1 \in 1 .. i
                BY <1>1, <3>2
            <4> QED
                BY <1>2, <1>5, <4>1
        <3> QED
            BY <3>1, <3>2
    <2>2. i + 1 - 1 = i /\ 1 \in 1 .. i
        BY <1>1
    <2> QED
        BY <1>2, <1>4, <1>5, <2>1, <2>2 DEF RoomForEach
<1> QED
    BY <1>5, <1>6, <1>7 DEF IInv, PtrFollows, HeaderWritten, TlvsWritten

LEMMA AddEndSizeIInv ==
    ASSUME IInv, AddEndSize
    PROVE  IInv'
<1> USE DEF AddEndSize
<1> DEFINE n == Len(cmdu.tlvs)
<1>1. /\ cmdu \in Cmdu /\ n \in Nat /\ i \in 1 .. n + 1 /\ i = n + 1
      /\ total_size \in Nat /\ offsets \in Seq(Nat)
    <2>1. cmdu \in Cmdu /\ i \in 1 .. n + 1
        BY DEF IInv, TypeOK
    <2>2. n \in Nat
        BY <2>1, PackedAre
    <2> QED
        BY <2>1, <2>2 DEF IInv, TypeOK
<1>2. /\ Len(offsets) = n + 1 /\ offsets[1] = CmduHeaderSize + 1
      /\ offsets[Len(offsets)] = total_size + 1 /\ InOrder
      /\ \A k \in 1 .. Len(offsets) - 1 :
          offsets[k + 1] = offsets[k] + GetPacketSize(Packed[k])
    BY <1>1 DEF IInv, RoomForEach
<1>3. Packed' = Packed
    BY DEF Packed
<1>4. CASE AppendEndOfMessage
    <2>1. /\ Len(Packed) = n + 1 /\ Packed[n + 1] = EndTlv /\ EndTlv \in Tlv
          /\ GetPacketSize(EndTlv) = TlvHeaderSize
        BY <1>1, <1>4, PackedAre DEF Fit, GetPacketSize, EndTlv, TlvHeaderSize
    <2>2. /\ total_size' \in Nat /\ offsets' \in Seq(Nat)
          /\ Len(offsets') = n + 2
          /\ \A k \in 1 .. n + 1 : offsets'[k] = offsets[k]
          /\ offsets'[Len(offsets')] = total_size' + 1
          /\ offsets'[n + 2] = offsets[n + 1] + GetPacketSize(EndTlv)
          /\ InOrder'
        <3>1. /\ total_size' = total_size + GetPacketSize(EndTlv)
              /\ offsets' = Append(offsets, total_size' + 1)
            BY <1>4, <2>1
        <3>2. Len(offsets) >= 1 /\ n + 1 + 1 = n + 2
            BY <1>1, <1>2
        <3> QED
            BY <1>1, <1>2, <2>1, <3>1, <3>2, MoreRoom
    <2>3. TypeOK'
        BY <2>2 DEF IInv, TypeOK, Points
    <2>4. \A k \in 1 .. n + 1 : offsets'[k + 1] = offsets'[k] + GetPacketSize(Packed[k])
        <3> TAKE k \in 1 .. n + 1
        <3>1. CASE k = n + 1
            <4>1. k + 1 = n + 2
                BY <1>1, <3>1
            <4> QED
                BY <2>1, <2>2, <3>1, <4>1
        <3>2. CASE k # n + 1
            <4>1. k \in 1 .. Len(offsets) - 1 /\ k + 1 \in 1 .. n + 1
                BY <1>1, <1>2, <3>2
            <4> QED
                BY <1>2, <2>2, <4>1
        <3> QED
            BY <3>1, <3>2
    <2>5. RoomForEach'
        <3>1. n + 2 - 1 = n + 1 /\ 1 \in 1 .. n + 1 /\ n + 2 = Len(Packed) + 1
            BY <1>1, <2>1
        <3> QED
            BY <1>2, <1>3, <2>2, <2>4, <3>1 DEF RoomForEach
    <2> QED
        BY <2>2, <2>3, <2>5 DEF IInv, PtrFollows, HeaderWritten, TlvsWritten
<1>5. CASE ~AppendEndOfMessage
    <2>1. Len(Packed) = n
        BY <1>1, <1>5, PackedAre
    <2>2. TypeOK'
        BY <1>5 DEF IInv, TypeOK, Points
    <2>3. RoomForEach'
        BY <1>2, <1>3, <1>5, <2>1 DEF RoomForEach
    <2>4. InOrder'
        BY <1>2, <1>5 DEF InOrder
    <2> QED
        BY <2>2, <2>3, <2>4 DEF IInv, PtrFollows, HeaderWritten, TlvsWritten
<1> QED
    BY <1>4, <1>5

LEMMA AllocateIInv ==
    ASSUME IInv, Allocate
    PROVE  IInv'
<1> USE DEF Allocate
<1>1. total_size \in Nat /\ 0 \in Byte
    BY BaseAssumption DEF IInv, TypeOK, Byte
<1>2. buffer' \in Seq(Byte) /\ Len(buffer') = total_size
    BY <1>1
<1>3. TypeOK'
    BY <1>2 DEF IInv, TypeOK, Points
<1>4. RoomForEach' /\ InOrder'
    BY DEF IInv, RoomForEach, InOrder, Packed
<1> QED
    BY <1>2, <1>3, <1>4 DEF IInv, PtrFollows, HeaderWritten, TlvsWritten

(***************************************************************************)
(* Once the first pass is over the TLVs it made room for lie between the   *)
(* header and the end.                                                     *)
(***************************************************************************)
LEMMA RoomIsInside ==
    ASSUME IInv, at # "size", NEW k \in 1 .. Len(Packed)
    PROVE  /\ k \in Nat /\ Len(Packed) \in Nat /\ Packed[k] \in Fit
           /\ offsets[k] \in Nat /\ offsets[k + 1] \in Nat
           /\ CmduHeaderSize + 1 <= offsets[k]
           /\ offsets[k + 1] = offsets[k] + GetPacketSize(Packed[k])
           /\ offsets[k + 1] <= total_size + 1
<1> DEFINE m == Len(Packed)
<1>1. /\ offsets \in Seq(Nat) /\ cmdu \in Cmdu
      /\ Len(offsets) = m + 1
      /\ offsets[1] = CmduHeaderSize + 1 /\ offsets[m + 1] = total_size + 1
    BY DEF IInv, TypeOK, RoomForEach
<1>2. m \in Nat /\ Packed \in Seq(Fit)
    BY <1>1, PackedAre
<1>3. k \in 1 .. m + 1 /\ k + 1 \in 1 .. m + 1 /\ 1 \in 1 .. m + 1 /\ m + 1 \in 1 .. m + 1
    BY <1>2
<1>4. offsets[1] <= offsets[k] /\ offsets[k + 1] <= offsets[m + 1]
    BY <1>1, <1>3, <1>2 DEF IInv, InOrder
<1>5. offsets[k + 1] = offsets[k] + GetPacketSize(Packed[k])
    BY <1>1, <1>2 DEF IInv, RoomForEach
<1> QED
    BY <1>1, <1>2, <1>3, <1>4, <1>5

LEMMA EnoughForTheHeader ==
    ASSUME IInv, at # "size"
    PROVE  total_size >= CmduHeaderSize
<1>1. /\ offsets \in Seq(Nat) /\ cmdu \in Cmdu /\ total_size \in Nat
      /\ Len(offsets) = Len(Packed) + 1
      /\ offsets[1] = CmduHeaderSize + 1 /\ offsets[Len(offsets)] = total_size + 1
    BY DEF IInv, TypeOK, RoomForEach
<1>2. Len(Packed) \in Nat
    BY <1>1, PackedAre
<1>3. 1 \in 1 .. Len(offsets) /\ Len(offsets) \in 1 .. Len(offsets)
    BY <1>1, <1>2
<1>4. offsets[1] <= offsets[Len(offsets)]
    BY <1>1, <1>2, <1>3 DEF IInv, InOrder
<1> QED
    BY <1>1, <1>4 DEF CmduHeaderSize

LEMMA WriteHeaderIInv ==
    ASSUME IInv, WriteHeader
    PROVE  IInv'
<1> USE DEF WriteHeader
<1> DEFINE h == cmdu.header
           bytes == HeaderBytes(h)
<1>1. /\ cmdu \in Cmdu /\ h \in Header /\ buffer \in Seq(Byte) /\ total_size \in Nat
      /\ ptr = 1 /\ Len(buffer) = total_size /\ total_size >= 8
      /\ Len(cmdu.tlvs) \in Nat
    BY PackedAre, EnoughForTheHeader DEF IInv, TypeOK, PtrFollows, CmduHeaderSize
<1>2. /\ bytes \in Seq(Byte) /\ Len(bytes) = 8
      /\ bytes = << CmduVersion, 0, HighByte(h.type), LowByte(h.type),
                    HighByte(h.id), LowByte(h.id), h.fragment, h.flags >>
    BY <1>1, HeaderBytesAre
<1>3. /\ buffer' \in Seq(Byte) /\ Len(buffer') = total_size
      /\ \A k \in 1 .. 8 : ByteAt(buffer', 1 + k - 1) = bytes[k]
    <2>1. buffer' = Written(buffer, 1, bytes)
        BY <1>1
    <2>2. bytes \in Seq(Byte) /\ Len(bytes) = 8 /\ 1 + Len(bytes) <= Len(buffer) + 1
        BY <1>1, <1>2
    <2>3. 1 \in Nat \ {0} /\ buffer \in Seq(Byte) /\ Len(buffer) = total_size
        BY <1>1
    <2> HIDE DEF bytes
    <2>4. /\ Written(buffer, 1, bytes) \in Seq(Byte)
          /\ Len(Written(buffer, 1, bytes)) = Len(buffer)
          /\ \A k \in 1 .. Len(bytes) :
                ByteAt(Written(buffer, 1, bytes), 1 + k - 1) = bytes[k]
        BY <2>2, <2>3, WrittenIs
    <2> QED
        BY <2>1, <2>2, <2>3, <2>4
<1>4. TypeOK'
    BY <1>1, <1>3 DEF IInv, TypeOK, Points, CmduHeaderSize
<1>5. RoomForEach' /\ InOrder'
    BY DEF IInv, RoomForEach, InOrder, Packed
<1>6. HeaderWritten'
    <2>1. \A k \in 1 .. 8 : ByteAt(buffer', k) = bytes[k]
        BY <1>3
    <2>2. /\ ByteAt(buffer', 1) = CmduVersion /\ ByteAt(buffer', 2) = 0
          /\ ByteAt(buffer', 3) = HighByte(h.type) /\ ByteAt(buffer', 4) = LowByte(h.type)
          /\ ByteAt(buffer', 5) = HighByte(h.id) /\ ByteAt(buffer', 6) = LowByte(h.id)
          /\ ByteAt(buffer', 7) = h.fragment /\ ByteAt(buffer', 8) = h.flags
        BY <1>2, <2>1
    <2>3. Uint16At(buffer', 3) = h.type /\ Uint16At(buffer', 5) = h.id
        BY <1>1, <2>2, Uint16RoundTrip DEF Uint16At, Header
    <2>4. HeaderAt(buffer') = h
        BY <1>1, <2>2, <2>3 DEF HeaderAt, Header
    <2> QED
        BY <2>2, <2>4 DEF HeaderWritten, HeaderAt
<1>7. ptr' = offsets[1]
    BY <1>1 DEF IInv, RoomForEach, CmduHeaderSize
<1> QED
    BY <1>3, <1>4, <1>5, <1>6, <1>7 DEF IInv, PtrFollows, TlvsWritten

(***************************************************************************)
(* Writing the k-th TLV where there is room for it, with those before it   *)
(* written, has the first k written and the header kept.                   *)
(***************************************************************************)
LEMMA WriteNext ==
    ASSUME IInv, at = "tlvs", i \in 1 .. Len(Packed), cmdu' = cmdu, offsets' = offsets,
           total_size' = total_size,
           buffer' = Written(buffer, ptr, TlvBytes(Packed[i])),
           ptr' = ptr + GetPacketSize(Packed[i])
    PROVE  /\ buffer' \in Seq(Byte) /\ Len(buffer') = total_size
           /\ ptr' = offsets[i + 1] /\ ptr' \in Nat \ {0}
           /\ ByteAt(buffer', 1) = CmduVersion /\ ByteAt(buffer', 2) = 0
           /\ HeaderAt(buffer') = cmdu.header
           /\ \A k \in 1 .. i : /\ TlvAt(buffer', offsets[k]) = Packed[k]
                                /\ EndOfTlvAt(buffer', offsets[k]) = offsets[k + 1]
<1> DEFINE tlv == Packed[i]
<1>1. /\ cmdu \in Cmdu /\ buffer \in Seq(Byte) /\ Len(buffer) = total_size
      /\ total_size \in Nat /\ ptr = offsets[i]
    BY DEF IInv, TypeOK, PtrFollows
<1>2. /\ tlv \in Tlv /\ FitsTlv(tlv.value) /\ i \in Nat /\ i \in 1 .. Len(Packed)
      /\ offsets[i] \in Nat /\ offsets[i] >= 9
      /\ offsets[i + 1] = offsets[i] + GetPacketSize(tlv)
      /\ offsets[i + 1] <= total_size + 1 /\ offsets[i + 1] \in Nat
      /\ Len(Packed) \in Nat
    BY RoomIsInside DEF Fit, CmduHeaderSize
<1>3. /\ TlvBytes(tlv) \in Seq(Byte) /\ Len(TlvBytes(tlv)) = GetPacketSize(tlv)
      /\ GetPacketSize(tlv) \in Nat
    BY <1>2, TlvBytesAre, GetPacketSizeIsNat
<1>4. /\ buffer' \in Seq(Byte) /\ Len(buffer') = total_size
      /\ \A q \in Int : q < ptr => ByteAt(buffer', q) = ByteAt(buffer, q)
    BY <1>1, <1>2, <1>3, WrittenIs
<1>5. ptr' = offsets[i + 1] /\ ptr' \in Nat \ {0}
    BY <1>1, <1>2, <1>3
<1>6. \A q \in 1 .. 8 : ByteAt(buffer', q) = ByteAt(buffer, q)
    BY <1>1, <1>2, <1>4
<1>7. /\ ByteAt(buffer', 1) = CmduVersion /\ ByteAt(buffer', 2) = 0
      /\ HeaderAt(buffer') = cmdu.header
    <2>1. HeaderAt(buffer') = HeaderAt(buffer)
        BY <1>6 DEF HeaderAt, Uint16At
    <2> QED
        BY <1>6, <2>1 DEF IInv, HeaderWritten
<1>8. /\ TlvAt(buffer', offsets[i]) = tlv
      /\ EndOfTlvAt(buffer', offsets[i]) = offsets[i + 1]
    BY <1>1, <1>2, <1>3, TlvWritten
<1>9. ASSUME NEW k \in 1 .. i - 1
      PROVE  /\ TlvAt(buffer', offsets[k]) = Packed[k]
             /\ EndOfTlvAt(buffer', offsets[k]) = offsets[k + 1]
    <2>1. /\ TlvAt(buffer, offsets[k]) = Packed[k]
          /\ EndOfTlvAt(buffer, offsets[k]) = offsets[k + 1]
        BY DEF IInv, TlvsWritten, Lies
    <2>2. k \in 1 .. Len(Packed) /\ k + 1 <= i /\ k + 1 \in 1 .. Len(Packed) + 1
          /\ i \in 1 .. Len(Packed) + 1
        BY <1>2
    <2>3. offsets[k] \in Nat /\ offsets[k + 1] \in Nat
        BY <2>2, RoomIsInside
    <2>4. offsets[k + 1] <= ptr
        <3>1. Len(offsets) = Len(Packed) + 1
            BY DEF IInv, RoomForEach
        <3> QED
            BY <1>1, <2>2, <3>1 DEF IInv, InOrder
    <2> QED
        BY <1>1, <1>2, <1>4, <2>1, <2>3, <2>4, TlvKept
<1>10. \A k \in 1 .. i : /\ TlvAt(buffer', offsets[k]) = Packed[k]
                         /\ EndOfTlvAt(buffer', offsets[k]) = offsets[k + 1]
    <2> TAKE k \in 1 .. i
    <2>1. CASE k = i
        BY <1>8, <2>1
    <2>2. CASE k # i
        <3>1. k \in 1 .. i - 1
            BY <1>2, <2>2
        <3> QED
            BY <1>9, <3>1
    <2> QED
        BY <2>1, <2>2
<1> QED
    BY <1>4, <1>5, <1>7, <1>10

LEMMA WriteTlvIInv ==
    ASSUME IInv, WriteTlv
    PROVE  IInv'
<1> USE DEF WriteTlv
<1>1. /\ cmdu \in Cmdu /\ i \in Nat /\ i \in 1 .. Len(cmdu.tlvs)
      /\ Len(cmdu.tlvs) \in Nat
      /\ i \in 1 .. Len(Packed) /\ Packed[i] = cmdu.tlvs[i]
    <2>1. cmdu \in Cmdu /\ i \in 1 .. Len(cmdu.tlvs) + 1
        BY DEF IInv, TypeOK
    <2>2. /\ Len(cmdu.tlvs) \in Nat /\ Len(Packed) \in Nat
          /\ Len(Packed) >= Len(cmdu.tlvs)
          /\ \A k \in 1 .. Len(cmdu.tlvs) : Packed[k] = cmdu.tlvs[k]
        BY <2>1, PackedAre
    <2> QED
        BY <2>1, <2>2
<1>2. /\ buffer' = Written(buffer, ptr, TlvBytes(Packed[i]))
      /\ ptr' = ptr + GetPacketSize(Packed[i])
    <2>1. ptr \in Nat /\ Packed[i] \in Tlv
        BY <1>1, RoomIsInside DEF IInv, TypeOK, Fit
    <2>2. Len(Packed[i].value) \in Nat
        BY <2>1 DEF Tlv
    <2>3. buffer' = Written(buffer, ptr, TlvBytes(Packed[i]))
        BY <1>1
    <2>4. ptr' = ptr + TlvHeaderSize + Len(Packed[i].value)
        BY <1>1
    <2>5. GetPacketSize(Packed[i]) = TlvHeaderSize + Len(Packed[i].value)
        BY DEF GetPacketSize
    <2>6. TlvHeaderSize \in Nat
        BY DEF TlvHeaderSize
    <2>7. ptr' = ptr + GetPacketSize(Packed[i])
        <3> HIDE DEF WriteTlv
        <3>1. ASSUME NEW l \in Nat, NEW g, g = 3 + l
              PROVE  ptr + 3 + l = ptr + g
            BY <2>1, <3>1
        <3> QED
            BY <2>2, <2>4, <2>5, <3>1 DEF TlvHeaderSize
    <2> QED
        BY <2>3, <2>7
<1>3. /\ buffer' \in Seq(Byte) /\ Len(buffer') = total_size
      /\ ptr' = offsets[i + 1] /\ ptr' \in Nat \ {0}
      /\ ByteAt(buffer', 1) = CmduVersion /\ ByteAt(buffer', 2) = 0
      /\ HeaderAt(buffer') = cmdu.header
      /\ \A k \in 1 .. i : /\ TlvAt(buffer', offsets[k]) = Packed[k]
                           /\ EndOfTlvAt(buffer', offsets[k]) = offsets[k + 1]
    BY <1>1, <1>2, WriteNext
<1>4. TypeOK'
    <2>1. i' \in 1 .. Len(cmdu'.tlvs) + 1
        BY <1>1
    <2> QED
        BY <1>3, <2>1 DEF IInv, TypeOK
<1>5. RoomForEach' /\ InOrder'
    BY DEF IInv, RoomForEach, InOrder, Packed
<1>6. HeaderWritten'
    BY <1>3 DEF HeaderWritten, HeaderAt
<1>7. TlvsWritten'
    <2>1. i' - 1 = i
        BY <1>1
    <2> QED
        BY <1>3, <2>1 DEF TlvsWritten, Lies, Packed
<1> QED
    BY <1>3, <1>4, <1>5, <1>6, <1>7 DEF IInv, PtrFollows

LEMMA WriteEndIInv ==
    ASSUME IInv, WriteEnd
    PROVE  IInv'
<1> USE DEF WriteEnd
<1> DEFINE n == Len(cmdu.tlvs)
<1>1. /\ cmdu \in Cmdu /\ n \in Nat /\ i = n + 1 /\ total_size \in Nat
      /\ ptr = offsets[i] /\ Len(offsets) = Len(Packed) + 1
      /\ offsets[Len(offsets)] = total_size + 1
    <2>1. cmdu \in Cmdu /\ i \in 1 .. n + 1
        BY DEF IInv, TypeOK
    <2>2. n \in Nat
        BY <2>1, PackedAre
    <2>3. i = n + 1 /\ total_size \in Nat
        BY <2>1, <2>2 DEF IInv, TypeOK
    <2>4. ptr = offsets[i] /\ Len(offsets) = Len(Packed) + 1
          /\ offsets[Len(offsets)] = total_size + 1
        BY DEF IInv, PtrFollows, RoomForEach
    <2> QED
        BY <2>1, <2>2, <2>3, <2>4
<1>2. TypeOK' /\ RoomForEach' /\ InOrder'
      /\ Len(buffer') = total_size /\ ptr' = total_size + 1
      /\ HeaderWritten'
      /\ \A k \in 1 .. Len(Packed) : /\ TlvAt(buffer', offsets[k]) = Packed[k]
                                     /\ EndOfTlvAt(buffer', offsets[k]) = offsets[k + 1]
    <2>1. RoomForEach' /\ InOrder'
        BY DEF IInv, RoomForEach, InOrder, Packed
    <2>2. CASE AppendEndOfMessage
        <3>1. /\ i \in 1 .. Len(Packed) /\ Len(Packed) = i /\ Packed[i] = EndTlv
              /\ GetPacketSize(EndTlv) = TlvHeaderSize
            BY <1>1, <2>2, PackedAre DEF GetPacketSize, EndTlv, TlvHeaderSize
        <3>2. /\ buffer' \in Seq(Byte) /\ Len(buffer') = total_size
              /\ ptr' = offsets[i + 1] /\ ptr' \in Nat \ {0}
              /\ ByteAt(buffer', 1) = CmduVersion /\ ByteAt(buffer', 2) = 0
              /\ HeaderAt(buffer') = cmdu.header
              /\ \A k \in 1 .. i : /\ TlvAt(buffer', offsets[k]) = Packed[k]
                                   /\ EndOfTlvAt(buffer', offsets[k]) = offsets[k + 1]
            BY <2>2, <3>1, WriteNext
        <3>3. TypeOK'
            BY <3>2 DEF IInv, TypeOK, Points
        <3>4. HeaderWritten'
            BY <3>2 DEF HeaderWritten, HeaderAt
        <3> QED
            BY <1>1, <2>1, <3>1, <3>2, <3>3, <3>4
    <2>3. CASE ~AppendEndOfMessage
        <3>1. Len(Packed) = n
            BY <1>1, <2>3, PackedAre
        <3>2. /\ buffer' = buffer /\ ptr' = ptr
              /\ Len(buffer) = total_size
              /\ \A k \in 1 .. n : Lies(k)
            <4>1. i - 1 = n
                BY <1>1
            <4> QED
                BY <2>3, <4>1 DEF IInv, TypeOK, TlvsWritten
        <3>3. TypeOK'
            BY <3>2 DEF IInv, TypeOK, Points
        <3>4. HeaderWritten'
            BY <3>2 DEF IInv, HeaderWritten, HeaderAt
        <3> QED
            BY <1>1, <2>1, <3>1, <3>2, <3>3, <3>4 DEF Lies
    <2> QED
        BY <2>2, <2>3
<1>3. TlvsWritten'
    BY <1>2 DEF TlvsWritten, Lies, Packed
<1> QED
    BY <1>2, <1>3 DEF IInv, PtrFollows

LEMMA NextIInv == IInv /\ [Next]_vars => IInv'
<1> SUFFICES ASSUME IInv, [Next]_vars PROVE IInv'
    OBVIOUS
<1>1. CASE UNCHANGED vars
    BY <1>1 DEF vars, IInv, TypeOK, RoomForEach, InOrder, PtrFollows, HeaderWritten,
                TlvsWritten, Lies, Packed
<1> QED
    BY <1>1, AddSizeIInv, AddEndSizeIInv, AllocateIInv, WriteHeaderIInv, WriteTlvIInv,
       WriteEndIInv DEF Next

THEOREM SpecIInv == Spec => []IInv
<1> QED
    BY InitIInv, NextIInv, PTL DEF Spec

-----------------------------------------------------------------------------
(* What follows from it *)

(***************************************************************************)
(* The locals of Pack keep their types: what it writes are bytes.          *)
(***************************************************************************)
THEOREM TypeCorrect == Spec => []TypeOK
<1> QED
    BY SpecIInv, PTL DEF IInv

(***************************************************************************)
(* For every CMDU: Pack writes inside the buffer it sized, and fills it.   *)
(***************************************************************************)
THEOREM NoOverrun == Spec => []WritesInBounds
<1>1. IInv => WritesInBounds
    <2> SUFFICES ASSUME IInv PROVE WritesInBounds
        OBVIOUS
    <2>1. total_size \in Nat /\ cmdu \in Cmdu
        BY DEF IInv, TypeOK
    <2>2. CASE at = "tlvs"
        <3>1. /\ i \in 1 .. Len(cmdu.tlvs) + 1 /\ Len(cmdu.tlvs) \in Nat
              /\ Len(Packed) \in Nat /\ Len(Packed) >= Len(cmdu.tlvs)
              /\ Len(offsets) = Len(Packed) + 1
            BY <2>1, <2>2, PackedAre DEF IInv, TypeOK, RoomForEach
        <3>2. i \in 1 .. Len(offsets) /\ Len(offsets) \in 1 .. Len(offsets) /\ i <= Len(offsets)
            BY <3>1
        <3>3. offsets[i] <= offsets[Len(offsets)]
            BY <3>2 DEF IInv, InOrder
        <3>4. offsets[i] = ptr /\ offsets[Len(offsets)] = Len(buffer) + 1
            BY <2>2 DEF IInv, TypeOK, PtrFollows, RoomForEach
        <3> QED
            BY <2>2, <3>3, <3>4 DEF WritesInBounds
    <2>3. CASE at # "tlvs"
        <3>1. at \in {"header", "return"} => Len(buffer) = total_size
            BY DEF IInv, TypeOK
        <3> QED
            BY <2>1, <2>3, <3>1 DEF IInv, PtrFollows, WritesInBounds
    <2> QED
        BY <2>2, <2>3
<1> QED
    BY <1>1, SpecIInv, PTL

LEMMA IInvHoldsTheCmdu == IInv => PacketHoldsTheCmdu
<1> SUFFICES ASSUME IInv, at = "return"
             PROVE  /\ ByteAt(buffer, 1) = CmduVersion /\ ByteAt(buffer, 2) = 0
                    /\ HeaderAt(buffer) = cmdu.header
                    /\ LiesIn(buffer, Packed, offsets)
                    /\ offsets[Len(offsets)] = Len(buffer) + 1
    BY DEF PacketHoldsTheCmdu, Packed
<1>1. /\ Len(offsets) = Len(Packed) + 1 /\ offsets[1] = CmduHeaderSize + 1
      /\ offsets[Len(offsets)] = total_size + 1 /\ Len(buffer) = total_size
      /\ total_size \in Nat
    BY DEF IInv, TypeOK, RoomForEach, PtrFollows
<1>2. ASSUME NEW k \in 1 .. Len(Packed)
      PROVE  /\ TlvFitsAt(buffer, offsets[k])
             /\ Packed[k] = TlvAt(buffer, offsets[k])
             /\ offsets[k + 1] = EndOfTlvAt(buffer, offsets[k])
    <2>1. TlvAt(buffer, offsets[k]) = Packed[k] /\ EndOfTlvAt(buffer, offsets[k]) = offsets[k + 1]
        BY DEF IInv, TlvsWritten, Lies
    <2>2. /\ offsets[k] \in Nat /\ offsets[k + 1] \in Nat
          /\ offsets[k + 1] = offsets[k] + GetPacketSize(Packed[k])
          /\ offsets[k + 1] <= total_size + 1
        BY RoomIsInside
    <2>3. GetPacketSize(Packed[k]) >= 3 /\ GetPacketSize(Packed[k]) \in Nat
        BY RoomIsInside DEF Fit, Tlv, GetPacketSize, TlvHeaderSize
    <2> QED
        BY <1>1, <2>1, <2>2, <2>3 DEF TlvFitsAt, TlvHeaderSize
<1>3. LiesIn(buffer, Packed, offsets)
    BY <1>1, <1>2 DEF LiesIn
<1> QED
    BY <1>1, <1>3 DEF IInv, HeaderWritten

(***************************************************************************)
(* For every CMDU: the packet that Pack returns holds it, its TLVs one     *)
(* after the other from the header to the end of the packet.               *)
(***************************************************************************)
THEOREM PacketIsTheCmdu == Spec => []PacketHoldsTheCmdu
<1> QED
    BY IInvHoldsTheCmdu, SpecIInv, PTL

=============================================================================
