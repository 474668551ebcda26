-------------------------------- MODULE Lldp --------------------------------
(***************************************************************************)
(* LldpPdu in the hands of its caller.  It holds Tlv objects, whose type   *)
(* and length have 8 and 16 bits, for a packet whose TLV header has 7 and  *)
(* 9; packing itself is not written yet, and GetPackedSize is what it will *)
(* allocate by.                                                            *)
(*                                                                         *)
(* The fields scale with Base as those of a CMDU do: 7 bits are half the   *)
(* values of a byte, 9 bits twice as many.                                 *)
(***************************************************************************)
EXTENDS Wire, SequencesExt

CONSTANTS
    Types,          \* the types of the TLVs that are added
    Lengths,        \* and the lengths of their values
    MaxCalls        \* a bound on the calls of AddTlv, for TLC

ASSUME TypesAssumption == Types \subseteq Byte

ASSUME LengthsAssumption == Lengths \subseteq Nat

ASSUME MaxCallsAssumption == MaxCalls \in Nat

VARIABLES
    m_tlvs,
    thrown,         \* the exception of the last call, or "none"
    calls

vars == << m_tlvs, thrown, calls >>

EndOfLldpdu == 0

OrganizationSpecific == Base \div 2 - 1     \* 127

MaxLength == 2 * Base - 1                   \* 0x1FF

LldpTlvHeaderSize == 2

Init ==
    /\ m_tlvs = << >>
    /\ thrown = "none"
    /\ calls = 0

-----------------------------------------------------------------------------

TypeFits(tlv) == tlv.type <= OrganizationSpecific

LengthFits_Rounded(tlv) == GetLength(tlv) <= MaxLength + 1

LengthFits(tlv) == GetLength(tlv) <= MaxLength

(***************************************************************************)
(* Tlv(type, value), and AddTlv of it.  The value is as good as its        *)
(* length.                                                                 *)
(***************************************************************************)
TlvOf(type, length) == [type |-> type, value |-> [k \in 1 .. length |-> 1]]

Throw(exception) ==
    /\ thrown' = exception
    /\ calls' = calls + 1
    /\ UNCHANGED m_tlvs

ConstructorThrows(tlv) ==
    /\ ~FitsTlv(tlv.value)
    /\ Throw("tlv_length_error")

RefusesEnd(tlv) ==
    /\ FitsTlv(tlv.value)
    /\ tlv.type = EndOfLldpdu
    /\ Throw("invalid_argument")

RefusesType(tlv) ==
    /\ FitsTlv(tlv.value)
    /\ tlv.type # EndOfLldpdu /\ ~TypeFits(tlv)
    /\ Throw("invalid_argument")

RefusesLength(tlv) ==
    /\ FitsTlv(tlv.value)
    /\ tlv.type # EndOfLldpdu /\ TypeFits(tlv) /\ ~LengthFits(tlv)
    /\ Throw("length_error")

Takes(tlv) ==
    /\ FitsTlv(tlv.value)
    /\ tlv.type # EndOfLldpdu /\ TypeFits(tlv) /\ LengthFits(tlv)
    /\ m_tlvs' = Append(m_tlvs, tlv)
    /\ thrown' = "none"
    /\ calls' = calls + 1

Next ==
    /\ calls < MaxCalls
    /\ \E type \in Types, length \in Lengths :
          LET tlv == TlvOf(type, length)
          IN  \/ ConstructorThrows(tlv)
              \/ RefusesEnd(tlv)
              \/ RefusesType(tlv)
              \/ RefusesLength(tlv)
              \/ Takes(tlv)

Spec == Init /\ [][Next]_vars

-----------------------------------------------------------------------------
(* GetPackedSize: the size, or that it throws std::runtime_error. *)

PackedSizeThrows(list) == \E k \in 1 .. Len(list) : ~LengthFits(list[k])

(* total_size after the loop. *)
SizeOfTlvs(list) ==
    LET upTo[n \in 0 .. Len(list)] ==
            IF n = 0 THEN 0 ELSE upTo[n - 1] + LldpTlvHeaderSize + GetLength(list[n])
    IN  upTo[Len(list)]

GetPackedSize_WithoutEnd(list) == SizeOfTlvs(list)

GetPackedSize(list) == SizeOfTlvs(list) + LldpTlvHeaderSize

-----------------------------------------------------------------------------
(* Properties *)

(* The list has its type; the 16-bit length of a TLV is that of its value. *)
TypeOK ==
    /\ m_tlvs \in Seq(Tlv)
    /\ \A k \in 1 .. Len(m_tlvs) : GetLength(m_tlvs[k]) = Len(m_tlvs[k].value)
    /\ thrown \in {"none", "tlv_length_error", "invalid_argument", "length_error"}
    /\ calls \in 0 .. MaxCalls

(***************************************************************************)
(* "uint16_t packed_header = (tlv.GetType() << 9) | tlv.GetLength()"       *)
(* (lldp.cpp:70): for every TLV in the list this is 16 bits, from which    *)
(* the type and the length of the value can be read again, and no TLV but  *)
(* the closing one has the header of END_OF_LLDPDU.                        *)
(***************************************************************************)
PackedHeader(tlv) == tlv.type * (MaxLength + 1) + GetLength(tlv)

HeadersCanBePacked ==
    \A k \in 1 .. Len(m_tlvs) :
        LET h == PackedHeader(m_tlvs[k])
        IN  /\ h \in Uint16
            /\ h \div (MaxLength + 1) = m_tlvs[k].type
            /\ h % (MaxLength + 1) = Len(m_tlvs[k].value)
            /\ h # PackedHeader([type |-> EndOfLldpdu, value |-> << >>])

(* The bytes of a TLV, with two for its header. *)
TlvBytes(tlv) == << 0, 0 >> \o tlv.value

(***************************************************************************)
(* Whatever was added, the size of the packet can be computed, and it is   *)
(* that of the bytes that will be written.                                 *)
(***************************************************************************)
SizeIsThatOfTheBytes ==
    /\ ~PackedSizeThrows(m_tlvs)
    /\ GetPackedSize(m_tlvs) =
           Len(FlattenSeq([k \in 1 .. Len(m_tlvs) |-> TlvBytes(m_tlvs[k])]))
               + LldpTlvHeaderSize

(***************************************************************************)
(* "Initialize a new LLDP PDU, automatically adding END_OF_LLDPDU"         *)
(* (lldp.h:52): the list of a PDU ends with one.                           *)
(***************************************************************************)
EndsWithEndOfLldpdu ==
    m_tlvs # << >> /\ m_tlvs[Len(m_tlvs)].type = EndOfLldpdu

=============================================================================
