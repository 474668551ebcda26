-------------------------------- MODULE Wire --------------------------------
(***************************************************************************)
(* The vocabulary the components share: the unsigned integers of a CMDU's  *)
(* fields, TLVs and headers as values, and how a TLV lies in a buffer.     *)
(*                                                                         *)
(* Base is the number of values of one byte, 256 in the program.  It is a  *)
(* parameter so that model checking can take Base = 2, where a byte is a   *)
(* bit, a 16-bit field has four values, the high byte of a length matters  *)
(* and every buffer up to some length can be tried.                        *)
(*                                                                         *)
(* Positions are those of sequences: byte 1 is buffer.data()[0], and the   *)
(* code's end_ptr is position Len(buffer) + 1.                             *)
(***************************************************************************)
EXTENDS Integers, Sequences

CONSTANT Base

ASSUME BaseAssumption == Base \in Nat /\ Base >= 2

Byte == 0 .. Base - 1

Uint16 == 0 .. Base * Base - 1

(***************************************************************************)
(* Network byte order: the high byte first.                                *)
(***************************************************************************)
HighByte(v) == v \div Base

LowByte(v) == v % Base

Uint16Of_LittleEndian(high, low) == low * Base + high

Uint16Of(high, low) == high * Base + low

-----------------------------------------------------------------------------
(* TLVs and the header of a CMDU *)

EndOfMessage == 0

TlvHeaderSize == 3

CmduHeaderSize == 8

Tlv == [type : Byte, value : Seq(Byte)]

Header == [type : Uint16, id : Uint16, fragment : Byte, flags : Byte]

(***************************************************************************)
(* The constructor throws std::length_error above 65535 bytes.             *)
(***************************************************************************)
FitsTlvUnchecked(value) == TRUE

FitsTlv(value) == Len(value) \in Uint16

(***************************************************************************)
(* GetLength casts the size to 16 bits.                                    *)
(***************************************************************************)
GetLength(tlv) == Len(tlv.value) % (Base * Base)

GetPacketSize_WithoutHeader(tlv) == Len(tlv.value)

GetPacketSize(tlv) == TlvHeaderSize + Len(tlv.value)

IsEndOfMessage(tlv) == tlv.type = EndOfMessage

EndsMessage(tlvs) == tlvs # << >> /\ IsEndOfMessage(tlvs[Len(tlvs)])

(***************************************************************************)
(* Cmdu::AddTlv.  An END_OF_MESSAGE at the end of the list stays there and *)
(* the new TLV goes before it; otherwise the new TLV goes to the end.      *)
(***************************************************************************)
AddTlvAtBack(tlvs, tlv) == Append(tlvs, tlv)

AddTlv_EndNotBack(tlvs, tlv) ==
    IF EndsMessage(tlvs) THEN [tlvs EXCEPT ![Len(tlvs)] = tlv] ELSE Append(tlvs, tlv)

AddTlv_NoTypeCheck(tlvs, tlv) ==
    IF tlvs # << >>
    THEN [tlvs EXCEPT ![Len(tlvs)] = tlv] \o << tlvs[Len(tlvs)] >>
    ELSE Append(tlvs, tlv)

AddTlv(tlvs, tlv) ==
    IF EndsMessage(tlvs)
    THEN [tlvs EXCEPT ![Len(tlvs)] = tlv] \o << tlvs[Len(tlvs)] >>
    ELSE Append(tlvs, tlv)

(***************************************************************************)
(* Cmdu::FindTlv goes from the front of the list to the first TLV of a     *)
(* type, which FindTlv gives as a set: empty for nullptr.                  *)
(***************************************************************************)
FirstAt_FromBack(list, type) ==
    {k \in 1 .. Len(list) :
        list[k].type = type /\ \A h \in k + 1 .. Len(list) : list[h].type # type}

FirstAt(list, type) ==
    {k \in 1 .. Len(list) :
        list[k].type = type /\ \A h \in 1 .. k - 1 : list[h].type # type}

FindTlv(list, type) == {list[k] : k \in FirstAt(list, type)}

-----------------------------------------------------------------------------
(* Where a TLV lies in a buffer *)

(***************************************************************************)
(* The byte at a position.  A read outside the vector is undefined in C++; *)
(* it is 0 here, and TypeOK and ReturnsWhatTheBufferHolds of module Parser *)
(* say that no TLV is read past the end.                                   *)
(***************************************************************************)
ByteAt(buffer, p) == IF p \in 1 .. Len(buffer) THEN buffer[p] ELSE 0

BytesAt(buffer, p, n) == [k \in 1 .. n |-> ByteAt(buffer, p + k - 1)]

Uint16At(buffer, p) == Uint16Of(ByteAt(buffer, p), ByteAt(buffer, p + 1))

LengthAt(buffer, p) == Uint16At(buffer, p + 1)

ValueAt(buffer, p) == BytesAt(buffer, p + TlvHeaderSize, LengthAt(buffer, p))

TlvAt(buffer, p) == [type |-> ByteAt(buffer, p), value |-> ValueAt(buffer, p)]

EndOfTlvAt(buffer, p) == p + TlvHeaderSize + LengthAt(buffer, p)

HeaderAt(buffer) ==
    [type |-> Uint16At(buffer, 3), id |-> Uint16At(buffer, 5),
     fragment |-> ByteAt(buffer, 7), flags |-> ByteAt(buffer, 8)]

(***************************************************************************)
(* A whole TLV starts at position p.                                       *)
(***************************************************************************)
TlvFitsAt(buffer, p) ==
    /\ p + TlvHeaderSize <= Len(buffer) + 1
    /\ EndOfTlvAt(buffer, p) <= Len(buffer) + 1

(***************************************************************************)
(* The TLVs lie one after the other from the end of the header: offsets[k] *)
(* is where the k-th starts, and the last offset is where the next byte    *)
(* after them is.                                                          *)
(***************************************************************************)
LiesIn(buffer, tlvs, offsets) ==
    /\ Len(offsets) = Len(tlvs) + 1
    /\ offsets[1] = CmduHeaderSize + 1
    /\ \A k \in 1 .. Len(tlvs) :
          /\ TlvFitsAt(buffer, offsets[k])
          /\ tlvs[k] = TlvAt(buffer, offsets[k])
          /\ offsets[k + 1] = EndOfTlvAt(buffer, offsets[k])

(***************************************************************************)
(* A set of positions that starts after the header and follows the lengths *)
(* from TLV to TLV up to an END_OF_MESSAGE, with no TLV cut by the end of  *)
(* the buffer.  Since a TLV is never empty such a set, which is finite,    *)
(* holds the start of an END_OF_MESSAGE.                                   *)
(***************************************************************************)
IsTlvChain(buffer, starts) ==
    /\ CmduHeaderSize + 1 \in starts
    /\ \A p \in starts :
          /\ TlvFitsAt(buffer, p)
          /\ \/ ByteAt(buffer, p) = EndOfMessage
             \/ EndOfTlvAt(buffer, p) \in starts

(***************************************************************************)
(* The buffers that hold a CMDU: a header, then TLVs of which one is an    *)
(* END_OF_MESSAGE.  What follows it is padding.                            *)
(***************************************************************************)
HoldsCmdu(buffer) ==
    /\ Len(buffer) >= CmduHeaderSize
    /\ \E starts \in SUBSET (CmduHeaderSize + 1 .. Len(buffer)) :
          IsTlvChain(buffer, starts)

=============================================================================
