----------------------------- MODULE Serializer -----------------------------
(***************************************************************************)
(* MessageSerializer::Pack: a CMDU to the bytes of a packet, in two        *)
(* passes.  The first adds up the size and the buffer is allocated; the    *)
(* second writes through a raw pointer that nothing checks.                *)
(*                                                                         *)
(* A step is one turn of either loop, or one of the parts before, between  *)
(* and after them.  offsets is a history variable: where the first pass    *)
(* made room for each TLV.                                                 *)
(***************************************************************************)
EXTENDS Wire

CONSTANT Cmdus      \* the CMDUs Pack may be called with

(***************************************************************************)
(* What the constructors of Cmdu and Tlv let through.                      *)
(***************************************************************************)
Cmdu == [header : Header, tlvs : Seq({tlv \in Tlv : FitsTlv(tlv.value)})]

ASSUME CmdusAssumption == Cmdus \subseteq Cmdu

VARIABLES
    cmdu,           \* the argument
    total_size,
    buffer,
    ptr,            \* where the next byte goes
    i,              \* the loops' next TLV
    offsets,        \* history: where each TLV is to start, then where the last ends
    at              \* the point of the function

vars == << cmdu, total_size, buffer, ptr, i, offsets, at >>

(***************************************************************************)
(* Pack has been entered with a CMDU.  Enter is the call itself, for the   *)
(* modules that compose Pack with its callers.                             *)
(***************************************************************************)
EnteredWith(c) ==
    /\ cmdu = c
    /\ total_size = CmduHeaderSize
    /\ buffer = << >>
    /\ ptr = 1
    /\ i = 1
    /\ offsets = << CmduHeaderSize + 1 >>
    /\ at = "size"

Enter(c) ==
    /\ cmdu' = c
    /\ total_size' = CmduHeaderSize
    /\ buffer' = << >>
    /\ ptr' = 1
    /\ i' = 1
    /\ offsets' = << CmduHeaderSize + 1 >>
    /\ at' = "size"

Init == \E c \in Cmdus : EnteredWith(c)

-----------------------------------------------------------------------------

EndTlv == [type |-> EndOfMessage, value |-> << >>]

AppendEndOfMessage_OnlyIfEmpty == cmdu.tlvs = << >>

AppendEndOfMessage == ~EndsMessage(cmdu.tlvs)

(***************************************************************************)
(* The TLVs the packet is to hold.                                         *)
(***************************************************************************)
Terminated(list) == IF EndsMessage(list) THEN list ELSE Append(list, EndTlv)

(***************************************************************************)
(* Writing bytes from a position on.  What falls outside the vector is     *)
(* undefined in C++; it is lost here, and WritesInBounds says that nothing *)
(* does.                                                                   *)
(***************************************************************************)
Written(b, p, bytes) ==
    [k \in 1 .. Len(b) |->
        IF k \in p .. p + Len(bytes) - 1 THEN bytes[k - p + 1] ELSE b[k]]

CmduVersion == 0

HeaderBytes(h) ==
    << CmduVersion, 0, HighByte(h.type), LowByte(h.type),
       HighByte(h.id), LowByte(h.id), h.fragment, h.flags >>

TlvBytes_LengthOfAll(tlv) ==
    << tlv.type, HighByte(GetPacketSize(tlv)), LowByte(GetPacketSize(tlv)) >> \o tlv.value

TlvBytes(tlv) ==
    << tlv.type, HighByte(GetLength(tlv)), LowByte(GetLength(tlv)) >> \o tlv.value

-----------------------------------------------------------------------------
(* Steps *)

AddSize ==
    /\ at = "size"
    /\ i <= Len(cmdu.tlvs)
    /\ total_size' = total_size + GetPacketSize(cmdu.tlvs[i])
    /\ offsets' = Append(offsets, total_size' + 1)
    /\ i' = i + 1
    /\ UNCHANGED << cmdu, buffer, ptr, at >>

AddEndSize ==
    /\ at = "size"
    /\ i > Len(cmdu.tlvs)
    /\ IF AppendEndOfMessage
       THEN /\ total_size' = total_size + TlvHeaderSize
            /\ offsets' = Append(offsets, total_size' + 1)
       ELSE UNCHANGED << total_size, offsets >>
    /\ at' = "allocate"
    /\ UNCHANGED << cmdu, buffer, ptr, i >>

Allocate_Reserved ==
    /\ at = "allocate"
    /\ UNCHANGED buffer
    /\ ptr' = 1
    /\ at' = "header"
    /\ UNCHANGED << cmdu, total_size, i, offsets >>

(* The vector's bytes start as zeros. *)
Allocate ==
    /\ at = "allocate"
    /\ buffer' = [k \in 1 .. total_size |-> 0]
    /\ ptr' = 1
    /\ at' = "header"
    /\ UNCHANGED << cmdu, total_size, i, offsets >>

WriteHeader ==
    /\ at = "header"
    /\ buffer' = Written(buffer, ptr, HeaderBytes(cmdu.header))
    /\ ptr' = ptr + CmduHeaderSize
    /\ i' = 1
    /\ at' = "tlvs"
    /\ UNCHANGED << cmdu, total_size, offsets >>

WriteTlv ==
    /\ at = "tlvs"
    /\ i <= Len(cmdu.tlvs)
    /\ buffer' = Written(buffer, ptr, TlvBytes(cmdu.tlvs[i]))
    /\ ptr' = ptr + TlvHeaderSize + Len(cmdu.tlvs[i].value)
    /\ i' = i + 1
    /\ UNCHANGED << cmdu, total_size, offsets, at >>

WriteEnd ==
    /\ at = "tlvs"
    /\ i > Len(cmdu.tlvs)
    /\ IF AppendEndOfMessage
       THEN /\ buffer' = Written(buffer, ptr, TlvBytes(EndTlv))
            /\ ptr' = ptr + TlvHeaderSize
       ELSE UNCHANGED << buffer, ptr >>
    /\ at' = "return"
    /\ UNCHANGED << cmdu, total_size, i, offsets >>

Next ==
    \/ AddSize
    \/ AddEndSize
    \/ Allocate
    \/ WriteHeader
    \/ WriteTlv
    \/ WriteEnd

(***************************************************************************)
(* Pack runs on one thread and calls nothing that blocks.                  *)
(***************************************************************************)
Spec == Init /\ [][Next]_vars /\ WF_vars(Next)

-----------------------------------------------------------------------------
(* Properties *)

Points == {"size", "allocate", "header", "tlvs", "return"}

(* Every local has its type, and the vector the size that was counted. *)
TypeOK ==
    /\ cmdu \in Cmdu
    /\ total_size \in Nat
    /\ buffer \in Seq(Byte)
    /\ Len(buffer) = IF at \in {"size", "allocate"} THEN 0 ELSE total_size
    /\ ptr \in Nat \ {0}
    /\ i \in 1 .. Len(cmdu.tlvs) + 1
    /\ offsets \in Seq(Nat)
    /\ at \in Points

(***************************************************************************)
(* The two passes agree on the size: the raw pointer never goes past the   *)
(* buffer that the first pass sized, and ends exactly at its end.          *)
(***************************************************************************)
WritesInBounds ==
    /\ at \in {"header", "tlvs", "return"} => ptr <= Len(buffer) + 1
    /\ at = "return" => ptr = Len(buffer) + 1

(***************************************************************************)
(* The packet is the CMDU: its version and reserved bytes, its header, and *)
(* its TLVs one after the other with an END_OF_MESSAGE at the end, none    *)
(* overwritten by a later one and no byte after them.                      *)
(***************************************************************************)
PacketHoldsTheCmdu ==
    at = "return" =>
        /\ ByteAt(buffer, 1) = CmduVersion /\ ByteAt(buffer, 2) = 0
        /\ HeaderAt(buffer) = cmdu.header
        /\ LiesIn(buffer, Terminated(cmdu.tlvs), offsets)
        /\ offsets[Len(offsets)] = Len(buffer) + 1

=============================================================================
