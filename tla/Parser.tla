------------------------------- MODULE Parser -------------------------------
(***************************************************************************)
(* MessageParser::Parse: from the bytes of a received packet to a CMDU, or *)
(* to a std::runtime_error.  One step is the header, one turn of the TLV   *)
(* loop, or the check after the loop.                                      *)
(*                                                                         *)
(* The variables are the function's locals.  offsets is a history          *)
(* variable: where in the buffer each TLV read so far started.             *)
(***************************************************************************)
EXTENDS Wire

CONSTANT Buffers    \* the buffers Parse may be called with

ASSUME BuffersAssumption == Buffers \subseteq Seq(Byte)

VARIABLES
    buffer,     \* the argument
    ptr,        \* the next position to read
    header,     \* of the cmdu under construction
    tlvs,       \* of the cmdu under construction
    offsets,    \* history: where each of tlvs starts, then ptr
    at          \* the point of the function

vars == << buffer, ptr, header, tlvs, offsets, at >>

NoHeader == [type |-> 0, id |-> 0, fragment |-> 0, flags |-> 0]

(***************************************************************************)
(* Parse has been entered with a buffer.  Enter is the call itself, for    *)
(* the modules that compose Parse with its callers.                        *)
(***************************************************************************)
EnteredWith(b) ==
    /\ buffer = b
    /\ ptr = 1
    /\ header = NoHeader
    /\ tlvs = << >>
    /\ offsets = << >>
    /\ at = "header"

Enter(b) ==
    /\ buffer' = b
    /\ ptr' = 1
    /\ header' = NoHeader
    /\ tlvs' = << >>
    /\ offsets' = << >>
    /\ at' = "header"

Init == \E b \in Buffers : EnteredWith(b)

-----------------------------------------------------------------------------
(* The tests of the loop *)

LongEnough == Len(buffer) >= CmduHeaderSize

TlvHeaderFits == Len(buffer) + 1 - ptr >= TlvHeaderSize

ValueFits_OfWholeTlv ==
    Len(buffer) + 1 - ptr >= LengthAt(buffer, ptr)

ValueFits_Strict ==
    Len(buffer) + 1 - (ptr + TlvHeaderSize) > LengthAt(buffer, ptr)

ValueFits ==
    Len(buffer) + 1 - (ptr + TlvHeaderSize) >= LengthAt(buffer, ptr)

-----------------------------------------------------------------------------
(* Steps *)

Throw == at' = "runtime_error" /\ UNCHANGED << buffer, ptr, header, tlvs, offsets >>

ThrowShortBuffer ==
    /\ at = "header"
    /\ ~LongEnough
    /\ Throw

ReadHeader ==
    /\ at = "header"
    /\ LongEnough
    /\ header' = HeaderAt(buffer)
    /\ ptr' = CmduHeaderSize + 1
    /\ offsets' = << CmduHeaderSize + 1 >>
    /\ at' = "tlvs"
    /\ UNCHANGED << buffer, tlvs >>

InLoop_StuckAtEmptyTlv ==
    at = "tlvs" /\ ptr <= Len(buffer) /\ LengthAt(buffer, ptr) > 0

InLoop == at = "tlvs" /\ ptr <= Len(buffer)

ThrowTlvHeader ==
    /\ InLoop
    /\ ~TlvHeaderFits
    /\ Throw

ThrowTlvValue ==
    /\ InLoop
    /\ TlvHeaderFits
    /\ ~ValueFits
    /\ Throw

AfterTlv_NoBreak(tlv) == "tlvs"

AfterTlv(tlv) == IF IsEndOfMessage(tlv) THEN "end" ELSE "tlvs"

NextTlv(p) == p + TlvHeaderSize + LengthAt(buffer, p)

ReadTlv ==
    /\ InLoop
    /\ TlvHeaderFits
    /\ ValueFits
    /\ LET tlv == TlvAt(buffer, ptr)
       IN  /\ tlvs' = AddTlv(tlvs, tlv)
           /\ at' = AfterTlv(tlv)
    /\ ptr' = NextTlv(ptr)
    /\ offsets' = Append(offsets, ptr')
    /\ UNCHANGED << buffer, header >>

LeftLoop == at = "end" \/ (at = "tlvs" /\ ptr > Len(buffer))

Terminated == EndsMessage(tlvs)

Return ==
    /\ LeftLoop
    /\ Terminated
    /\ at' = "return"
    /\ UNCHANGED << buffer, ptr, header, tlvs, offsets >>

ThrowUnterminated ==
    /\ LeftLoop
    /\ ~Terminated
    /\ Throw

Next ==
    \/ ThrowShortBuffer
    \/ ReadHeader
    \/ ThrowTlvHeader
    \/ ThrowTlvValue
    \/ ReadTlv
    \/ Return
    \/ ThrowUnterminated

(***************************************************************************)
(* Parse runs on one thread and calls nothing that blocks.                 *)
(***************************************************************************)
Spec == Init /\ [][Next]_vars /\ WF_vars(Next)

-----------------------------------------------------------------------------
(* Properties *)

Points == {"header", "tlvs", "end", "return", "runtime_error"}

(* Every local has its type. *)
TypeOK ==
    /\ buffer \in Seq(Byte)
    /\ ptr \in 1 .. Len(buffer) + 1
    /\ header \in Header
    /\ tlvs \in Seq(Tlv)
    /\ offsets \in Seq(Nat)
    /\ at \in Points

(***************************************************************************)
(* A CMDU that Parse returns is what the buffer holds: its header, and its *)
(* TLVs one after the other with nothing skipped, nothing read twice and   *)
(* nothing reordered by AddTlv, up to the first END_OF_MESSAGE, which is   *)
(* the last TLV of the CMDU and its only END_OF_MESSAGE.                   *)
(***************************************************************************)
ReturnsWhatTheBufferHolds ==
    at = "return" =>
        /\ header = HeaderAt(buffer)
        /\ LiesIn(buffer, tlvs, offsets)
        /\ EndsMessage(tlvs)
        /\ \A k \in 1 .. Len(tlvs) - 1 : ~IsEndOfMessage(tlvs[k])

(***************************************************************************)
(* Parse throws for no buffer that holds a CMDU and returns for no other.  *)
(***************************************************************************)
ThrowsOnlyWithoutCmdu ==
    /\ at = "runtime_error" => ~HoldsCmdu(buffer)
    /\ at = "return" => HoldsCmdu(buffer)

(* Parse comes back, whatever lengths the packet claims. *)
Terminates == <>(at \in {"return", "runtime_error"})

=============================================================================
