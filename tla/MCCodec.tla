------------------------------ MODULE MCCodec -------------------------------
(***************************************************************************)
(* Lists of up to MaxTlvs TLVs over a two-valued byte, with no             *)
(* END_OF_MESSAGE, one anywhere or several; values of no, one and two      *)
(* bytes; padding that may itself look like TLVs; receive buffers that cut *)
(* the packet at every byte from the header on.                            *)
(***************************************************************************)
EXTENDS Codec, SequencesExt

CONSTANTS MaxTlvs, MaxPadding, MaxRxSize

Values == {<< >>, << 1 >>, << 0, 1 >>}

Headers == { [type |-> 1, id |-> 2, fragment |-> 0, flags |-> 1] }

MCCmdus ==
    [header : Headers, tlvs : BoundedSeq([type : Byte, value : Values], MaxTlvs)]

MCPaddings == {[k \in 1 .. n |-> b] : n \in 0 .. MaxPadding, b \in Byte}

MCRxSizes == CmduHeaderSize - 1 .. MaxRxSize

=============================================================================
