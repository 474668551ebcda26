---------------------------- MODULE MCSerializer ----------------------------
(***************************************************************************)
(* Every list of up to MaxTlvs TLVs over a two-valued byte, their values   *)
(* of any length that the constructor of Tlv accepts: up to three bytes,   *)
(* so that both bytes of a length are used.                                *)
(***************************************************************************)
EXTENDS Serializer, SequencesExt

CONSTANT MaxTlvs

Values == {v \in BoundedSeq({1}, Base * Base) : FitsTlv(v)} \union {<< 0, 1 >>}

Headers == { [type |-> 1, id |-> 2, fragment |-> 0, flags |-> 1],
             [type |-> 2, id |-> 1, fragment |-> 1, flags |-> 0] }

MCCmdus ==
    [header : Headers, tlvs : BoundedSeq([type : Byte, value : Values], MaxTlvs)]

=============================================================================
