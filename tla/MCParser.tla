------------------------------ MODULE MCParser ------------------------------
(***************************************************************************)
(* Every buffer over a two-valued byte: all that are shorter than a CMDU   *)
(* header, and two headers followed by every tail of up to MaxTail bytes.  *)
(***************************************************************************)
EXTENDS Parser, SequencesExt

CONSTANTS MaxTail

Headers == { << 0, 0, 0, 1, 1, 0, 0, 1 >>, << 1, 1, 1, 1, 0, 1, 1, 0 >> }

MCBuffers ==
    BoundedSeq(Byte, CmduHeaderSize - 1) \union { h \o t : h \in Headers, t \in BoundedSeq(Byte, MaxTail) }

=============================================================================
