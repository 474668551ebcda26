------------------------------- MODULE MCCmdu -------------------------------
(***************************************************************************)
(* END_OF_MESSAGE and a payload type, values that tell TLVs of a type      *)
(* apart, and one value a byte too long for a TLV.                         *)
(***************************************************************************)
EXTENDS Cmdu

MCValues == {<< >>, << 1 >>, [k \in 1 .. Base * Base |-> 0]}

=============================================================================
