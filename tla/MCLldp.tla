------------------------------- MODULE MCLldp -------------------------------
(***************************************************************************)
(* Over a six-valued byte the types go up to 2 and the lengths to 11; a    *)
(* Tlv takes up to 35 bytes.                                               *)
(***************************************************************************)
EXTENDS Lldp

=============================================================================
