----------------------------- MODULE MCWscNames -----------------------------
(***************************************************************************)
(* The attributes by the names and codes of wsc.h.                         *)
(***************************************************************************)
EXTENDS Wsc

MCValues == {<< 1 >>, << 2 >>}

=============================================================================
