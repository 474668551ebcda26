----------------------------- MODULE MCAgentIds -----------------------------
(***************************************************************************)
(* The sending thread only, over a four-valued byte: a message identifier  *)
(* has sixteen values and MaxCalls, which is more, takes it round, with up *)
(* to MaxFailures of the calls failing anywhere on the way.                *)
(***************************************************************************)
EXTENDS Agent

MCMacAddress == << 1, 2, 3, 1, 2, 3 >>

MCPaddings == {<< >>}

=============================================================================
