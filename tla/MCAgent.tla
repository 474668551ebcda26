------------------------------ MODULE MCAgent -------------------------------
(***************************************************************************)
(* The agent with bytes of 256 values, a receive buffer of RxSize bytes    *)
(* (its size matters only against that of the packets) and, besides the    *)
(* agents' own packets, one of other devices for each way through Start    *)
(* and Parse.                                                              *)
(***************************************************************************)
EXTENDS Agent

MCMacAddress == << 17, 34, 51, 68, 85, 102 >>

HeaderOf(high, low) == << 0, 0, high, low, 1, 4, 0, 128 >>

FragmentOf(number, flags) == << 0, 0, 0, 3, 1, 4, number, flags >>

End == << 0, 0, 0 >>

MCForeign == {
    HeaderOf(128, 1) \o End,                        \* AP_CAPABILITY_QUERY
    HeaderOf(128, 0) \o << 9, 0, 1, 7 >> \o End,    \* ACK_1905, which has no handler
    FragmentOf(0, 0) \o << 6, 0, 1, 1 >> \o End,    \* the first fragment of a
    FragmentOf(1, 128) \o << 6, 0, 1, 2 >> \o End,  \* TOPOLOGY_RESPONSE, and the last
    HeaderOf(0, 2) \o End \o << 1, 0, 9, 5 >>,      \* garbage after the end
    HeaderOf(0, 2) \o << 1, 0, 2, 5, 5 >>,          \* no END_OF_MESSAGE
    HeaderOf(0, 2) \o << 1, 0, 6, 5, 5 >> \o End,   \* a length past the end
    HeaderOf(0, 2) \o << 1, 0 >>,                   \* half a TLV header
    HeaderOf(0, 2) \o << 1, 0, 11, 1, 2, 3, 4, 5, 6, 7, 8, 9, 10, 11 >> \o End,
                                                    \* longer than the buffer
    << 0, 0, 0, 2, 1 >>,                            \* half a header
    << >> }

MCPaddings == {<< >>, << 0, 0, 0, 0 >>}

=============================================================================
