------------------------------- MODULE MCWsc --------------------------------
(***************************************************************************)
(* Three attributes over a four-valued byte, where a TLV has up to 15      *)
(* bytes: three attributes fit it or not by one byte.  Other devices send  *)
(* every sequence of up to MaxForeign attributes of two codes, whole or    *)
(* cut anywhere.                                                           *)
(***************************************************************************)
EXTENDS Wsc

CONSTANT MaxForeign

MCAttributes == [WSC_VERSION |-> 4, WSC_AUTHENTICATION |-> 1, WSC_SSID |-> 11]

MCValues == {<< >>, << 3 >>, << 0, 2 >>, [k \in 1 .. 16 |-> 1]}

ForeignAttributes ==
    {<< 0, 1, 0, 0 >>, << 0, 1, 0, 1, 2 >>, << 1, 0, 0, 2, 3, 0 >>, << 1, 0, 1, 0, 3, 0, 1, 0 >>}

MCForeign ==
    UNION {{SubSeq(FlattenSeq(s), 1, n) : n \in 0 .. Len(FlattenSeq(s))}
              : s \in BoundedSeq(ForeignAttributes, MaxForeign)}

=============================================================================
