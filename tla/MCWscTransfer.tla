--------------------------- MODULE MCWscTransfer ----------------------------
(***************************************************************************)
(* Two attributes with the codes of wsc.h, in a CMDU of up to MaxTlvs TLVs *)
(* of which others are an END_OF_MESSAGE, a vendor's TLV whose value looks *)
(* like an attribute, another WSC message, and a WSC TLV that is cut.      *)
(***************************************************************************)
EXTENDS WscTransfer

MCAttributes == [WSC_AUTHENTICATION |-> 4100, WSC_SSID |-> 4165]

MCValues == {<< >>, << 16, 4, 0, 0 >>}

MCOtherTlvs ==
    {[type |-> 0, value |-> << >>],
     [type |-> 11, value |-> << 16, 4, 0, 1, 9 >>],
     [type |-> 17, value |-> << 16, 69, 0, 1, 7 >>],
     [type |-> 17, value |-> << 16, 69, 0, 2, 7 >>]}

(* AUTOCONFIGURATION_WSC, unfragmented. *)
MCWscHeader == [type |-> 9, id |-> 1, fragment |-> 0, flags |-> 128]

MCPaddings == {<< >>, << 17, 0, 0 >>}

MCRxSizes == {20, 2048}

=============================================================================
