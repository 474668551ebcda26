---------------------------- MODULE CmduTransfer ----------------------------
(***************************************************************************)
(* What MessageSerializer::Pack and MessageParser::Parse promise together  *)
(* to the two agents that call them, with nothing of how: a CMDU is handed *)
(* over, and if the packet gets to the other agent, whole or cut, then the *)
(* CMDU is received as it was meant or refused.                            *)
(***************************************************************************)
EXTENDS Wire

CONSTANT Cmdus      \* the CMDUs that may be sent

VARIABLES
    cmdu,       \* what is sent
    wire,       \* how its packet arrived: "nothing" yet, "whole", or "cut"
    outcome,    \* at the receiver: "none" yet, "received", or "refused"
    message     \* the messages it has received

vars == << cmdu, wire, outcome, message >>

Init ==
    /\ cmdu \in Cmdus
    /\ wire = "nothing"
    /\ outcome = "none"
    /\ message = {}

(***************************************************************************)
(* The message of a CMDU: its header and its TLVs up to the first END_OF_  *)
(* MESSAGE; if it has none, all of them and an END_OF_MESSAGE.             *)
(***************************************************************************)
Payload(list) ==
    CHOOSE n \in 0 .. Len(list) :
        /\ \A k \in 1 .. n : ~IsEndOfMessage(list[k])
        /\ n < Len(list) => IsEndOfMessage(list[n + 1])

EndOf(list) ==
    IF Payload(list) < Len(list)
    THEN list[Payload(list) + 1]
    ELSE [type |-> EndOfMessage, value |-> << >>]

Message(c) ==
    [header |-> c.header,
     tlvs |-> Append(SubSeq(c.tlvs, 1, Payload(c.tlvs)), EndOf(c.tlvs))]

Arrive ==
    /\ wire = "nothing"
    /\ wire' \in {"whole", "cut"}
    /\ UNCHANGED << cmdu, outcome, message >>

Receive ==
    /\ wire = "whole"
    /\ outcome = "none"
    /\ outcome' = "received"
    /\ message' = {Message(cmdu)}
    /\ UNCHANGED << cmdu, wire >>

Refuse ==
    /\ wire = "cut"
    /\ outcome = "none"
    /\ outcome' = "refused"
    /\ UNCHANGED << cmdu, wire, message >>

Next == Arrive \/ Receive \/ Refuse

Safety == Init /\ [][Next]_vars

(* What arrived is read to its end; that it arrives, they cannot promise. *)
Spec == Safety /\ WF_vars(Receive \/ Refuse)

=============================================================================
