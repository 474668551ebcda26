------------------------------- MODULE Codec --------------------------------
(***************************************************************************)
(* One CMDU from one agent to another: MessageSerializer::Pack at the      *)
(* sender, the wire, and MessageParser::Parse at the receiver.             *)
(*                                                                         *)
(* The wire is not in this repository.  It may pad a packet (an Ethernet   *)
(* frame has a minimum size), and a receiver's recv() keeps what fits its  *)
(* buffer, 2048 bytes in Ieee1905Agent::Start.                             *)
(***************************************************************************)
EXTENDS Wire

CONSTANTS
    Cmdus,      \* the CMDUs that may be sent
    Paddings,   \* what the wire may append to a packet
    RxSizes     \* the sizes the receive buffer may have

ASSUME PaddingsAssumption == Paddings \subseteq Seq(Byte)

ASSUME RxSizesAssumption == RxSizes \subseteq Nat

VARIABLES
    cmdu, total_size, packet, wptr, i, rooms, sender,       \* of Pack
    received, rptr, header, tlvs, offsets, receiver         \* of Parse

packVars == << cmdu, total_size, packet, wptr, i, rooms, sender >>

parseVars == << received, rptr, header, tlvs, offsets, receiver >>

vars == << packVars, parseVars >>

Sender == INSTANCE Serializer
              WITH buffer <- packet, ptr <- wptr, offsets <- rooms, at <- sender

ASSUME CmdusAssumption == Cmdus \subseteq Sender!Cmdu

Receiver == INSTANCE Parser
                WITH Buffers <- Seq(Byte), buffer <- received, ptr <- rptr,
                     at <- receiver

(***************************************************************************)
(* Nothing has arrived yet.                                                *)
(***************************************************************************)
Waiting ==
    /\ received = << >>
    /\ rptr = 1
    /\ header = Receiver!NoHeader
    /\ tlvs = << >>
    /\ offsets = << >>
    /\ receiver = "waiting"

Init == Sender!Init /\ Waiting

FirstBytes(bytes, n) == IF Len(bytes) <= n THEN bytes ELSE SubSeq(bytes, 1, n)

Send == Sender!Next /\ UNCHANGED parseVars

Deliver ==
    /\ sender = "return"
    /\ receiver = "waiting"
    /\ \E padding \in Paddings, size \in RxSizes :
          Receiver!Enter(FirstBytes(packet \o padding, size))
    /\ UNCHANGED packVars

Receive == Receiver!Next /\ UNCHANGED packVars

Next == Send \/ Deliver \/ Receive

(***************************************************************************)
(* Pack and Parse call nothing that blocks.  But nothing makes a packet    *)
(* arrive: the result of SendPacket is ignored, and the wire may lose what *)
(* it was given.                                                           *)
(***************************************************************************)
Fairness == WF_vars(Send) /\ WF_vars(Receive)

Spec == Init /\ [][Next]_vars /\ Fairness

-----------------------------------------------------------------------------
(* Properties *)

(***************************************************************************)
(* What a receiver should make of the TLVs of a CMDU: those up to the      *)
(* first END_OF_MESSAGE, which Pack adds where the caller did not.         *)
(***************************************************************************)
FirstEnd(list) ==
    CHOOSE k \in 1 .. Len(list) :
        IsEndOfMessage(list[k]) /\ \A j \in 1 .. k - 1 : ~IsEndOfMessage(list[j])

Packed == Sender!Terminated(cmdu.tlvs)

ToReceive == SubSeq(Packed, 1, FirstEnd(Packed))

(* Where the message ends in the packet. *)
MessageEnd == rooms[FirstEnd(Packed) + 1] - 1

(* The two ends keep the types of their locals. *)
TypeOK ==
    /\ Sender!TypeOK
    /\ receiver = "waiting" => Waiting
    /\ receiver # "waiting" => Receiver!TypeOK

(***************************************************************************)
(* A CMDU that Parse returns is the one that was packed: the same header   *)
(* and TLVs, whatever the padding, and never one misread from a packet     *)
(* that was cut.                                                           *)
(***************************************************************************)
ReceivesWhatWasSent ==
    receiver = "return" => header = cmdu.header /\ tlvs = ToReceive

(***************************************************************************)
(* Parse throws for no packet that Pack made, unless the receive buffer    *)
(* cut it before the end of its first END_OF_MESSAGE.                      *)
(***************************************************************************)
ThrowsOnlyIfCut == receiver = "runtime_error" => Len(received) < MessageEnd

(***************************************************************************)
(* The two functions and the wire do what CmduTransfer promises: a packet  *)
(* that arrives whole, up to its END_OF_MESSAGE, is received as the        *)
(* message of the CMDU; one that was cut is refused; and once a packet has *)
(* arrived, one or the other does happen.                                  *)
(***************************************************************************)
HowItArrived ==
    IF receiver = "waiting" THEN "nothing"
    ELSE IF Len(received) >= MessageEnd THEN "whole" ELSE "cut"

Outcome ==
    CASE receiver = "return" -> "received"
      [] receiver = "runtime_error" -> "refused"
      [] OTHER -> "none"

Understood ==
    IF receiver = "return" THEN {[header |-> header, tlvs |-> tlvs]} ELSE {}

Transfer ==
    INSTANCE CmduTransfer
        WITH wire <- HowItArrived, outcome <- Outcome, message <- Understood

Transfers == Transfer!Spec

=============================================================================
