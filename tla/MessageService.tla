--------------------------- MODULE MessageService ---------------------------
(***************************************************************************)
(* What the loop of Ieee1905Agent::Start promises whoever writes the       *)
(* handlers of messages, with nothing of how packets are received and      *)
(* parsed: the agent takes one packet after the other and makes of each,   *)
(* on its own and once, the message in it; the message goes to its handler *)
(* or, when its type has none, nowhere.  Only a packet that holds no       *)
(* message is refused, and only for want of memory is another one lost.    *)
(***************************************************************************)
EXTENDS Wire

CONSTANTS
    RxSize,         \* what the agent keeps of a packet
    HandledTypes    \* the types of messages that have a handler

VARIABLES
    phase,          \* of the packet that was taken last
    packet,         \* that packet, as it arrived
    message,        \* the message made of it, once it has been
    caught          \* the exception it ended with, or "none"

vars == << phase, packet, message, caught >>

Init ==
    /\ phase = "waiting"
    /\ packet = << >>
    /\ message = {}
    /\ caught = "none"

-----------------------------------------------------------------------------

Kept == IF Len(packet) <= RxSize THEN packet ELSE SubSeq(packet, 1, RxSize)

(***************************************************************************)
(* m is the message at the front of some bytes: the header, and the TLVs   *)
(* up to the first END_OF_MESSAGE, which lie where m.starts says.          *)
(***************************************************************************)
IsMessageIn(m, bytes) ==
    /\ Len(bytes) >= CmduHeaderSize
    /\ m.header = HeaderAt(bytes)
    /\ LiesIn(bytes, m.tlvs, m.starts)
    /\ EndsMessage(m.tlvs)
    /\ \A k \in 1 .. Len(m.tlvs) - 1 : ~IsEndOfMessage(m.tlvs[k])

-----------------------------------------------------------------------------

Take ==
    /\ phase = "waiting"
    /\ phase' = "taken"
    /\ packet' \in Seq(Byte)
    /\ caught' = "none"
    /\ UNCHANGED message

Read ==
    /\ phase = "taken"
    /\ phase' = "read"
    /\ \E m \in message' : message' = {m} /\ IsMessageIn(m, Kept)
    /\ UNCHANGED << packet, caught >>

Handle ==
    /\ phase = "read"
    /\ \E m \in message : m.header.type \in HandledTypes
    /\ phase' = "handling"
    /\ UNCHANGED << packet, message, caught >>

(* Back to waiting, with nothing kept of the packet. *)
Done(exception) ==
    /\ phase' = "waiting"
    /\ packet' = << >>
    /\ message' = {}
    /\ caught' = exception

Ignore ==
    /\ phase = "read"
    /\ \A m \in message : m.header.type \notin HandledTypes
    /\ Done("none")

Finish ==
    /\ phase = "handling"
    /\ Done("none")

Refuse ==
    /\ phase = "taken"
    /\ ~HoldsCmdu(Kept)
    /\ Done("runtime_error")

Lose ==
    /\ phase = "taken"
    /\ Done("bad_alloc")

Next == Take \/ Read \/ Handle \/ Ignore \/ Finish \/ Refuse \/ Lose

Safety == Init /\ [][Next]_vars

(* Every packet comes to its end. *)
Serves == []<>(phase = "waiting")

Spec == Safety /\ Serves

=============================================================================
