------------------------------- MODULE Agent --------------------------------
(***************************************************************************)
(* Ieee1905Agent: the thread in Start, which receives packets and hands    *)
(* their CMDUs to their handlers, and a thread that calls                  *)
(* SendTopologyDiscovery.  The two run at any speed; Pack and Parse take   *)
(* their steps in them.                                                    *)
(*                                                                         *)
(* The raw socket behind InterfaceManager is not in this repository: its   *)
(* two functions are stubs around a commented-out sendto() and recv().     *)
(* The model takes what those calls do: the wire holds packets of agents   *)
(* like this one and of other devices; it loses, repeats, reorders and     *)
(* pads them, and recv() overwrites the front of rx_buffer with as much as *)
(* fits and returns that length.                                           *)
(*                                                                         *)
(* Wherever the code allocates, std::bad_alloc may come: in the receiving  *)
(* thread the loop of Start catches it, in the sending one it goes to the  *)
(* caller, who may call again.                                             *)
(***************************************************************************)
EXTENDS Wire, FiniteSets

CONSTANTS
    RxSize,         \* of rx_buffer, 2048 in the program
    MacAddress,     \* the six bytes SendTopologyDiscovery announces
    Foreign,        \* the packets other devices may send
    Paddings,       \* what the wire may append to a packet
    MaxInFlight,    \* a bound on the packets the wire keeps, for TLC
    MaxCalls,       \* a bound on the calls of SendTopologyDiscovery, for TLC
    MaxFailures     \* a bound on those of them that fail, for TLC

ASSUME RxSizeAssumption == RxSize \in Nat

ASSUME MacAddressAssumption == MacAddress \in Seq(Byte) /\ FitsTlv(MacAddress)

ASSUME ForeignAssumption == Foreign \subseteq Seq(Byte)

ASSUME PaddingsAssumption == Paddings \subseteq Seq(Byte)

ASSUME MaxCallsAssumption == MaxCalls \in Nat

VARIABLES
    m_next_message_id,
    cmdu, total_size, packet, wptr, i, rooms, sender,       \* of Pack
    calls,          \* history: how many calls of SendTopologyDiscovery
    sent,           \* history: the packets given to SendPacket, with their calls
    inFlight,       \* those of them on the wire
    rx_buffer, len, loop,                                   \* of Start
    received, rptr, header, tlvs, offsets, parser,          \* of Parse
    arrived,        \* history: the packet of this turn of the loop, before any cut
    caught          \* history: the exception of the last packet that was copied, or "none"

packVars == << cmdu, total_size, packet, wptr, i, rooms, sender >>

sendVars == << m_next_message_id, packVars, calls, sent, inFlight >>

parseVars == << received, rptr, header, tlvs, offsets, parser >>

receiveVars == << rx_buffer, len, loop, parseVars, arrived, caught >>

vars == << sendVars, receiveVars >>

DeviceInformationType == 3

ASSUME DeviceInformationAssumption == DeviceInformationType \in Byte

TopologyDiscovery == 0

DeviceInformation == [type |-> DeviceInformationType, value |-> MacAddress]

(* CmduFlags::LAST_FRAGMENT, the default flags of a Cmdu: 0x80. *)
LastFragment == Base \div 2

Discovery(id) ==
    [header |-> [type |-> TopologyDiscovery, id |-> id, fragment |-> 0,
                 flags |-> LastFragment],
     tlvs |-> AddTlv(<< >>, DeviceInformation)]

Sender == INSTANCE Serializer
              WITH Cmdus <- {Discovery(id) : id \in Uint16},
                   buffer <- packet, ptr <- wptr, offsets <- rooms, at <- sender

Receiver == INSTANCE Parser
                WITH Buffers <- Seq(Byte), buffer <- received, ptr <- rptr, at <- parser

-----------------------------------------------------------------------------
(* HandleCmdu *)

CoreTypes == 0 .. 10 \union {13, 14, 17, 18}

(* 0x8000 and up: the half of the types with the top bit set. *)
EasyMesh(n) == (Base * Base) \div 2 + n

EasyMeshTypes ==
    {EasyMesh(n) : n \in {1, 2} \union 4 .. 10 \union 13 .. 16 \union 20 .. 23
                         \union 25 .. 28 \union 68 .. 71}

HandledTypes == CoreTypes \union EasyMeshTypes

-----------------------------------------------------------------------------
(* Where the threads are between two calls. *)

NotPacking ==
    /\ cmdu = Discovery(0)
    /\ total_size = 0
    /\ packet = << >>
    /\ wptr = 1
    /\ i = 1
    /\ rooms = << >>
    /\ sender = "idle"

NotParsing ==
    /\ received = << >>
    /\ rptr = 1
    /\ header = Receiver!NoHeader
    /\ tlvs = << >>
    /\ offsets = << >>
    /\ parser = "idle"

Init ==
    /\ m_next_message_id = 1
    /\ NotPacking
    /\ calls = 0
    /\ sent = << >>
    /\ inFlight = {}
    /\ rx_buffer = [k \in 1 .. RxSize |-> 0]
    /\ len = 0
    /\ loop = "receive"
    /\ NotParsing
    /\ arrived = << >>
    /\ caught = "none"

(* The locals of Pack, and of Parse, at the end of their scope. *)
PackIsOver ==
    /\ cmdu' = Discovery(0)
    /\ total_size' = 0
    /\ packet' = << >>
    /\ wptr' = 1
    /\ i' = 1
    /\ rooms' = << >>
    /\ sender' = "idle"

ParseIsOver ==
    /\ received' = << >>
    /\ rptr' = 1
    /\ header' = Receiver!NoHeader
    /\ tlvs' = << >>
    /\ offsets' = << >>
    /\ parser' = "idle"

-----------------------------------------------------------------------------
(* The thread that calls SendTopologyDiscovery *)

NextId_OneByte(id) == (id + 1) % Base

NextId(id) == (id + 1) % (Base * Base)

BuildDiscovery ==
    /\ sender = "idle"
    /\ calls < MaxCalls
    /\ Sender!Enter(Discovery(m_next_message_id))
    /\ m_next_message_id' = NextId(m_next_message_id)
    /\ calls' = calls + 1
    /\ UNCHANGED << sent, inFlight, receiveVars >>

PackDiscovery ==
    /\ Sender!Next
    /\ UNCHANGED << m_next_message_id, calls, sent, inFlight, receiveVars >>

(***************************************************************************)
(* SendPacket, whose result is ignored.  The wire keeps some of the        *)
(* packets on it.                                                          *)
(***************************************************************************)
SendPacket ==
    /\ sender = "return"
    /\ sent' = Append(sent, [call |-> calls, packet |-> packet])
    /\ inFlight' \in {kept \in SUBSET (inFlight \union {packet}) :
                          Cardinality(kept) <= MaxInFlight}
    /\ PackIsOver
    /\ UNCHANGED << m_next_message_id, calls, receiveVars >>

(***************************************************************************)
(* No memory for the TLV, for the buffer of Pack, or for the address to    *)
(* send to.  The call ends, its packet is not sent, and its identifier is  *)
(* spent.                                                                  *)
(***************************************************************************)
SendThrows ==
    /\ \/ sender = "size" /\ i = 1
       \/ sender \in {"allocate", "return"}
    /\ calls - Len(sent) <= MaxFailures
    /\ PackIsOver
    /\ UNCHANGED << m_next_message_id, calls, sent, inFlight, receiveVars >>

-----------------------------------------------------------------------------
(* The thread in Start *)

(***************************************************************************)
(* ReceivePacket returns a packet of the wire, which stays there to be     *)
(* received again.                                                         *)
(***************************************************************************)
Overwrite(buffer, bytes) ==
    [k \in 1 .. Len(buffer) |-> IF k <= Len(bytes) THEN bytes[k] ELSE buffer[k]]

ReceivePacket ==
    /\ loop = "receive"
    /\ \E p \in inFlight \union Foreign, padding \in Paddings :
          LET bytes == p \o padding
          IN  /\ rx_buffer' = Overwrite(rx_buffer, bytes)
              /\ len' = IF Len(bytes) <= RxSize THEN Len(bytes) ELSE RxSize
              /\ arrived' = bytes
    /\ loop' = "received"
    /\ UNCHANGED << parseVars, caught, sendVars >>

(* The locals of a turn of the loop, at its end. *)
TurnIsOver ==
    /\ len' = 0
    /\ arrived' = << >>
    /\ loop' = "receive"

(* It returns -1 for an error, or 0 for nothing. *)
ReceiveNothing ==
    /\ loop = "receive"
    /\ len' \in {-1, 0}
    /\ loop' = "received"
    /\ UNCHANGED << rx_buffer, parseVars, arrived, caught, sendVars >>

SkipNothing ==
    /\ loop = "received"
    /\ len <= 0
    /\ TurnIsOver
    /\ UNCHANGED << rx_buffer, parseVars, caught, sendVars >>

ReceivedData_WholeBuffer == rx_buffer

ReceivedData == SubSeq(rx_buffer, 1, len)

CallParse ==
    /\ loop = "received"
    /\ len > 0
    /\ Receiver!Enter(ReceivedData)
    /\ caught' = "none"
    /\ loop' = "parse"
    /\ UNCHANGED << rx_buffer, len, arrived, sendVars >>

Parse ==
    /\ loop = "parse"
    /\ Receiver!Next
    /\ UNCHANGED << rx_buffer, len, loop, arrived, caught, sendVars >>

Catch_OutsideTheLoop(exception) ==
    /\ ParseIsOver
    /\ caught' = exception
    /\ loop' = "ended"
    /\ UNCHANGED << rx_buffer, len, arrived, sendVars >>

Catch(exception) ==
    /\ ParseIsOver
    /\ caught' = exception
    /\ TurnIsOver
    /\ UNCHANGED << rx_buffer, sendVars >>

CatchRuntimeError ==
    /\ loop = "parse"
    /\ parser = "runtime_error"
    /\ Catch("runtime_error")

(***************************************************************************)
(* No memory for the copy of the packet, for a TLV, or for the text of an  *)
(* exception.                                                              *)
(***************************************************************************)
CatchBadAlloc ==
    /\ \/ loop = "received" /\ len > 0
       \/ loop = "parse" /\ parser = "tlvs"
       \/ loop = "parse" /\ parser = "header" /\ ~Receiver!LongEnough
    /\ Catch("bad_alloc")

(***************************************************************************)
(* HandleCmdu: a type of its switch goes to the Process function of that   *)
(* type, others to the default case.  The cmdu lives until it returns.     *)
(***************************************************************************)
HasHandler_AlsoDefault(type) == TRUE

HasHandler(type) == type \in HandledTypes

HandleCmdu ==
    /\ loop = "parse"
    /\ parser = "return"
    /\ HasHandler(header.type)
    /\ loop' = "process"
    /\ UNCHANGED << rx_buffer, len, parseVars, arrived, caught, sendVars >>

Returns ==
    /\ ParseIsOver
    /\ TurnIsOver
    /\ UNCHANGED << rx_buffer, caught, sendVars >>

HandleUnknown ==
    /\ loop = "parse"
    /\ parser = "return"
    /\ ~HasHandler(header.type)
    /\ Returns

(* Every Process function logs its name and returns. *)
Process ==
    /\ loop = "process"
    /\ Returns

-----------------------------------------------------------------------------

Sending == BuildDiscovery \/ PackDiscovery \/ SendPacket \/ SendThrows

Waiting == ReceivePacket \/ ReceiveNothing

Working ==
    \/ SkipNothing
    \/ CallParse
    \/ Parse
    \/ CatchRuntimeError
    \/ CatchBadAlloc
    \/ HandleCmdu
    \/ HandleUnknown
    \/ Process

Next == Sending \/ Waiting \/ Working

(***************************************************************************)
(* The thread in Start runs when it can.  Nothing makes recv() return, nor *)
(* anyone call SendTopologyDiscovery.                                      *)
(***************************************************************************)
Spec == Init /\ [][Next]_vars /\ WF_vars(Working)

-----------------------------------------------------------------------------
(* Properties *)

(* The agent's members and the locals of its threads have their types. *)
TypeOK ==
    /\ m_next_message_id \in Uint16
    /\ sender = "idle" => NotPacking
    /\ sender # "idle" => Sender!TypeOK
    /\ calls \in 0 .. MaxCalls
    /\ sent \in Seq([call : 1 .. calls, packet : Seq(Byte)])
    /\ inFlight \subseteq {sent[k].packet : k \in 1 .. Len(sent)}
    /\ rx_buffer \in Seq(Byte) /\ Len(rx_buffer) = RxSize
    /\ len \in -1 .. RxSize
    /\ loop \in {"receive", "received", "parse", "process"}
    /\ loop \in {"parse", "process"} => Receiver!TypeOK
    /\ loop \notin {"parse", "process"} => NotParsing
    /\ arrived \in Seq(Byte)
    /\ caught \in {"none", "runtime_error", "bad_alloc"}

(***************************************************************************)
(* HandleCmdu and the Process functions are called with what lies at the   *)
(* front of the packet that arrived, never with bytes an earlier and       *)
(* longer packet left in rx_buffer.                                        *)
(***************************************************************************)
NoStaleBytes ==
    parser = "return" =>
        header = HeaderAt(arrived) /\ LiesIn(arrived, tlvs, offsets)

Begins(bytes, p) == Len(p) <= Len(bytes) /\ SubSeq(bytes, 1, Len(p)) = p

(***************************************************************************)
(* A Topology Discovery that an agent sent, and that arrives and fits the  *)
(* receive buffer, is handled as it was sent: its identifier is the one    *)
(* that call took, also after calls that failed, and its TLVs are the      *)
(* address and an END_OF_MESSAGE.                                          *)
(***************************************************************************)
DiscoveryAsSent ==
    \A k \in 1 .. Len(sent) :
        Begins(arrived, sent[k].packet) /\ Len(sent[k].packet) <= RxSize =>
            /\ parser # "runtime_error"
            /\ parser = "return" =>
                  /\ header = Discovery(sent[k].call % (Base * Base)).header
                  /\ tlvs = << DeviceInformation, Sender!EndTlv >>

(***************************************************************************)
(* Two Topology Discoveries have the same identifier only if between their *)
(* calls all others have been used, though some of these calls may have    *)
(* failed.                                                                 *)
(***************************************************************************)
IdsReusedLast ==
    \A j, k \in 1 .. Len(sent) :
        j < k /\ sent[k].call - sent[j].call < Base * Base =>
            HeaderAt(sent[j].packet).id # HeaderAt(sent[k].packet).id

(***************************************************************************)
(* Whatever arrives, the loop of Start comes back to wait for the next     *)
(* packet: no exception ends it.                                           *)
(***************************************************************************)
KeepsReceiving == []<>(loop = "receive")

(***************************************************************************)
(* The receiving thread does what MessageService promises.  A fragment is  *)
(* a message like any other there: what the agent makes of a packet        *)
(* depends on that packet alone, and each goes to its handler once.        *)
(***************************************************************************)
Phase ==
    CASE loop = "received" /\ len > 0 -> "taken"
      [] loop = "parse" -> IF parser = "return" THEN "read" ELSE "taken"
      [] loop = "process" -> "handling"
      [] OTHER -> "waiting"

Service ==
    INSTANCE MessageService
        WITH phase <- Phase,
             packet <- IF Phase = "waiting" THEN << >> ELSE arrived,
             message <- IF Phase \in {"read", "handling"}
                        THEN {[header |-> header, tlvs |-> tlvs, starts |-> offsets]}
                        ELSE {},
             caught <- IF Phase = "waiting" THEN caught ELSE "none"

ServesMessages == Service!Spec

=============================================================================
