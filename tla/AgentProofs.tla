---------------------------- MODULE AgentProofs -----------------------------
(***************************************************************************)
(* The agent, for every Base, receive buffer, packet of other devices and  *)
(* number of calls: what its handlers are given is what arrived, a         *)
(* Topology Discovery is handled as it was sent, identifiers come again as *)
(* late as they can, and the agent serves packets as MessageService says.  *)
(*                                                                         *)
(* Parse and Pack keep their own invariants in it, so the facts proved of  *)
(* them are used here through instances of their proofs.                   *)
(***************************************************************************)
EXTENDS Agent, WireProofs

Packing == INSTANCE SerializerProofs
               WITH Cmdus <- {Discovery(id) : id \in Uint16},
                    buffer <- packet, ptr <- wptr, offsets <- rooms, at <- sender

Parsing == INSTANCE ParserProofs
               WITH Buffers <- Seq(Byte), buffer <- received, ptr <- rptr, at <- parser

-----------------------------------------------------------------------------
(* The instances speak of the same things *)

LEMMA SameWords ==
    /\ Packing!Byte = Byte /\ Packing!Uint16 = Uint16 /\ Packing!Tlv = Tlv
    /\ Packing!Header = Header
    /\ Packing!EndTlv = [type |-> EndOfMessage, value |-> << >>]
    /\ Sender!EndTlv = [type |-> EndOfMessage, value |-> << >>]
    /\ Parsing!Byte = Byte /\ Parsing!Tlv = Tlv
<1> QED
    BY DEF Packing!Byte, Byte, Packing!Uint16, Uint16, Packing!Tlv, Tlv, Packing!Header,
           Header, Packing!EndTlv, Sender!EndTlv, Packing!EndOfMessage,
           Sender!EndOfMessage, EndOfMessage, Parsing!Byte, Parsing!Tlv

LEMMA SameReads ==
    ASSUME NEW b
    PROVE  /\ \A p : Parsing!TlvAt(b, p) = TlvAt(b, p)
           /\ \A p : Packing!TlvAt(b, p) = TlvAt(b, p)
           /\ Parsing!HeaderAt(b) = HeaderAt(b)
           /\ Packing!HeaderAt(b) = HeaderAt(b)
           /\ Parsing!HoldsCmdu(b) <=> HoldsCmdu(b)
<1> QED
    BY DEF Parsing!TlvAt, Packing!TlvAt, TlvAt, Parsing!ValueAt, Packing!ValueAt, ValueAt,
           Parsing!BytesAt, Packing!BytesAt, BytesAt, Parsing!LengthAt, Packing!LengthAt,
           LengthAt, Parsing!TlvHeaderSize, Packing!TlvHeaderSize, TlvHeaderSize,
           Parsing!HeaderAt, Packing!HeaderAt, HeaderAt, Parsing!Uint16At,
           Packing!Uint16At, Uint16At, Parsing!Uint16Of, Packing!Uint16Of, Uint16Of,
           Parsing!ByteAt, Packing!ByteAt, ByteAt, Parsing!HoldsCmdu, HoldsCmdu,
           Parsing!IsTlvChain, IsTlvChain, Parsing!TlvFitsAt, TlvFitsAt,
           Parsing!EndOfTlvAt, EndOfTlvAt, Parsing!CmduHeaderSize, CmduHeaderSize,
           Parsing!EndOfMessage, EndOfMessage

LEMMA SameLying ==
    ASSUME NEW b, NEW list, NEW starts
    PROVE  /\ Parsing!LiesIn(b, list, starts) <=> LiesIn(b, list, starts)
           /\ Packing!LiesIn(b, list, starts) <=> LiesIn(b, list, starts)
           /\ Service!LiesIn(b, list, starts) <=> LiesIn(b, list, starts)
<1> QED
    BY DEF Parsing!LiesIn, Packing!LiesIn, Service!LiesIn, LiesIn,
           Parsing!TlvAt, Packing!TlvAt, Service!TlvAt, TlvAt,
           Parsing!ValueAt, Packing!ValueAt, Service!ValueAt, ValueAt,
           Parsing!BytesAt, Packing!BytesAt, Service!BytesAt, BytesAt,
           Parsing!LengthAt, Packing!LengthAt, Service!LengthAt, LengthAt,
           Parsing!Uint16At, Packing!Uint16At, Service!Uint16At, Uint16At,
           Parsing!Uint16Of, Packing!Uint16Of, Service!Uint16Of, Uint16Of,
           Parsing!ByteAt, Packing!ByteAt, Service!ByteAt, ByteAt,
           Parsing!TlvFitsAt, Packing!TlvFitsAt, Service!TlvFitsAt, TlvFitsAt,
           Parsing!EndOfTlvAt, Packing!EndOfTlvAt, Service!EndOfTlvAt, EndOfTlvAt,
           Parsing!TlvHeaderSize, Packing!TlvHeaderSize, Service!TlvHeaderSize, TlvHeaderSize,
           Parsing!CmduHeaderSize, Packing!CmduHeaderSize, Service!CmduHeaderSize,
           CmduHeaderSize

LEMMA SameParse ==
    /\ Receiver!Next <=> Parsing!Next
    /\ \A b : Receiver!Enter(b) <=> Parsing!Enter(b)
    /\ Receiver!TypeOK <=> Parsing!TypeOK
<1> QED
    BY DEF Parsing!Next, Receiver!Next,
           Parsing!ThrowShortBuffer, Receiver!ThrowShortBuffer,
           Parsing!ReadHeader, Receiver!ReadHeader,
           Parsing!ThrowTlvHeader, Receiver!ThrowTlvHeader,
           Parsing!ThrowTlvValue, Receiver!ThrowTlvValue,
           Parsing!ReadTlv, Receiver!ReadTlv, Parsing!Return, Receiver!Return,
           Parsing!ThrowUnterminated, Receiver!ThrowUnterminated,
           Parsing!Throw, Receiver!Throw, Parsing!LongEnough, Receiver!LongEnough,
           Parsing!InLoop, Receiver!InLoop, Parsing!TlvHeaderFits, Receiver!TlvHeaderFits,
           Parsing!ValueFits, Receiver!ValueFits, Parsing!AddTlv, Receiver!AddTlv,
           Parsing!AfterTlv, Receiver!AfterTlv, Parsing!NextTlv, Receiver!NextTlv,
           Parsing!LeftLoop, Receiver!LeftLoop, Parsing!Terminated, Receiver!Terminated,
           Parsing!EndsMessage, Receiver!EndsMessage,
           Parsing!IsEndOfMessage, Receiver!IsEndOfMessage,
           Parsing!EndOfMessage, Receiver!EndOfMessage,
           Parsing!TlvAt, Receiver!TlvAt, Parsing!ValueAt, Receiver!ValueAt,
           Parsing!BytesAt, Receiver!BytesAt, Parsing!LengthAt, Receiver!LengthAt,
           Parsing!HeaderAt, Receiver!HeaderAt, Parsing!Uint16At, Receiver!Uint16At,
           Parsing!Uint16Of, Receiver!Uint16Of, Parsing!ByteAt, Receiver!ByteAt,
           Parsing!TlvHeaderSize, Receiver!TlvHeaderSize,
           Parsing!CmduHeaderSize, Receiver!CmduHeaderSize,
           Parsing!Enter, Receiver!Enter, Parsing!NoHeader, Receiver!NoHeader,
           Parsing!TypeOK, Receiver!TypeOK, Parsing!Points, Receiver!Points,
           Parsing!Byte, Receiver!Byte, Parsing!Uint16, Receiver!Uint16,
           Parsing!Tlv, Receiver!Tlv, Parsing!Header, Receiver!Header

LEMMA SamePack ==
    /\ Sender!Next <=> Packing!Next
    /\ \A c : Sender!Enter(c) <=> Packing!Enter(c)
    /\ Sender!TypeOK <=> Packing!TypeOK
<1> QED
    BY DEF Packing!Next, Sender!Next, Packing!AddSize, Sender!AddSize,
           Packing!AddEndSize, Sender!AddEndSize, Packing!Allocate, Sender!Allocate,
           Packing!WriteHeader, Sender!WriteHeader, Packing!WriteTlv, Sender!WriteTlv,
           Packing!WriteEnd, Sender!WriteEnd,
           Packing!AppendEndOfMessage, Sender!AppendEndOfMessage,
           Packing!EndsMessage, Sender!EndsMessage,
           Packing!IsEndOfMessage, Sender!IsEndOfMessage,
           Packing!EndOfMessage, Sender!EndOfMessage, Packing!EndTlv, Sender!EndTlv,
           Packing!Written, Sender!Written, Packing!HeaderBytes, Sender!HeaderBytes,
           Packing!CmduVersion, Sender!CmduVersion, Packing!TlvBytes, Sender!TlvBytes,
           Packing!HighByte, Sender!HighByte, Packing!LowByte, Sender!LowByte,
           Packing!GetLength, Sender!GetLength,
           Packing!GetPacketSize, Sender!GetPacketSize,
           Packing!TlvHeaderSize, Sender!TlvHeaderSize,
           Packing!CmduHeaderSize, Sender!CmduHeaderSize,
           Packing!Enter, Sender!Enter, Packing!TypeOK, Sender!TypeOK,
           Packing!Points, Sender!Points, Packing!Cmdu, Sender!Cmdu,
           Packing!FitsTlv, Sender!FitsTlv, Packing!Byte, Sender!Byte,
           Packing!Uint16, Sender!Uint16, Packing!Tlv, Sender!Tlv,
           Packing!Header, Sender!Header

-----------------------------------------------------------------------------
(* Pack and Parse in the agent *)

LEMMA BaseIsBig ==
    /\ Base \in Nat /\ Base >= 2
    /\ Base * Base \in Nat /\ Base * Base > 1
<1>1. Base \in Nat /\ Base >= 2
    BY BaseAssumption
<1>2. Base * Base >= 2 * Base
    BY <1>1
<1> QED
    BY <1>1, <1>2

LEMMA DiscoveryIs ==
    ASSUME NEW id \in Uint16
    PROVE  /\ Discovery(id) \in Packing!Cmdu
           /\ Discovery(id).tlvs = << DeviceInformation >>
           /\ Discovery(id).header \in Header
           /\ Discovery(id).header.id = id
           /\ DeviceInformation \in Tlv
<1>1. Base \in Nat /\ Base >= 2 /\ Base * Base \in Nat /\ Base * Base > 1
    BY BaseIsBig
<1>2. LastFragment \in Byte /\ 0 \in Byte /\ TopologyDiscovery \in Uint16
    BY <1>1 DEF LastFragment, Byte, Uint16, TopologyDiscovery
<1>3. DeviceInformation \in Tlv /\ FitsTlv(DeviceInformation.value)
    BY DeviceInformationAssumption, MacAddressAssumption DEF DeviceInformation, Tlv
<1>4. Discovery(id).tlvs = << DeviceInformation >>
    BY DEF Discovery, AddTlv, EndsMessage
<1>5. Discovery(id).header \in Header
    BY <1>2 DEF Discovery, Header
<1>6. Discovery(id).tlvs \in Seq({tlv \in Packing!Tlv : Packing!FitsTlv(tlv.value)})
    BY <1>3, <1>4, SameWords DEF Packing!FitsTlv, FitsTlv
<1>7. Discovery(id) \in Packing!Cmdu
    BY <1>5, <1>6, SameWords DEF Packing!Cmdu, Discovery
<1> QED
    BY <1>3, <1>4, <1>5, <1>7 DEF Discovery

LEMMA DiscoveriesAreCmdus == {Discovery(id) : id \in Uint16} \subseteq Packing!Cmdu
<1> QED
    BY DiscoveryIs

LEMMA PackEnters ==
    ASSUME NEW id \in Uint16, Sender!Enter(Discovery(id))
    PROVE  Packing!IInv' /\ cmdu' = Discovery(id)
<1>1. Packing!Enter(Discovery(id))
    BY SamePack
<1>2. Packing!IInv'
    BY <1>1, DiscoveryIs, DiscoveriesAreCmdus, BaseAssumption, Packing!EnterIInv
<1> QED
    BY <1>1, <1>2 DEF Packing!Enter

LEMMA PackKeeps ==
    ASSUME Packing!IInv, Sender!Next
    PROVE  Packing!IInv' /\ cmdu' = cmdu /\ sender' # "idle"
<1>1. Packing!Next
    BY SamePack
<1>2. Packing!IInv'
    BY <1>1, DiscoveriesAreCmdus, BaseAssumption, Packing!NextIInv
<1> QED
    BY <1>1, <1>2 DEF Packing!Next, Packing!AddSize, Packing!AddEndSize, Packing!Allocate,
                      Packing!WriteHeader, Packing!WriteTlv, Packing!WriteEnd,
                      Packing!IInv, Packing!TypeOK, Packing!Points

LEMMA ParseEnters ==
    ASSUME NEW b \in Seq(Byte), Receiver!Enter(b)
    PROVE  Parsing!IInv' /\ received' = b /\ parser' = "header"
<1>1. Parsing!Enter(b)
    BY SameParse
<1>2. Parsing!IInv'
    BY <1>1, SameWords, BaseAssumption, Parsing!EnterIInv
<1> QED
    BY <1>1, <1>2 DEF Parsing!Enter

LEMMA ParseKeeps ==
    ASSUME Parsing!IInv, Receiver!Next
    PROVE  /\ Parsing!IInv' /\ received' = received
           /\ parser \in {"header", "tlvs", "end"}
<1>1. Parsing!Next
    BY SameParse
<1>2. Parsing!IInv'
    BY <1>1, SameWords, BaseAssumption, Parsing!NextIInv
<1> QED
    BY <1>1, <1>2 DEF Parsing!Next, Parsing!ThrowShortBuffer, Parsing!ReadHeader,
                      Parsing!ThrowTlvHeader, Parsing!ThrowTlvValue, Parsing!ReadTlv,
                      Parsing!Return, Parsing!ThrowUnterminated, Parsing!Throw,
                      Parsing!InLoop, Parsing!LeftLoop

(***************************************************************************)
(* A message that Parse returns, in the words of this module.              *)
(***************************************************************************)
LEMMA ParseReturns ==
    ASSUME Parsing!IInv, parser = "return"
    PROVE  /\ Len(received) >= CmduHeaderSize
           /\ header = HeaderAt(received)
           /\ LiesIn(received, tlvs, offsets)
           /\ EndsMessage(tlvs)
           /\ \A k \in 1 .. Len(tlvs) - 1 : ~IsEndOfMessage(tlvs[k])
<1>1. Parsing!ReturnsWhatTheBufferHolds
    BY SameWords, BaseAssumption, Parsing!IInvReturnsIt
<1>2. Len(received) >= CmduHeaderSize
    BY DEF Parsing!IInv, Parsing!ReadSoFar, Parsing!LongEnough, Parsing!CmduHeaderSize,
           CmduHeaderSize
<1> QED
    BY <1>1, <1>2, SameReads, SameLying
       DEF Parsing!ReturnsWhatTheBufferHolds, Parsing!EndsMessage, EndsMessage,
           Parsing!IsEndOfMessage, IsEndOfMessage, Parsing!EndOfMessage, EndOfMessage

LEMMA ParseThrows ==
    ASSUME Parsing!IInv, parser = "runtime_error"
    PROVE  ~HoldsCmdu(received)
<1> QED
    BY SameReads DEF Parsing!IInv, Parsing!ThrownWithoutCmdu

LEMMA ParseTypes ==
    ASSUME Parsing!IInv
    PROVE  /\ Receiver!TypeOK
           /\ received \in Seq(Byte)
           /\ parser \in {"header", "tlvs", "end", "return", "runtime_error"}
<1> QED
    BY SameParse, SameWords DEF Parsing!IInv, Parsing!TypeOK, Parsing!Points

-----------------------------------------------------------------------------
(* The packet of a Topology Discovery *)

NoValue == [type |-> EndOfMessage, value |-> << >>]

DiscoveryTlvs == << DeviceInformation, NoValue >>

IsDiscovery(p, id) ==
    /\ p \in Seq(Byte)
    /\ HeaderAt(p) = Discovery(id).header
    /\ \E starts \in Seq(Nat) :
          LiesIn(p, DiscoveryTlvs, starts) /\ starts[3] = Len(p) + 1

LEMMA PackReturns ==
    ASSUME Packing!IInv, sender = "return", NEW id \in Uint16, cmdu = Discovery(id)
    PROVE  IsDiscovery(packet, id)
<1>1. Packing!PacketHoldsTheCmdu
    BY DiscoveriesAreCmdus, BaseAssumption, Packing!IInvHoldsTheCmdu
<1>2. cmdu.tlvs = << DeviceInformation >> /\ DeviceInformation.type # EndOfMessage
    BY DiscoveryIs DEF DeviceInformation, DeviceInformationType, EndOfMessage
<1>3. ~Packing!EndsMessage(cmdu.tlvs)
    BY <1>2 DEF Packing!EndsMessage, Packing!IsEndOfMessage, Packing!EndOfMessage,
                EndOfMessage
<1>4. Packing!Terminated(cmdu.tlvs) = DiscoveryTlvs
    <2>1. Packing!EndTlv = NoValue
        BY SameWords DEF NoValue
    <2>2. Packing!Terminated(cmdu.tlvs) = Append(<< DeviceInformation >>, NoValue)
        BY <1>2, <1>3, <2>1 DEF Packing!Terminated
    <2>3. NoValue \in Tlv
        BY BaseIsBig DEF NoValue, Tlv, Byte, EndOfMessage
    <2> QED
        BY <2>2, <2>3, DiscoveryIs, OneAndAnother DEF DiscoveryTlvs
<1>5. LiesIn(packet, DiscoveryTlvs, rooms) /\ HeaderAt(packet) = cmdu.header
    BY <1>1, <1>4, SameLying, SameReads DEF Packing!PacketHoldsTheCmdu
<1>6. Len(rooms) = 3 /\ rooms[3] = Len(packet) + 1
    BY <1>1, <1>5 DEF Packing!PacketHoldsTheCmdu, LiesIn, DiscoveryTlvs
<1>7. packet \in Seq(Byte) /\ rooms \in Seq(Nat)
    BY SameWords DEF Packing!IInv, Packing!TypeOK
<1> QED
    BY <1>5, <1>6, <1>7 DEF IsDiscovery

(***************************************************************************)
(* Where the TLVs of a Topology Discovery are in whatever begins with its  *)
(* packet.                                                                 *)
(***************************************************************************)
LEMMA DiscoveryBegins ==
    ASSUME NEW id \in Uint16, NEW p \in Seq(Byte), IsDiscovery(p, id),
           NEW b \in Seq(Byte), BeginsWith(b, p)
    PROVE  /\ HeaderAt(b) = Discovery(id).header
           /\ HoldsCmdu(b)
           /\ \E q \in Nat :
                 /\ TlvAt(b, CmduHeaderSize + 1) = DeviceInformation
                 /\ EndOfTlvAt(b, CmduHeaderSize + 1) = q
                 /\ TlvAt(b, q) = NoValue
<1>1. Len(p) \in Nat /\ Len(b) \in Nat /\ Len(p) <= Len(b)
    BY DEF BeginsWith
<1>2. PICK starts \in Seq(Nat) :
          LiesIn(p, DiscoveryTlvs, starts) /\ starts[3] = Len(p) + 1
    BY DEF IsDiscovery
<1> DEFINE s == starts[1]
           q == starts[2]
<1>3. Len(DiscoveryTlvs) = 2 /\ DiscoveryTlvs[1] = DeviceInformation /\ DiscoveryTlvs[2] = NoValue
    BY DEF DiscoveryTlvs
<1>4. /\ s = CmduHeaderSize + 1 /\ q \in Nat /\ Len(starts) = 3
      /\ TlvFitsAt(p, s) /\ TlvAt(p, s) = DeviceInformation /\ EndOfTlvAt(p, s) = q
      /\ TlvFitsAt(p, q) /\ TlvAt(p, q) = NoValue /\ EndOfTlvAt(p, q) = Len(p) + 1
    <2>1. Len(starts) = 3 /\ s = CmduHeaderSize + 1
        BY <1>2, <1>3 DEF LiesIn
    <2>2. \A k \in 1 .. 2 : /\ TlvFitsAt(p, starts[k])
                            /\ DiscoveryTlvs[k] = TlvAt(p, starts[k])
                            /\ starts[k + 1] = EndOfTlvAt(p, starts[k])
        BY <1>2, <1>3 DEF LiesIn
    <2>3. TlvFitsAt(p, s) /\ TlvAt(p, s) = DeviceInformation /\ EndOfTlvAt(p, s) = q
        <3>1. 1 \in 1 .. 2 /\ 1 + 1 = 2
            OBVIOUS
        <3> QED
            BY <1>3, <2>2, <3>1
    <2>4. TlvFitsAt(p, q) /\ TlvAt(p, q) = NoValue /\ EndOfTlvAt(p, q) = starts[3]
        <3>1. 2 \in 1 .. 2 /\ 2 + 1 = 3
            OBVIOUS
        <3> QED
            BY <1>3, <2>2, <3>1
    <2>5. q \in Nat
        <3>1. 2 \in 1 .. 3
            OBVIOUS
        <3> QED
            BY <2>1, <3>1, HasElement, Zenon
    <2> QED
        BY <1>2, <2>1, <2>3, <2>4, <2>5
<1>5. s \in Int /\ q \in Int
    BY <1>4 DEF CmduHeaderSize
<1>6. TlvFitsAt(b, s) /\ TlvAt(b, s) = DeviceInformation /\ EndOfTlvAt(b, s) = q
    BY <1>4, <1>5, TlvInFront
<1>7. TlvFitsAt(b, q) /\ TlvAt(b, q) = NoValue
    BY <1>4, <1>5, TlvInFront
<1>8. q >= s + 3 /\ Len(p) + 1 >= q + 3
    <2>1. LengthAt(p, s) \in Nat /\ LengthAt(p, q) \in Nat
        BY <1>1, <1>5, LengthAtType
    <2>2. q = s + 3 + LengthAt(p, s) /\ Len(p) + 1 = q + 3 + LengthAt(p, q)
        BY <1>4 DEF EndOfTlvAt, TlvHeaderSize
    <2> DEFINE l == LengthAt(p, s)
               m == LengthAt(p, q)
               end == Len(p) + 1
    <2>3. l \in Nat /\ m \in Nat /\ q = s + 3 + l /\ end = q + 3 + m
        BY <2>1, <2>2
    <2> HIDE DEF l, m, end
    <2>4. q >= s + 3 /\ end >= q + 3
        <3> HIDE DEF s, q
        <3> QED
            BY <1>5, <2>3
    <2> QED
        BY <2>4 DEF end
<1>9. HeaderAt(b) = Discovery(id).header
    <2>1. Len(p) >= CmduHeaderSize
        BY <1>1, <1>4, <1>8 DEF CmduHeaderSize
    <2> QED
        BY <2>1, HeaderInFront DEF IsDiscovery
<1>10. HoldsCmdu(b)
    <2>1. {s, q} \in SUBSET (CmduHeaderSize + 1 .. Len(b))
        BY <1>1, <1>4, <1>8 DEF CmduHeaderSize
    <2>2. ByteAt(b, q) = EndOfMessage
        BY <1>7 DEF TlvAt, NoValue
    <2>3. IsTlvChain(b, {s, q})
        BY <1>4, <1>6, <1>7, <2>2 DEF IsTlvChain
    <2>4. Len(b) >= CmduHeaderSize
        BY <1>1, <1>4, <1>8 DEF CmduHeaderSize
    <2> QED
        BY <2>1, <2>3, <2>4 DEF HoldsCmdu
<1> QED
    BY <1>4, <1>6, <1>7, <1>9, <1>10

(***************************************************************************)
(* A message that begins with the TLVs of a Topology Discovery is one.     *)
(***************************************************************************)
LEMMA DiscoveryReadBack ==
    ASSUME NEW b \in Seq(Byte), NEW list \in Seq(Tlv), NEW starts, LiesIn(b, list, starts),
           EndsMessage(list), \A k \in 1 .. Len(list) - 1 : ~IsEndOfMessage(list[k]),
           NEW q \in Nat, TlvAt(b, CmduHeaderSize + 1) = DeviceInformation,
           EndOfTlvAt(b, CmduHeaderSize + 1) = q, TlvAt(b, q) = NoValue
    PROVE  list = DiscoveryTlvs
<1>1. Len(list) \in Nat /\ Len(list) >= 1 /\ IsEndOfMessage(list[Len(list)])
    BY DEF EndsMessage
<1>2. 1 \in 1 .. Len(list) /\ starts[1] = CmduHeaderSize + 1
    BY <1>1 DEF LiesIn
<1>3. list[1] = DeviceInformation /\ starts[2] = q
    <2>1. list[1] = TlvAt(b, starts[1]) /\ starts[1 + 1] = EndOfTlvAt(b, starts[1])
        BY <1>2 DEF LiesIn
    <2>2. 1 + 1 = 2
        OBVIOUS
    <2> QED
        BY <1>2, <2>1, <2>2
<1>4. ~IsEndOfMessage(list[1])
    BY <1>3 DEF IsEndOfMessage, DeviceInformation, DeviceInformationType, EndOfMessage
<1>5. Len(list) # 1
    BY <1>1, <1>4
<1>6. 2 \in 1 .. Len(list)
    <2>1. \A n \in Nat : n >= 1 /\ n # 1 => 2 \in 1 .. n
        OBVIOUS
    <2> QED
        BY <1>1, <1>5, <2>1, Zenon
<1>7. list[2] = NoValue
    BY <1>3, <1>6 DEF LiesIn
<1>8. IsEndOfMessage(list[2])
    BY <1>7 DEF IsEndOfMessage, NoValue
<1>9. Len(list) = 2
    <2> SUFFICES ASSUME Len(list) # 2 PROVE FALSE
        OBVIOUS
    <2>1. 2 \in 1 .. Len(list) - 1
        BY <1>1, <1>6
    <2> QED
        BY <1>8, <2>1
<1> QED
    BY <1>3, <1>7, <1>9 DEF DiscoveryTlvs

-----------------------------------------------------------------------------
(* The inductive invariant: the thread that sends *)

(* The identifier a call takes is its number, as far as 16 bits count. *)
IdOf(call) == call % (Base * Base)

NextIdIsFree ==
    /\ calls \in 0 .. MaxCalls
    /\ m_next_message_id = IdOf(calls + 1)

(* In a call, Pack is at work on the message of this call. *)
PacksThisCall ==
    /\ sender = "idle" => NotPacking
    /\ sender # "idle" => Packing!IInv /\ cmdu = Discovery(IdOf(calls)) /\ calls >= 1

(* The packets sent, in the order of their calls, and each with its own. *)
Record == [call : 1 .. calls, packet : Seq(Byte)]

SentInOrder ==
    /\ sent \in Seq(Record)
    /\ \A j, k \in 1 .. Len(sent) : j < k => sent[j].call < sent[k].call
    /\ \A k \in 1 .. Len(sent) : sender # "idle" => sent[k].call < calls

SentAreDiscoveries ==
    \A k \in 1 .. Len(sent) : IsDiscovery(sent[k].packet, IdOf(sent[k].call))

SendInv ==
    /\ NextIdIsFree
    /\ PacksThisCall
    /\ SentInOrder
    /\ SentAreDiscoveries
    /\ inFlight \subseteq {sent[k].packet : k \in 1 .. Len(sent)}

LEMMA IdOfType ==
    ASSUME NEW n \in Nat
    PROVE  /\ IdOf(n) \in Uint16
           /\ NextId(IdOf(n)) = IdOf(n + 1)
<1>1. IdOf(n) \in 0 .. Base * Base - 1
    BY BaseIsBig DEF IdOf
<1> QED
    BY <1>1, BaseIsBig, CountOn DEF IdOf, NextId, Uint16

LEMMA InitSendInv == Init => SendInv
<1> SUFFICES ASSUME Init PROVE SendInv
    OBVIOUS
<1>1. NextIdIsFree
    BY BaseIsBig, SmallModulo, MaxCallsAssumption DEF Init, NextIdIsFree, IdOf
<1> QED
    BY <1>1 DEF Init, NotPacking, SendInv, PacksThisCall, SentInOrder, SentAreDiscoveries

(***************************************************************************)
(* A step that neither sends nor begins a call leaves the record be.       *)
(***************************************************************************)
LEMMA RecordKept ==
    ASSUME SendInv, UNCHANGED << m_next_message_id, calls, sent, inFlight >>,
           sender = "idle" => sender' = "idle", PacksThisCall'
    PROVE  SendInv'
<1> QED
    BY DEF SendInv, NextIdIsFree, SentInOrder, SentAreDiscoveries, Record

LEMMA BuildDiscoverySendInv ==
    ASSUME SendInv, BuildDiscovery
    PROVE  SendInv'
<1> USE DEF BuildDiscovery
<1>1. calls \in Nat /\ calls' = calls + 1 /\ calls' \in 0 .. MaxCalls
    BY MaxCallsAssumption DEF SendInv, NextIdIsFree
<1>2. m_next_message_id = IdOf(calls') /\ m_next_message_id \in Uint16
    BY <1>1, IdOfType DEF SendInv, NextIdIsFree
<1>3. NextIdIsFree'
    BY <1>1, <1>2, IdOfType DEF NextIdIsFree
<1>4. Packing!IInv' /\ cmdu' = Discovery(IdOf(calls'))
    BY <1>2, PackEnters
<1>5. PacksThisCall'
    BY <1>1, <1>4 DEF PacksThisCall, Packing!IInv, Packing!TypeOK, Packing!Points
<1>6. SentInOrder'
    <2>1. sent \in Seq(Record')
        <3>1. Record \subseteq Record'
            BY <1>1 DEF Record
        <3> QED
            BY <3>1 DEF SendInv, SentInOrder
    <2>2. \A k \in 1 .. Len(sent) : sent[k].call \in 1 .. calls
        <3>1. \A k \in 1 .. Len(sent) : sent[k] \in Record
            BY HasElement DEF SendInv, SentInOrder
        <3> QED
            BY <3>1 DEF Record
    <2> QED
        BY <1>1, <2>1, <2>2 DEF SendInv, SentInOrder
<1> QED
    BY <1>3, <1>5, <1>6 DEF SendInv, SentAreDiscoveries

LEMMA PackDiscoverySendInv ==
    ASSUME SendInv, PackDiscovery
    PROVE  SendInv'
<1>1. sender # "idle"
    BY DEF PackDiscovery, SendInv, PacksThisCall, NotPacking, Sender!Next, Sender!AddSize,
           Sender!AddEndSize, Sender!Allocate, Sender!WriteHeader, Sender!WriteTlv,
           Sender!WriteEnd
<1>2. Packing!IInv' /\ cmdu' = cmdu /\ sender' # "idle"
    BY <1>1, PackKeeps DEF PackDiscovery, SendInv, PacksThisCall
<1>3. PacksThisCall'
    BY <1>1, <1>2 DEF PackDiscovery, SendInv, PacksThisCall
<1> QED
    BY <1>1, <1>3, RecordKept DEF PackDiscovery

LEMMA SendPacketSendInv ==
    ASSUME SendInv, SendPacket
    PROVE  SendInv'
<1> USE DEF SendPacket
<1> DEFINE new == [call |-> calls, packet |-> packet]
<1>1. /\ Packing!IInv /\ cmdu = Discovery(IdOf(calls))
      /\ calls \in Nat /\ calls >= 1 /\ calls' = calls
    BY DEF SendInv, PacksThisCall, NextIdIsFree
<1>2. IsDiscovery(packet, IdOf(calls))
    BY <1>1, IdOfType, PackReturns
<1>3. new \in Record
    BY <1>1, <1>2 DEF IsDiscovery, Record
<1>4. sent \in Seq(Record) /\ Len(sent) \in Nat /\ sent' = Append(sent, new)
    BY DEF SendInv, SentInOrder
<1>5. /\ sent' \in Seq(Record) /\ Len(sent') = Len(sent) + 1
      /\ \A k \in 1 .. Len(sent) : sent'[k] = sent[k]
      /\ sent'[Len(sent) + 1] = new
    BY <1>3, <1>4
<1>6. SentInOrder'
    <2>1. \A k \in 1 .. Len(sent) : sent[k].call < calls
        BY DEF SendInv, SentInOrder
    <2>2. ASSUME NEW j \in 1 .. Len(sent'), NEW k \in 1 .. Len(sent'), j < k
          PROVE  sent'[j].call < sent'[k].call
        <3>1. CASE k \in 1 .. Len(sent)
            BY <1>4, <1>5, <2>2, <3>1 DEF SendInv, SentInOrder
        <3>2. CASE k = Len(sent) + 1
            BY <1>4, <1>5, <2>1, <2>2, <3>2
        <3> QED
            BY <1>4, <1>5, <3>1, <3>2
    <2> QED
        BY <1>1, <1>5, <2>2 DEF SentInOrder, Record, PackIsOver
<1>7. SentAreDiscoveries'
    BY <1>2, <1>4, <1>5 DEF SendInv, SentAreDiscoveries
<1>8. inFlight' \subseteq {sent'[k].packet : k \in 1 .. Len(sent')}
    <2>1. inFlight' \subseteq inFlight \union {packet}
        OBVIOUS
    <2>2. \A k \in 1 .. Len(sent) : k \in 1 .. Len(sent') /\ sent'[k].packet = sent[k].packet
        BY <1>4, <1>5
    <2>3. Len(sent) + 1 \in 1 .. Len(sent') /\ sent'[Len(sent) + 1].packet = packet
        BY <1>4, <1>5
    <2> QED
        BY <2>1, <2>2, <2>3 DEF SendInv
<1> QED
    BY <1>1, <1>6, <1>7, <1>8
       DEF SendInv, NextIdIsFree, PacksThisCall, PackIsOver, NotPacking

LEMMA SendThrowsSendInv ==
    ASSUME SendInv, SendThrows
    PROVE  SendInv'
<1> QED
    BY DEF SendThrows, PackIsOver, SendInv, NextIdIsFree, PacksThisCall, NotPacking,
           SentInOrder, SentAreDiscoveries, Record

(***************************************************************************)
(* The other thread does not touch any of it.                              *)
(***************************************************************************)
LEMMA UnchangedSendInv ==
    ASSUME SendInv, UNCHANGED sendVars
    PROVE  SendInv'
<1>1. PacksThisCall'
    <2>1. Packing!IInv => Packing!IInv'
        BY DiscoveriesAreCmdus, BaseAssumption, Packing!NextIInv
           DEF sendVars, packVars, Packing!vars
    <2> QED
        BY <2>1 DEF SendInv, PacksThisCall, NotPacking, sendVars, packVars
<1> QED
    BY <1>1, RecordKept DEF sendVars, packVars

-----------------------------------------------------------------------------
(* The inductive invariant: the thread that receives *)

(* What recv() keeps of n bytes. *)
Fits(n) == IF n <= RxSize THEN n ELSE RxSize

(* Some bytes are what the receive buffer keeps of the packet that arrived. *)
IsKept(b) ==
    /\ b \in Seq(Byte)
    /\ Len(b) = Fits(Len(arrived))
    /\ \A k \in 1 .. Len(b) : b[k] = arrived[k]

BufferTypes ==
    /\ rx_buffer \in Seq(Byte) /\ Len(rx_buffer) = RxSize
    /\ len \in -1 .. RxSize
    /\ arrived \in Seq(Byte)
    /\ loop \in {"receive", "received", "parse", "process"}
    /\ caught \in {"none", "runtime_error", "bad_alloc"}

BetweenTurns == loop = "receive" => len = 0 /\ arrived = << >>

(* The front of rx_buffer is the packet of this turn, not of an earlier one. *)
BufferIsFresh ==
    loop = "received" /\ len > 0 =>
        len = Fits(Len(arrived)) /\ \A k \in 1 .. len : rx_buffer[k] = arrived[k]

(* Parse is at work on that, or its message is in the handler. *)
ParsesThisPacket ==
    /\ loop \notin {"parse", "process"} => NotParsing
    /\ loop \in {"parse", "process"} =>
          Parsing!IInv /\ IsKept(received) /\ caught = "none"
    /\ loop = "process" => parser = "return"

ReceiveInv ==
    /\ BufferTypes
    /\ BetweenTurns
    /\ BufferIsFresh
    /\ ParsesThisPacket

LEMMA InitReceiveInv == Init => ReceiveInv
<1> SUFFICES ASSUME Init PROVE ReceiveInv
    OBVIOUS
<1>1. 0 \in Byte /\ RxSize \in Nat
    BY BaseIsBig, RxSizeAssumption DEF Byte
<1>2. rx_buffer \in Seq(Byte) /\ Len(rx_buffer) = RxSize
    BY <1>1 DEF Init
<1> QED
    BY <1>1, <1>2 DEF Init, ReceiveInv, BufferTypes, BetweenTurns, BufferIsFresh,
                      ParsesThisPacket

(***************************************************************************)
(* A turn ends with nothing kept but the contents of rx_buffer.            *)
(***************************************************************************)
LEMMA TurnEnds ==
    ASSUME ReceiveInv, TurnIsOver, NotParsing', rx_buffer' = rx_buffer,
           caught' \in {"none", "runtime_error", "bad_alloc"}
    PROVE  ReceiveInv'
<1>1. BufferTypes'
    BY RxSizeAssumption DEF ReceiveInv, BufferTypes, TurnIsOver
<1> QED
    BY <1>1 DEF ReceiveInv, BetweenTurns, BufferIsFresh, ParsesThisPacket, TurnIsOver

LEMMA ParseIsOverIs == ParseIsOver => NotParsing'
<1> QED
    BY DEF ParseIsOver, NotParsing, Receiver!NoHeader

LEMMA OverwriteIs ==
    ASSUME NEW buffer \in Seq(Byte), NEW bytes \in Seq(Byte)
    PROVE  /\ Overwrite(buffer, bytes) \in Seq(Byte)
           /\ Len(Overwrite(buffer, bytes)) = Len(buffer)
           /\ \A k \in 1 .. Len(buffer) :
                 k <= Len(bytes) => Overwrite(buffer, bytes)[k] = bytes[k]
<1>1. \A k \in 1 .. Len(buffer) :
          (IF k <= Len(bytes) THEN bytes[k] ELSE buffer[k]) \in Byte
    OBVIOUS
<1> QED
    BY <1>1 DEF Overwrite

LEMMA ReceivePacketReceiveInv ==
    ASSUME SendInv, ReceiveInv, ReceivePacket
    PROVE  ReceiveInv'
<1>1. PICK p \in inFlight \union Foreign, padding \in Paddings :
          /\ rx_buffer' = Overwrite(rx_buffer, p \o padding)
          /\ len' = Fits(Len(p \o padding))
          /\ arrived' = p \o padding
    BY DEF ReceivePacket, Fits
<1> DEFINE bytes == p \o padding
<1>2. bytes \in Seq(Byte)
    <2>1. \A k \in 1 .. Len(sent) : sent[k].packet \in Seq(Byte)
        BY DEF SendInv, SentAreDiscoveries, IsDiscovery
    <2>2. p \in Seq(Byte)
        BY <2>1, ForeignAssumption DEF SendInv
    <2> QED
        BY <2>2, PaddingsAssumption
<1> HIDE DEF bytes
<1>3. /\ rx_buffer' \in Seq(Byte) /\ Len(rx_buffer') = RxSize
      /\ \A k \in 1 .. RxSize : k <= Len(bytes) => rx_buffer'[k] = bytes[k]
    BY <1>1, <1>2, OverwriteIs DEF ReceiveInv, BufferTypes, bytes
<1>4. len' = Fits(Len(bytes)) /\ arrived' = bytes /\ Len(bytes) \in Nat
    BY <1>1, <1>2 DEF bytes
<1>5. len' \in 0 .. RxSize /\ len' <= Len(bytes)
    BY <1>4, RxSizeAssumption DEF Fits
<1>6. BufferTypes'
    BY <1>2, <1>3, <1>4, <1>5, RxSizeAssumption DEF ReceivePacket, ReceiveInv, BufferTypes
<1>7. BufferIsFresh'
    BY <1>3, <1>4, <1>5, RxSizeAssumption DEF BufferIsFresh, Fits
<1>8. ParsesThisPacket'
    BY DEF ReceivePacket, ReceiveInv, ParsesThisPacket, NotParsing, parseVars
<1> QED
    BY <1>6, <1>7, <1>8 DEF ReceivePacket, ReceiveInv, BetweenTurns

LEMMA ReceiveNothingReceiveInv ==
    ASSUME ReceiveInv, ReceiveNothing
    PROVE  ReceiveInv'
<1>1. BufferTypes'
    BY RxSizeAssumption DEF ReceiveNothing, ReceiveInv, BufferTypes
<1> QED
    BY <1>1 DEF ReceiveNothing, ReceiveInv, BetweenTurns, BufferIsFresh, ParsesThisPacket,
                NotParsing, parseVars

LEMMA SkipNothingReceiveInv ==
    ASSUME ReceiveInv, SkipNothing
    PROVE  ReceiveInv'
<1> QED
    BY TurnEnds DEF SkipNothing, ReceiveInv, ParsesThisPacket, BufferTypes, NotParsing,
                    parseVars

LEMMA CallParseReceiveInv ==
    ASSUME ReceiveInv, CallParse
    PROVE  ReceiveInv'
<1> USE DEF CallParse
<1>1. /\ rx_buffer \in Seq(Byte) /\ Len(rx_buffer) = RxSize /\ RxSize \in Nat
      /\ len \in 1 .. RxSize /\ len = Fits(Len(arrived))
      /\ \A k \in 1 .. len : rx_buffer[k] = arrived[k]
    BY RxSizeAssumption DEF ReceiveInv, BufferTypes, BufferIsFresh
<1>2. /\ ReceivedData \in Seq(Byte) /\ Len(ReceivedData) = len
      /\ \A k \in 1 .. len : ReceivedData[k] = rx_buffer[k]
    BY <1>1 DEF ReceivedData
<1>3. Parsing!IInv' /\ received' = ReceivedData /\ parser' = "header"
    BY <1>2, ParseEnters
<1>4. IsKept(received)'
    BY <1>1, <1>2, <1>3 DEF IsKept
<1>5. ParsesThisPacket'
    BY <1>3, <1>4 DEF ParsesThisPacket
<1> QED
    BY <1>5 DEF ReceiveInv, BufferTypes, BetweenTurns, BufferIsFresh

LEMMA ParseReceiveInv ==
    ASSUME ReceiveInv, Parse
    PROVE  ReceiveInv'
<1>1. Parsing!IInv' /\ received' = received
    BY ParseKeeps DEF Parse, ReceiveInv, ParsesThisPacket
<1>2. ParsesThisPacket'
    BY <1>1 DEF Parse, ReceiveInv, ParsesThisPacket, IsKept
<1> QED
    BY <1>2 DEF Parse, ReceiveInv, BufferTypes, BetweenTurns, BufferIsFresh

LEMMA UnchangedReceiveInv ==
    ASSUME ReceiveInv, UNCHANGED receiveVars
    PROVE  ReceiveInv'
<1>1. Parsing!IInv => Parsing!IInv'
    BY SameWords, BaseAssumption, Parsing!NextIInv DEF receiveVars, parseVars, Parsing!vars
<1> QED
    BY <1>1 DEF ReceiveInv, BufferTypes, BetweenTurns, BufferIsFresh, ParsesThisPacket,
                NotParsing, IsKept, receiveVars, parseVars

LEMMA HandleCmduReceiveInv ==
    ASSUME ReceiveInv, HandleCmdu
    PROVE  ReceiveInv'
<1>1. Parsing!IInv => Parsing!IInv'
    BY SameWords, BaseAssumption, Parsing!NextIInv DEF HandleCmdu, parseVars, Parsing!vars
<1> QED
    BY <1>1 DEF HandleCmdu, ReceiveInv, BufferTypes, BetweenTurns, BufferIsFresh,
                ParsesThisPacket, NotParsing, IsKept, parseVars

LEMMA CatchReceiveInv ==
    ASSUME ReceiveInv, CatchRuntimeError \/ CatchBadAlloc
    PROVE  ReceiveInv'
<1>1. PICK exception \in {"runtime_error", "bad_alloc"} : Catch(exception)
    BY DEF CatchRuntimeError, CatchBadAlloc
<1>2. TurnIsOver /\ NotParsing' /\ rx_buffer' = rx_buffer /\ caught' = exception
    BY <1>1, ParseIsOverIs DEF Catch
<1> QED
    BY <1>2, TurnEnds

LEMMA ReturnsReceiveInv ==
    ASSUME ReceiveInv, HandleUnknown \/ Process
    PROVE  ReceiveInv'
<1>1. /\ TurnIsOver /\ NotParsing' /\ rx_buffer' = rx_buffer
      /\ caught' = caught
    BY ParseIsOverIs DEF HandleUnknown, Process, Returns
<1> QED
    BY <1>1, TurnEnds DEF ReceiveInv, BufferTypes

-----------------------------------------------------------------------------
(* The two threads together *)

IInv == SendInv /\ ReceiveInv

LEMMA NextIInv == IInv /\ [Next]_vars => IInv'
<1> SUFFICES ASSUME IInv, [Next]_vars PROVE IInv'
    OBVIOUS
<1>0. SendInv /\ ReceiveInv
    BY DEF IInv
<1>1. ASSUME Sending PROVE IInv'
    <2>1. UNCHANGED receiveVars
        BY <1>1 DEF Sending, BuildDiscovery, PackDiscovery, SendPacket, SendThrows
    <2>2. ReceiveInv'
        BY <1>0, <2>1, UnchangedReceiveInv
    <2>3. SendInv'
        BY <1>0, <1>1, BuildDiscoverySendInv, PackDiscoverySendInv, SendPacketSendInv,
           SendThrowsSendInv DEF Sending
    <2> QED
        BY <2>2, <2>3 DEF IInv
<1>2. ASSUME Waiting \/ Working PROVE IInv'
    <2>1. UNCHANGED sendVars
        BY <1>2 DEF Waiting, ReceivePacket, ReceiveNothing, Working, SkipNothing,
                    CallParse, Parse, CatchRuntimeError, CatchBadAlloc, Catch,
                    HandleCmdu, HandleUnknown, Process, Returns
    <2>2. SendInv'
        BY <1>0, <2>1, UnchangedSendInv
    <2>3. CASE Waiting
        BY <1>0, <2>2, <2>3, ReceivePacketReceiveInv, ReceiveNothingReceiveInv
           DEF Waiting, IInv
    <2>4. CASE Working
        <3>1. ReceiveInv'
            BY <1>0, <2>4, SkipNothingReceiveInv, CallParseReceiveInv, ParseReceiveInv,
               CatchReceiveInv, HandleCmduReceiveInv, ReturnsReceiveInv DEF Working
        <3> QED
            BY <2>2, <3>1 DEF IInv
    <2> QED
        BY <1>2, <2>3, <2>4
<1>3. ASSUME UNCHANGED vars PROVE IInv'
    BY <1>0, <1>3, UnchangedSendInv, UnchangedReceiveInv DEF vars, IInv
<1> QED
    BY <1>1, <1>2, <1>3 DEF Next

(***************************************************************************)
(* Both threads keep their parts of the agent as the code leaves them      *)
(* between two steps: the whole inductive invariant.                       *)
(***************************************************************************)
THEOREM SpecIInv == Spec => []IInv
<1>1. Init => IInv
    BY InitSendInv, InitReceiveInv DEF IInv
<1> QED
    BY <1>1, NextIInv, PTL DEF Spec

-----------------------------------------------------------------------------
(* The safety properties *)

(***************************************************************************)
(* The members of the agent, and the locals of Start, Pack and Parse,      *)
(* always have their types.                                                *)
(***************************************************************************)
THEOREM TypeCorrect == Spec => []TypeOK
<1>1. IInv => TypeOK
    <2> SUFFICES ASSUME IInv PROVE TypeOK
        OBVIOUS
    <2>1. m_next_message_id \in Uint16
        BY IdOfType, MaxCallsAssumption DEF IInv, SendInv, NextIdIsFree
    <2>2. sender = "idle" => NotPacking
        BY DEF IInv, SendInv, PacksThisCall
    <2>3. sender # "idle" => Sender!TypeOK
        BY SamePack DEF IInv, SendInv, PacksThisCall, Packing!IInv
    <2>4. loop \in {"parse", "process"} => Receiver!TypeOK
        BY ParseTypes DEF IInv, ReceiveInv, ParsesThisPacket
    <2>5. loop \notin {"parse", "process"} => NotParsing
        BY DEF IInv, ReceiveInv, ParsesThisPacket
    <2>6. sent \in Seq([call : 1 .. calls, packet : Seq(Byte)])
        BY DEF IInv, SendInv, SentInOrder, Record
    <2> QED
        BY <2>1, <2>2, <2>3, <2>4, <2>5, <2>6
           DEF IInv, SendInv, NextIdIsFree, ReceiveInv, BufferTypes, TypeOK
<1> QED
    BY <1>1, SpecIInv, PTL

(***************************************************************************)
(* Parse is somewhere only in a turn of the loop that has called it.       *)
(***************************************************************************)
LEMMA WhereParseIs ==
    ASSUME IInv, parser # "idle"
    PROVE  /\ Parsing!IInv /\ IsKept(received)
           /\ BeginsWith(arrived, received) /\ arrived \in Seq(Byte)
           /\ received \in Seq(Byte) /\ tlvs \in Seq(Tlv) /\ offsets \in Seq(Nat)
<1>1. Parsing!IInv /\ IsKept(received) /\ arrived \in Seq(Byte)
    BY DEF IInv, ReceiveInv, ParsesThisPacket, NotParsing, BufferTypes
<1>2. received \in Seq(Byte) /\ tlvs \in Seq(Tlv) /\ offsets \in Seq(Nat)
    BY <1>1, SameWords DEF Parsing!IInv, Parsing!TypeOK
<1>3. BeginsWith(arrived, received)
    BY <1>1, RxSizeAssumption DEF IsKept, Fits, BeginsWith
<1> QED
    BY <1>1, <1>2, <1>3

(***************************************************************************)
(* The handlers are given what lies at the front of the packet that        *)
(* arrived, whatever earlier packets left in the receive buffer.           *)
(***************************************************************************)
THEOREM HandlersSeeNoStaleBytes == Spec => []NoStaleBytes
<1>1. IInv => NoStaleBytes
    <2> SUFFICES ASSUME IInv, parser = "return"
                 PROVE  header = HeaderAt(arrived) /\ LiesIn(arrived, tlvs, offsets)
        BY DEF NoStaleBytes
    <2> QED
        BY WhereParseIs, ParseReturns, HeaderInFront, LiesInFront
<1> QED
    BY <1>1, SpecIInv, PTL

LEMMA BeginsIs ==
    ASSUME NEW bytes \in Seq(Byte), NEW p \in Seq(Byte)
    PROVE  Begins(bytes, p) <=> BeginsWith(bytes, p)
<1>1. CASE Len(p) <= Len(bytes)
    <2> DEFINE front == SubSeq(bytes, 1, Len(p))
    <2>1. /\ front \in Seq(Byte) /\ Len(front) = Len(p)
          /\ \A k \in 1 .. Len(p) : front[k] = bytes[k]
        BY <1>1
    <2> HIDE DEF front
    <2>2. front = p <=> \A k \in 1 .. Len(p) : front[k] = p[k]
        BY <2>1, SameElements
    <2> QED
        BY <1>1, <2>1, <2>2 DEF Begins, BeginsWith, front
<1> QED
    BY <1>1 DEF Begins, BeginsWith

(***************************************************************************)
(* A Topology Discovery that arrives whole is handled as the call that     *)
(* sent it built it, whatever calls failed before.                         *)
(***************************************************************************)
THEOREM DiscoveriesArriveAsSent == Spec => []DiscoveryAsSent
<1>1. IInv => DiscoveryAsSent
    <2> SUFFICES ASSUME IInv, NEW k \in 1 .. Len(sent), Begins(arrived, sent[k].packet),
                        Len(sent[k].packet) <= RxSize
                 PROVE  /\ parser # "runtime_error"
                        /\ parser = "return" =>
                              /\ header = Discovery(IdOf(sent[k].call)).header
                              /\ tlvs = << DeviceInformation, Sender!EndTlv >>
        BY DEF DiscoveryAsSent, IdOf
    <2> DEFINE p == sent[k].packet
               id == IdOf(sent[k].call)
    <2>1. IsDiscovery(p, id) /\ p \in Seq(Byte)
        BY DEF IInv, SendInv, SentAreDiscoveries, IsDiscovery
    <2>2. id \in Uint16
        <3>1. sent[k] \in Record
            BY HasElement DEF IInv, SendInv, SentInOrder
        <3>2. sent[k].call \in Nat
            BY <3>1 DEF Record
        <3> QED
            BY <3>2, IdOfType
    <2> HIDE DEF p, id
    <2>3. ASSUME parser # "idle"
          PROVE  BeginsWith(received, p)
        <3>1. BeginsWith(arrived, p) /\ Len(p) <= RxSize
            BY <2>1, <2>3, BeginsIs, WhereParseIs DEF p
        <3>2. IsKept(received) /\ received \in Seq(Byte) /\ arrived \in Seq(Byte)
            BY <2>3, WhereParseIs
        <3> QED
            BY <2>1, <3>1, <3>2, RxSizeAssumption DEF IsKept, Fits, BeginsWith
    <2>4. parser # "runtime_error"
        BY <2>1, <2>2, <2>3, WhereParseIs, DiscoveryBegins, ParseThrows
    <2>5. ASSUME parser = "return"
          PROVE  header = Discovery(id).header /\ tlvs = DiscoveryTlvs
        <3>1. /\ received \in Seq(Byte) /\ tlvs \in Seq(Tlv)
              /\ header = HeaderAt(received)
              /\ LiesIn(received, tlvs, offsets) /\ EndsMessage(tlvs)
              /\ \A j \in 1 .. Len(tlvs) - 1 : ~IsEndOfMessage(tlvs[j])
            BY <2>5, WhereParseIs, ParseReturns
        <3>2. BeginsWith(received, p)
            BY <2>3, <2>5
        <3>3. header = Discovery(id).header
            BY <2>1, <2>2, <3>1, <3>2, DiscoveryBegins
        <3>4. PICK q \in Nat :
                  /\ TlvAt(received, CmduHeaderSize + 1) = DeviceInformation
                  /\ EndOfTlvAt(received, CmduHeaderSize + 1) = q
                  /\ TlvAt(received, q) = NoValue
            BY <2>1, <2>2, <3>1, <3>2, DiscoveryBegins
        <3> QED
            BY <3>1, <3>3, <3>4, DiscoveryReadBack
    <2> QED
        BY <2>4, <2>5, SameWords DEF DiscoveryTlvs, NoValue, id
<1> QED
    BY <1>1, SpecIInv, PTL

(***************************************************************************)
(* An identifier comes again only after all others have been taken.        *)
(***************************************************************************)
THEOREM IdsComeAgainLast == Spec => []IdsReusedLast
<1>1. IInv => IdsReusedLast
    <2> SUFFICES ASSUME IInv, NEW j \in 1 .. Len(sent), NEW k \in 1 .. Len(sent), j < k,
                        sent[k].call - sent[j].call < Base * Base
                 PROVE  HeaderAt(sent[j].packet).id # HeaderAt(sent[k].packet).id
        BY DEF IdsReusedLast
    <2>1. sent[j] \in Record /\ sent[k] \in Record
        BY HasElement DEF IInv, SendInv, SentInOrder
    <2>2. sent[j].call \in Nat /\ sent[k].call \in Nat /\ sent[j].call < sent[k].call
        BY <2>1 DEF IInv, SendInv, SentInOrder, Record
    <2>3. IdOf(sent[j].call) # IdOf(sent[k].call)
        <3>1. Base * Base \in Nat /\ Base * Base > 0
            BY BaseIsBig
        <3>2. \A m, a, b \in Nat : m > 0 /\ a < b /\ b - a < m => a % m # b % m
            BY NotTheSameModulo
        <3> QED
            BY <2>2, <3>1, <3>2, Zenon DEF IdOf
    <2>4. /\ HeaderAt(sent[j].packet).id = IdOf(sent[j].call)
          /\ HeaderAt(sent[k].packet).id = IdOf(sent[k].call)
        BY <2>2, IdOfType, DiscoveryIs
           DEF IInv, SendInv, SentAreDiscoveries, IsDiscovery
    <2> QED
        BY <2>3, <2>4
<1> QED
    BY <1>1, SpecIInv, PTL

-----------------------------------------------------------------------------
(* The agent does what MessageService promises *)

LEMMA SameService ==
    ASSUME NEW b, NEW list
    PROVE  /\ Service!Byte = Byte
           /\ Service!HeaderAt(b) = HeaderAt(b)
           /\ Service!HoldsCmdu(b) <=> HoldsCmdu(b)
           /\ Service!CmduHeaderSize = CmduHeaderSize
           /\ Service!EndsMessage(list) <=> EndsMessage(list)
           /\ \A tlv : Service!IsEndOfMessage(tlv) <=> IsEndOfMessage(tlv)
<1> QED
    BY DEF Service!Byte, Byte, Service!HeaderAt, HeaderAt, Service!Uint16At, Uint16At,
           Service!Uint16Of, Uint16Of, Service!ByteAt, ByteAt, Service!HoldsCmdu, HoldsCmdu,
           Service!IsTlvChain, IsTlvChain, Service!TlvFitsAt, TlvFitsAt,
           Service!EndOfTlvAt, EndOfTlvAt, Service!LengthAt, LengthAt,
           Service!TlvHeaderSize, TlvHeaderSize, Service!CmduHeaderSize, CmduHeaderSize,
           Service!EndOfMessage, EndOfMessage, Service!EndsMessage, EndsMessage,
           Service!IsEndOfMessage, IsEndOfMessage

LEMMA PhaseIs ==
    /\ loop = "receive" => Phase = "waiting"
    /\ loop = "received" => Phase = IF len > 0 THEN "taken" ELSE "waiting"
    /\ loop = "parse" => Phase = IF parser = "return" THEN "read" ELSE "taken"
    /\ loop = "process" => Phase = "handling"
<1> QED
    BY DEF Phase

LEMMA NextPhaseIs ==
    /\ loop' = "receive" => Phase' = "waiting"
    /\ loop' = "received" => Phase' = IF len' > 0 THEN "taken" ELSE "waiting"
    /\ loop' = "parse" => Phase' = IF parser' = "return" THEN "read" ELSE "taken"
    /\ loop' = "process" => Phase' = "handling"
<1> QED
    BY DEF Phase

KeptOf(bytes) == IF Len(bytes) <= RxSize THEN bytes ELSE SubSeq(bytes, 1, RxSize)

Message == [header |-> header, tlvs |-> tlvs, starts |-> offsets]

LEMMA KeptIs ==
    ASSUME IInv, parser # "idle"
    PROVE  received = KeptOf(arrived)
<1>1. /\ received \in Seq(Byte) /\ arrived \in Seq(Byte)
      /\ Len(received) = Fits(Len(arrived))
      /\ \A k \in 1 .. Len(received) : received[k] = arrived[k]
    BY WhereParseIs DEF IsKept
<1>2. CASE Len(arrived) <= RxSize
    <2>1. Len(received) = Len(arrived)
        BY <1>1, <1>2 DEF Fits
    <2> QED
        BY <1>1, <1>2, <2>1, SameElements DEF KeptOf
<1>3. CASE ~(Len(arrived) <= RxSize)
    <2> DEFINE front == SubSeq(arrived, 1, RxSize)
    <2>1. /\ front \in Seq(Byte) /\ Len(front) = RxSize
          /\ \A k \in 1 .. RxSize : front[k] = arrived[k]
        BY <1>1, <1>3, RxSizeAssumption
    <2>2. Len(received) = RxSize
        BY <1>1, <1>3 DEF Fits
    <2> HIDE DEF front
    <2>3. received = front
        BY <1>1, <2>1, <2>2, SameElements
    <2> QED
        BY <1>3, <2>3 DEF KeptOf, front
<1> QED
    BY <1>2, <1>3

LEMMA MessageIsRead ==
    IInv /\ parser = "return" => Service!IsMessageIn(Message, KeptOf(arrived))
<1> SUFFICES ASSUME IInv, parser = "return"
             PROVE  Service!IsMessageIn(Message, received)
    BY KeptIs
<1>1. Parsing!IInv
    BY WhereParseIs
<1> QED
    BY <1>1, ParseReturns, SameService, SameLying DEF Service!IsMessageIn, Message

LEMMA RefusedHoldsNone ==
    ASSUME IInv, parser = "runtime_error"
    PROVE  ~Service!HoldsCmdu(KeptOf(arrived))
<1> QED
    BY WhereParseIs, KeptIs, ParseThrows, SameService

(***************************************************************************)
(* Between two packets, and over a step that takes or makes nothing,       *)
(* MessageService sees no change.                                          *)
(***************************************************************************)
LEMMA StaysWaiting ==
    ASSUME Phase = "waiting", Phase' = "waiting", caught' = caught
    PROVE  UNCHANGED Service!vars
<1> QED
    BY DEF Service!vars

LEMMA SameTurn ==
    ASSUME Phase' = Phase, arrived' = arrived, caught' = caught,
           UNCHANGED << header, tlvs, offsets >>
    PROVE  UNCHANGED Service!vars
<1> QED
    BY DEF Service!vars

LEMMA StaysTaken ==
    ASSUME Phase = "taken", Phase' = "taken", arrived' = arrived
    PROVE  UNCHANGED Service!vars
<1> QED
    BY DEF Service!vars

LEMMA ReceivePacketServes ==
    ASSUME IInv, IInv', ReceivePacket
    PROVE  [Service!Next]_(Service!vars)
<1>1. Phase = "waiting" /\ Phase' \in {"waiting", "taken"}
    BY PhaseIs, NextPhaseIs DEF ReceivePacket
<1>2. CASE Phase' = "waiting"
    BY <1>1, <1>2, StaysWaiting DEF ReceivePacket
<1>3. CASE Phase' = "taken"
    <2>1. arrived' \in Seq(Service!Byte)
        BY SameService DEF IInv, ReceiveInv, BufferTypes
    <2>2. Service!Take
        BY <1>1, <1>3, <2>1 DEF Service!Take
    <2> QED
        BY <2>2 DEF Service!Next
<1> QED
    BY <1>1, <1>2, <1>3

LEMMA ParseServes ==
    ASSUME IInv, IInv', Parse,
           parser' = "return" => Service!IsMessageIn(Message', KeptOf(arrived'))
    PROVE  [Service!Next]_(Service!vars)
<1>1. loop = "parse" /\ loop' = "parse" /\ arrived' = arrived /\ caught' = caught
    BY DEF Parse
<1>2. parser \in {"header", "tlvs", "end"}
    BY ParseKeeps DEF Parse, IInv, ReceiveInv, ParsesThisPacket
<1>3. Phase = "taken"
    BY <1>1, <1>2, PhaseIs
<1>4. CASE parser' # "return"
    <2>1. Phase' = "taken"
        BY <1>1, <1>4, NextPhaseIs
    <2> QED
        BY <1>1, <1>3, <2>1, StaysTaken
<1>5. CASE parser' = "return"
    <2>1. Phase' = "read"
        BY <1>1, <1>5, NextPhaseIs
    <2>2. Service!IsMessageIn(Message', Service!Kept)
        BY <1>1, <1>3, <1>5 DEF Service!Kept, KeptOf
    <2>3. Service!Read
        BY <1>1, <1>3, <2>1, <2>2 DEF Service!Read, Message
    <2> QED
        BY <2>3 DEF Service!Next
<1> QED
    BY <1>4, <1>5

LEMMA CatchServes ==
    ASSUME IInv, CatchRuntimeError \/ CatchBadAlloc
    PROVE  [Service!Next]_(Service!vars)
<1>1. CASE CatchRuntimeError
    <2>1. Phase = "taken" /\ Phase' = "waiting" /\ caught' = "runtime_error"
        BY <1>1, PhaseIs, NextPhaseIs DEF CatchRuntimeError, Catch, TurnIsOver
    <2>2. ~Service!HoldsCmdu(Service!Kept)
        BY <1>1, <2>1, RefusedHoldsNone DEF CatchRuntimeError, Service!Kept, KeptOf
    <2>3. Service!Refuse
        BY <2>1, <2>2 DEF Service!Refuse, Service!Done
    <2> QED
        BY <2>3 DEF Service!Next
<1>2. CASE CatchBadAlloc
    <2>1. Phase = "taken" /\ Phase' = "waiting" /\ caught' = "bad_alloc"
        BY <1>2, PhaseIs, NextPhaseIs DEF CatchBadAlloc, Catch, TurnIsOver
    <2>2. Service!Lose
        BY <2>1 DEF Service!Lose, Service!Done
    <2> QED
        BY <2>2 DEF Service!Next
<1> QED
    BY <1>1, <1>2

LEMMA HandlingServes ==
    ASSUME IInv, HandleCmdu \/ HandleUnknown \/ Process
    PROVE  [Service!Next]_(Service!vars)
<1>1. CASE HandleCmdu
    <2>1. Phase = "read" /\ Phase' = "handling" /\ arrived' = arrived
        BY <1>1, PhaseIs, NextPhaseIs DEF HandleCmdu
    <2>2. Service!Handle
        BY <1>1, <2>1 DEF HandleCmdu, HasHandler, parseVars, Service!Handle
    <2> QED
        BY <2>2 DEF Service!Next
<1>2. CASE HandleUnknown
    <2>1. Phase = "read" /\ Phase' = "waiting" /\ caught' = "none"
        BY <1>2, PhaseIs, NextPhaseIs
           DEF HandleUnknown, Returns, TurnIsOver, IInv, ReceiveInv, ParsesThisPacket
    <2>2. Service!Ignore
        BY <1>2, <2>1 DEF HandleUnknown, HasHandler, Service!Ignore, Service!Done
    <2> QED
        BY <2>2 DEF Service!Next
<1>3. CASE Process
    <2>1. Phase = "handling" /\ Phase' = "waiting" /\ caught' = "none"
        BY <1>3, PhaseIs, NextPhaseIs
           DEF Process, Returns, TurnIsOver, IInv, ReceiveInv, ParsesThisPacket
    <2>2. Service!Finish
        BY <2>1 DEF Service!Finish, Service!Done
    <2> QED
        BY <2>2 DEF Service!Next
<1> QED
    BY <1>1, <1>2, <1>3

LEMMA NextServes ==
    ASSUME IInv, IInv', [Next]_vars,
           parser' = "return" => Service!IsMessageIn(Message', KeptOf(arrived'))
    PROVE  [Service!Next]_(Service!vars)
<1>1. ASSUME UNCHANGED receiveVars PROVE UNCHANGED Service!vars
    <2>1. Phase' = Phase
        BY <1>1 DEF Phase, receiveVars, parseVars
    <2> QED
        BY <1>1, <2>1, SameTurn DEF receiveVars, parseVars
<1>2. CASE Sending \/ UNCHANGED vars
    BY <1>1, <1>2 DEF Sending, BuildDiscovery, PackDiscovery, SendPacket, SendThrows, vars
<1>3. CASE ReceiveNothing
    <2>1. Phase = "waiting" /\ Phase' = "waiting" /\ caught' = caught
        BY <1>3, PhaseIs, NextPhaseIs DEF ReceiveNothing
    <2> QED
        BY <2>1, StaysWaiting
<1>4. CASE SkipNothing
    <2>1. Phase = "waiting" /\ Phase' = "waiting" /\ caught' = caught
        BY <1>4, PhaseIs, NextPhaseIs
           DEF SkipNothing, TurnIsOver, IInv, ReceiveInv, BufferTypes
    <2> QED
        BY <2>1, StaysWaiting
<1>5. CASE CallParse
    <2>1. loop' = "parse" /\ parser' = "header"
        BY <1>5 DEF CallParse, Receiver!Enter
    <2>2. Phase = "taken" /\ Phase' = "taken" /\ arrived' = arrived
        BY <1>5, <2>1, PhaseIs, NextPhaseIs DEF CallParse
    <2> QED
        BY <2>2, StaysTaken
<1> QED
    BY <1>2, <1>3, <1>4, <1>5, ReceivePacketServes, ParseServes, CatchServes,
       HandlingServes DEF Next, Waiting, Working

(***************************************************************************)
(* The receiving thread takes only steps that MessageService allows: it    *)
(* makes of every packet, once and from that packet alone, the message in  *)
(* it, and refuses only a packet that holds none.  That it comes back to   *)
(* wait, the rest of ServesMessages, is liveness.                          *)
(***************************************************************************)
THEOREM ServesSafely == Spec => Service!Safety
<1>1. Init => Service!Init
    <2> SUFFICES ASSUME Init PROVE Service!Init
        OBVIOUS
    <2>1. Phase = "waiting" /\ caught = "none"
        BY PhaseIs DEF Init
    <2> QED
        BY <2>1 DEF Service!Init
<1>2. (IInv /\ parser = "return" => Service!IsMessageIn(Message, KeptOf(arrived)))'
    BY MessageIsRead, PTL
<1>3. IInv /\ IInv' /\ [Next]_vars => [Service!Next]_(Service!vars)
    <2> SUFFICES ASSUME IInv, IInv', [Next]_vars PROVE [Service!Next]_(Service!vars)
        OBVIOUS
    <2>1. parser' = "return" => Service!IsMessageIn(Message', KeptOf(arrived'))
        BY <1>2 DEF KeptOf, Service!IsMessageIn
    <2> QED
        BY <2>1, NextServes
<1> QED
    BY <1>1, <1>3, SpecIInv, PTL DEF Spec, Service!Safety

=============================================================================
