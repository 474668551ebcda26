--------------------------- MODULE TransferProofs ---------------------------
(***************************************************************************)
(* One CMDU from Pack to Parse, for every Base, CMDU, padding and size of  *)
(* the receive buffer: what Parse returns is the message that was packed,  *)
(* and it refuses a packet only if the packet was cut.  And a WscMessage   *)
(* that such a CMDU carries, for any attributes and any TLVs around it:    *)
(* the receiver finds it and reads what the sender gave.                   *)
(*                                                                         *)
(* Pack, Parse and the WscMessage keep their own invariants in it; the     *)
(* facts proved of them are used here through instances of their proofs.   *)
(***************************************************************************)
EXTENDS WscTransfer, WireProofs

Packing == INSTANCE SerializerProofs
               WITH buffer <- packet, ptr <- wptr, offsets <- rooms, at <- sender

Parsing == INSTANCE ParserProofs
               WITH Buffers <- Seq(Byte), buffer <- received, ptr <- rptr, at <- receiver

Reading == INSTANCE WscProofs
               WITH Foreign <- {}, ptr <- aptr, offsets <- starts, at <- wsc

-----------------------------------------------------------------------------
(* The instances speak of the same things *)

LEMMA SameWords ==
    /\ Packing!Byte = Byte /\ Packing!Tlv = Tlv
    /\ Parsing!Byte = Byte /\ Parsing!Tlv = Tlv
    /\ Sender!Cmdu = Packing!Cmdu
    /\ Packing!EndTlv = [type |-> EndOfMessage, value |-> << >>]
<1> QED
    BY DEF Packing!Byte, Byte, Packing!Tlv, Tlv, Parsing!Byte, Parsing!Tlv,
           Sender!Cmdu, Packing!Cmdu, Sender!Header, Packing!Header, Sender!Uint16,
           Packing!Uint16, Sender!Byte, Sender!Tlv, Sender!FitsTlv, Packing!FitsTlv,
           Packing!EndTlv, Packing!EndOfMessage, EndOfMessage

LEMMA SameReads ==
    ASSUME NEW b, NEW list, NEW places
    PROVE  /\ Parsing!HeaderAt(b) = HeaderAt(b)
           /\ Packing!HeaderAt(b) = HeaderAt(b)
           /\ Parsing!HoldsCmdu(b) <=> HoldsCmdu(b)
           /\ Parsing!LiesIn(b, list, places) <=> LiesIn(b, list, places)
           /\ Packing!LiesIn(b, list, places) <=> LiesIn(b, list, places)
           /\ Parsing!EndsMessage(list) <=> EndsMessage(list)
           /\ Packing!EndsMessage(list) <=> EndsMessage(list)
           /\ \A t : Parsing!IsEndOfMessage(t) <=> IsEndOfMessage(t)
<1> QED
    BY DEF Parsing!TlvAt, Packing!TlvAt, TlvAt, Parsing!ValueAt, Packing!ValueAt, ValueAt,
           Parsing!BytesAt, Packing!BytesAt, BytesAt, Parsing!LengthAt, Packing!LengthAt,
           LengthAt, Parsing!TlvHeaderSize, Packing!TlvHeaderSize, TlvHeaderSize,
           Parsing!HeaderAt, Packing!HeaderAt, HeaderAt, Parsing!Uint16At,
           Packing!Uint16At, Uint16At, Parsing!Uint16Of, Packing!Uint16Of, Uint16Of,
           Parsing!ByteAt, Packing!ByteAt, ByteAt, Parsing!HoldsCmdu, HoldsCmdu,
           Parsing!IsTlvChain, IsTlvChain, Parsing!TlvFitsAt, Packing!TlvFitsAt, TlvFitsAt,
           Parsing!EndOfTlvAt, Packing!EndOfTlvAt, EndOfTlvAt,
           Parsing!CmduHeaderSize, Packing!CmduHeaderSize, CmduHeaderSize,
           Parsing!EndOfMessage, Packing!EndOfMessage, EndOfMessage,
           Parsing!LiesIn, Packing!LiesIn, LiesIn, Parsing!EndsMessage,
           Packing!EndsMessage, EndsMessage, Parsing!IsEndOfMessage,
           Packing!IsEndOfMessage, IsEndOfMessage

LEMMA SameParse ==
    /\ Receiver!Next <=> Parsing!Next
    /\ \A b : Receiver!Enter(b) <=> Parsing!Enter(b)
    /\ Receiver!TypeOK <=> Parsing!TypeOK
<1> QED
    BY DEF Parsing!Next, Receiver!Next,
           Parsing!ThrowShortBuffer, Receiver!ThrowShortBuffer,
           Parsing!ReadHeader, Receiver!ReadHeader,
           Parsing!ThrowTlvHeader, Receiver!ThrowTlvHeader,
           Parsing!ThrowTlvValue, Receiver!ThrowTlvValue,
           Parsing!ReadTlv, Receiver!ReadTlv, Parsing!Return, Receiver!Return,
           Parsing!ThrowUnterminated, Receiver!ThrowUnterminated,
           Parsing!Throw, Receiver!Throw, Parsing!LongEnough, Receiver!LongEnough,
           Parsing!InLoop, Receiver!InLoop, Parsing!TlvHeaderFits, Receiver!TlvHeaderFits,
           Parsing!ValueFits, Receiver!ValueFits, Parsing!AddTlv, Receiver!AddTlv,
           Parsing!AfterTlv, Receiver!AfterTlv, Parsing!NextTlv, Receiver!NextTlv,
           Parsing!LeftLoop, Receiver!LeftLoop, Parsing!Terminated, Receiver!Terminated,
           Parsing!EndsMessage, Receiver!EndsMessage,
           Parsing!IsEndOfMessage, Receiver!IsEndOfMessage,
           Parsing!EndOfMessage, Receiver!EndOfMessage,
           Parsing!TlvAt, Receiver!TlvAt, Parsing!ValueAt, Receiver!ValueAt,
           Parsing!BytesAt, Receiver!BytesAt, Parsing!LengthAt, Receiver!LengthAt,
           Parsing!HeaderAt, Receiver!HeaderAt, Parsing!Uint16At, Receiver!Uint16At,
           Parsing!Uint16Of, Receiver!Uint16Of, Parsing!ByteAt, Receiver!ByteAt,
           Parsing!TlvHeaderSize, Receiver!TlvHeaderSize,
           Parsing!CmduHeaderSize, Receiver!CmduHeaderSize,
           Parsing!Enter, Receiver!Enter, Parsing!NoHeader, Receiver!NoHeader,
           Parsing!TypeOK, Receiver!TypeOK, Parsing!Points, Receiver!Points,
           Parsing!Byte, Receiver!Byte, Parsing!Uint16, Receiver!Uint16,
           Parsing!Tlv, Receiver!Tlv, Parsing!Header, Receiver!Header

LEMMA SamePack ==
    /\ Sender!Next <=> Packing!Next
    /\ Sender!Init <=> Packing!Init
    /\ Sender!Terminated(cmdu.tlvs) = Packing!Packed
    /\ Sender!TypeOK <=> Packing!TypeOK
<1> QED
    BY DEF Packing!Next, Sender!Next, Packing!AddSize, Sender!AddSize,
           Packing!AddEndSize, Sender!AddEndSize, Packing!Allocate, Sender!Allocate,
           Packing!WriteHeader, Sender!WriteHeader, Packing!WriteTlv, Sender!WriteTlv,
           Packing!WriteEnd, Sender!WriteEnd,
           Packing!AppendEndOfMessage, Sender!AppendEndOfMessage,
           Packing!EndsMessage, Sender!EndsMessage,
           Packing!IsEndOfMessage, Sender!IsEndOfMessage,
           Packing!EndOfMessage, Sender!EndOfMessage, Packing!EndTlv, Sender!EndTlv,
           Packing!Written, Sender!Written, Packing!HeaderBytes, Sender!HeaderBytes,
           Packing!CmduVersion, Sender!CmduVersion, Packing!TlvBytes, Sender!TlvBytes,
           Packing!HighByte, Sender!HighByte, Packing!LowByte, Sender!LowByte,
           Packing!GetLength, Sender!GetLength,
           Packing!GetPacketSize, Sender!GetPacketSize,
           Packing!TlvHeaderSize, Sender!TlvHeaderSize,
           Packing!CmduHeaderSize, Sender!CmduHeaderSize,
           Packing!Init, Sender!Init, Packing!EnteredWith,
           Sender!EnteredWith, Packing!Packed, Packing!Terminated, Sender!Terminated,
           Packing!TypeOK, Sender!TypeOK,
           Packing!Points, Sender!Points, Packing!Cmdu, Sender!Cmdu,
           Packing!FitsTlv, Sender!FitsTlv, Packing!Byte, Sender!Byte,
           Packing!Uint16, Sender!Uint16, Packing!Tlv, Sender!Tlv,
           Packing!Header, Sender!Header

-----------------------------------------------------------------------------
(* The inductive invariant *)

(* Some bytes are those of the packet, as far as both go. *)
IsOfPacket(w) ==
    /\ w \in Seq(Byte)
    /\ \A k \in 1 .. Len(packet) : k <= Len(w) => w[k] = packet[k]

IInv ==
    /\ Packing!IInv
    /\ receiver = "waiting" => Waiting
    /\ receiver # "waiting" =>
          sender = "return" /\ Parsing!IInv /\ IsOfPacket(received)

LEMMA CmdusAreCmdus == Cmdus \subseteq Packing!Cmdu
<1> QED
    BY CmdusAssumption, SameWords

LEMMA InitIInv == Init => IInv
<1>1. Sender!Init => Packing!IInv
    BY SamePack, CmdusAreCmdus, BaseAssumption, Packing!InitIInv
<1> QED
    BY <1>1 DEF Init, Waiting, IInv

LEMMA SendIInv ==
    ASSUME IInv, Send
    PROVE  IInv'
<1>1. Packing!Next /\ Packing!IInv
    BY SamePack DEF Send, IInv
<1>2. Packing!IInv'
    BY <1>1, CmdusAreCmdus, BaseAssumption, Packing!NextIInv
<1>3. sender # "return"
    BY <1>1 DEF Packing!Next, Packing!AddSize, Packing!AddEndSize, Packing!Allocate,
                Packing!WriteHeader, Packing!WriteTlv, Packing!WriteEnd
<1> QED
    BY <1>2, <1>3 DEF Send, IInv, Waiting, parseVars

LEMMA FirstBytesAre ==
    ASSUME packet \in Seq(Byte), NEW padding \in Seq(Byte), NEW size \in Nat
    PROVE  IsOfPacket(FirstBytes(packet \o padding, size))
<1> DEFINE bytes == packet \o padding
<1>1. /\ bytes \in Seq(Byte) /\ Len(packet) <= Len(bytes)
      /\ \A k \in 1 .. Len(packet) : bytes[k] = packet[k]
    OBVIOUS
<1> HIDE DEF bytes
<1>2. CASE Len(bytes) <= size
    BY <1>1, <1>2 DEF FirstBytes, IsOfPacket, bytes
<1>3. CASE ~(Len(bytes) <= size)
    <2> DEFINE front == SubSeq(bytes, 1, size)
    <2>1. /\ front \in Seq(Byte) /\ Len(front) = size
          /\ \A k \in 1 .. size : front[k] = bytes[k]
        BY <1>1, <1>3
    <2> HIDE DEF front
    <2>2. IsOfPacket(front)
        BY <1>1, <2>1 DEF IsOfPacket
    <2> QED
        BY <1>3, <2>2 DEF FirstBytes, bytes, front
<1> QED
    BY <1>2, <1>3

LEMMA DeliverIInv ==
    ASSUME IInv, Deliver
    PROVE  IInv'
<1>1. Packing!IInv'
    BY CmdusAreCmdus, BaseAssumption, Packing!NextIInv
       DEF Deliver, IInv, packVars, Packing!vars
<1>2. PICK padding \in Paddings, size \in RxSizes :
          Receiver!Enter(FirstBytes(packet \o padding, size))
    BY DEF Deliver
<1> DEFINE bytes == FirstBytes(packet \o padding, size)
<1>3. packet \in Seq(Byte)
    BY SameWords DEF IInv, Packing!IInv, Packing!TypeOK
<1>4. IsOfPacket(bytes)
    BY <1>3, FirstBytesAre, PaddingsAssumption, RxSizesAssumption
<1>5. Parsing!Enter(bytes)
    BY <1>2, SameParse
<1> HIDE DEF bytes
<1>6. Parsing!IInv'
    BY <1>4, <1>5, SameWords, BaseAssumption, Parsing!EnterIInv DEF IsOfPacket
<1>7. received' = bytes /\ receiver' = "header"
    BY <1>5 DEF Parsing!Enter
<1> QED
    BY <1>1, <1>4, <1>6, <1>7 DEF Deliver, IInv, IsOfPacket, packVars

LEMMA ReceiveIInv ==
    ASSUME IInv, Receive
    PROVE  IInv' /\ receiver \in {"header", "tlvs", "end"} /\ received' = received
<1>1. Packing!IInv'
    BY CmdusAreCmdus, BaseAssumption, Packing!NextIInv
       DEF Receive, IInv, packVars, Packing!vars
<1>2. Parsing!Next
    BY SameParse DEF Receive
<1>3. receiver \in {"header", "tlvs", "end"} /\ received' = received
    BY <1>2 DEF Parsing!Next, Parsing!ThrowShortBuffer, Parsing!ReadHeader,
                Parsing!ThrowTlvHeader, Parsing!ThrowTlvValue, Parsing!ReadTlv,
                Parsing!Return, Parsing!ThrowUnterminated, Parsing!Throw,
                Parsing!InLoop, Parsing!LeftLoop
<1>4. Parsing!IInv'
    BY <1>2, <1>3, SameWords, BaseAssumption, Parsing!NextIInv DEF IInv
<1>5. receiver' # "waiting"
    BY <1>4 DEF Parsing!IInv, Parsing!TypeOK, Parsing!Points
<1> QED
    BY <1>1, <1>3, <1>4, <1>5 DEF Receive, IInv, IsOfPacket, packVars

LEMMA NextIInv == IInv /\ [Next]_vars => IInv'
<1> SUFFICES ASSUME IInv, [Next]_vars PROVE IInv'
    OBVIOUS
<1>1. CASE UNCHANGED vars
    <2>1. Packing!IInv'
        BY <1>1, CmdusAreCmdus, BaseAssumption, Packing!NextIInv
           DEF IInv, vars, packVars, Packing!vars
    <2>2. Parsing!IInv => Parsing!IInv'
        BY <1>1, SameWords, BaseAssumption, Parsing!NextIInv
           DEF vars, parseVars, Parsing!vars
    <2> QED
        BY <1>1, <2>1, <2>2 DEF IInv, Waiting, IsOfPacket, vars, packVars, parseVars
<1> QED
    BY <1>1, SendIInv, DeliverIInv, ReceiveIInv DEF Next

(***************************************************************************)
(* Pack and Parse keep their own invariants at the two ends, and what the  *)
(* receiver reads is of the packet.                                        *)
(***************************************************************************)
THEOREM SpecIInv == Spec => []IInv
<1> QED
    BY InitIInv, NextIInv, PTL DEF Spec

(***************************************************************************)
(* The locals of Pack and of Parse keep their types at the two ends.       *)
(***************************************************************************)
THEOREM TypeCorrect == Spec => []TypeOK
<1>1. IInv => TypeOK
    BY SamePack, SameParse DEF IInv, Packing!IInv, Parsing!IInv, TypeOK
<1> QED
    BY <1>1, SpecIInv, PTL

-----------------------------------------------------------------------------
(* The message in the packet *)

(* A list of TLVs up to and with its first END_OF_MESSAGE. *)
EndsFirstAt(list, n) ==
    /\ n \in 1 .. Len(list)
    /\ IsEndOfMessage(list[n])
    /\ \A k \in 1 .. n - 1 : ~IsEndOfMessage(list[k])

LEMMA FirstEndIs ==
    ASSUME NEW list \in Seq(Tlv), EndsMessage(list)
    PROVE  /\ EndsFirstAt(list, FirstEnd(list))
           /\ \A n : EndsFirstAt(list, n) => n = FirstEnd(list)
<1> DEFINE ends == {k \in 1 .. Len(list) : IsEndOfMessage(list[k])}
<1>1. Len(list) \in Nat /\ Len(list) >= 1 /\ IsEndOfMessage(list[Len(list)])
    BY DEF EndsMessage
<1>2. ends \in SUBSET Nat /\ Len(list) \in ends
    BY <1>1
<1>3. PICK n \in ends : \A m \in ends : n <= m
    <2> HIDE DEF ends
    <2> QED
        BY <1>2, HasLeast
<1>4. EndsFirstAt(list, n)
    <2>1. \A k \in 1 .. n - 1 : k \in 1 .. Len(list) /\ ~(n <= k)
        BY <1>1, <1>3
    <2> QED
        BY <1>3, <2>1 DEF EndsFirstAt
<1>5. EndsFirstAt(list, FirstEnd(list))
    BY <1>4 DEF FirstEnd, EndsFirstAt
<1>6. ASSUME NEW a, NEW b, EndsFirstAt(list, a), EndsFirstAt(list, b)
      PROVE  ~(a < b)
    BY <1>1, <1>6 DEF EndsFirstAt
<1>7. ASSUME NEW m, EndsFirstAt(list, m)
      PROVE  m = FirstEnd(list)
    <2>1. m \in Nat /\ FirstEnd(list) \in Nat
        BY <1>5, <1>7 DEF EndsFirstAt
    <2>2. ~(m < FirstEnd(list)) /\ ~(FirstEnd(list) < m)
        BY <1>5, <1>6, <1>7
    <2> QED
        BY <2>1, <2>2
<1> QED
    BY <1>5, <1>7

NoValue == [type |-> EndOfMessage, value |-> << >>]

LEMMA PackedIs ==
    ASSUME IInv
    PROVE  /\ cmdu.tlvs \in Seq(Tlv) /\ Packed \in Seq(Tlv)
           /\ Len(cmdu.tlvs) \in Nat /\ Len(Packed) \in Nat
           /\ Len(Packed) = IF EndsMessage(cmdu.tlvs)
                            THEN Len(cmdu.tlvs) ELSE Len(cmdu.tlvs) + 1
           /\ \A k \in 1 .. Len(cmdu.tlvs) : Packed[k] = cmdu.tlvs[k]
           /\ ~EndsMessage(cmdu.tlvs) => Packed[Len(cmdu.tlvs) + 1] = NoValue
           /\ EndsMessage(Packed)
<1>1. Packed = Packing!Packed
    BY SamePack DEF Packed
<1>2. cmdu \in Packing!Cmdu
    BY DEF IInv, Packing!IInv, Packing!TypeOK
<1>3. Packing!AppendEndOfMessage <=> ~EndsMessage(cmdu.tlvs)
    BY SameReads DEF Packing!AppendEndOfMessage
<1>4. /\ Packed \in Seq(Packing!Fit)
      /\ cmdu.tlvs \in Seq(Packing!Fit) /\ Len(cmdu.tlvs) \in Nat
      /\ Len(Packed) = IF Packing!AppendEndOfMessage
                        THEN Len(cmdu.tlvs) + 1 ELSE Len(cmdu.tlvs)
      /\ \A k \in 1 .. Len(cmdu.tlvs) : Packed[k] = cmdu.tlvs[k]
      /\ Packing!AppendEndOfMessage => Packed[Len(cmdu.tlvs) + 1] = Packing!EndTlv
    BY <1>1, <1>2, CmdusAreCmdus, BaseAssumption, Packing!PackedAre
<1>5. Packing!Fit \subseteq Tlv
    BY SameWords DEF Packing!Fit
<1>6. Packed \in Seq(Tlv) /\ cmdu.tlvs \in Seq(Tlv) /\ Len(Packed) \in Nat
    BY <1>4, <1>5
<1>7. Len(Packed) = IF EndsMessage(cmdu.tlvs) THEN Len(cmdu.tlvs) ELSE Len(cmdu.tlvs) + 1
    BY <1>3, <1>4
<1>8. ~EndsMessage(cmdu.tlvs) => Packed[Len(cmdu.tlvs) + 1] = NoValue
    BY <1>3, <1>4, SameWords DEF NoValue
<1>9. EndsMessage(Packed)
    <2>1. CASE ~EndsMessage(cmdu.tlvs)
        <3>1. Len(Packed) >= 1 /\ Packed[Len(Packed)] = NoValue
            BY <1>4, <1>7, <1>8, <2>1
        <3> QED
            BY <1>6, <3>1 DEF EndsMessage, IsEndOfMessage, NoValue
    <2>2. CASE EndsMessage(cmdu.tlvs)
        BY <1>1, <2>2, SameReads DEF Packing!Packed, Packing!Terminated
    <2> QED
        BY <2>1, <2>2
<1> QED
    BY <1>4, <1>6, <1>7, <1>8, <1>9

LEMMA PacketIs ==
    ASSUME IInv, sender = "return"
    PROVE  /\ packet \in Seq(Byte) /\ rooms \in Seq(Nat) /\ Packed \in Seq(Tlv)
           /\ HeaderAt(packet) = cmdu.header
           /\ LiesIn(packet, Packed, rooms) /\ EndsMessage(Packed)
           /\ \A j, k \in 1 .. Len(rooms) : j <= k => rooms[j] <= rooms[k]
<1>1. Packed = Packing!Packed
    BY SamePack DEF Packed
<1>2. Packing!PacketHoldsTheCmdu
    BY CmdusAreCmdus, BaseAssumption, Packing!IInvHoldsTheCmdu DEF IInv
<1>3. HeaderAt(packet) = cmdu.header /\ LiesIn(packet, Packed, rooms)
    BY <1>1, <1>2, SameReads DEF Packing!PacketHoldsTheCmdu, Packing!Packed
<1>4. /\ packet \in Seq(Byte) /\ rooms \in Seq(Nat)
      /\ \A j, k \in 1 .. Len(rooms) : j <= k => rooms[j] <= rooms[k]
    BY SameWords DEF IInv, Packing!IInv, Packing!TypeOK, Packing!InOrder
<1> QED
    BY <1>3, <1>4, PackedIs

(***************************************************************************)
(* What Parse returns, in the words of this module.                        *)
(***************************************************************************)
LEMMA ReceivedIs ==
    ASSUME IInv, receiver = "return"
    PROVE  /\ received \in Seq(Byte) /\ offsets \in Seq(Nat) /\ tlvs \in Seq(Tlv)
           /\ header = HeaderAt(received) /\ Len(received) >= CmduHeaderSize
           /\ LiesIn(received, tlvs, offsets)
           /\ EndsFirstAt(tlvs, Len(tlvs))
<1>1. Parsing!IInv
    BY DEF IInv
<1>2. Parsing!ReturnsWhatTheBufferHolds
    BY <1>1, SameWords, BaseAssumption, Parsing!IInvReturnsIt
<1>3. /\ header = HeaderAt(received) /\ LiesIn(received, tlvs, offsets)
      /\ EndsMessage(tlvs) /\ \A k \in 1 .. Len(tlvs) - 1 : ~IsEndOfMessage(tlvs[k])
    BY <1>2, SameReads DEF Parsing!ReturnsWhatTheBufferHolds
<1>4. received \in Seq(Byte) /\ offsets \in Seq(Nat) /\ tlvs \in Seq(Tlv)
    BY <1>1, SameWords DEF Parsing!IInv, Parsing!TypeOK
<1>5. Len(received) >= CmduHeaderSize
    BY <1>1 DEF Parsing!IInv, Parsing!ReadSoFar, Parsing!LongEnough,
                Parsing!CmduHeaderSize, CmduHeaderSize
<1>6. EndsFirstAt(tlvs, Len(tlvs))
    BY <1>3, <1>4 DEF EndsMessage, EndsFirstAt
<1> QED
    BY <1>3, <1>4, <1>5, <1>6

(***************************************************************************)
(* The two buffers begin the same, so one of them begins with the other,   *)
(* and the longer one holds both lists of TLVs.                            *)
(***************************************************************************)
LEMMA ReadAsWritten ==
    ASSUME IInv, receiver = "return"
    PROVE  /\ header = cmdu.header
           /\ \A k \in Nat : k <= Len(tlvs) /\ k <= Len(Packed) =>
                  offsets[k + 1] = rooms[k + 1]
           /\ \A k \in Nat \ {0} : k <= Len(tlvs) /\ k <= Len(Packed) =>
                  tlvs[k] = Packed[k]
<1>1. sender = "return" /\ IsOfPacket(received)
    BY DEF IInv
<1>2. /\ packet \in Seq(Byte) /\ rooms \in Seq(Nat) /\ Packed \in Seq(Tlv)
      /\ HeaderAt(packet) = cmdu.header /\ LiesIn(packet, Packed, rooms)
    BY <1>1, PacketIs
<1>3. /\ received \in Seq(Byte) /\ offsets \in Seq(Nat) /\ tlvs \in Seq(Tlv)
      /\ header = HeaderAt(received) /\ Len(received) >= CmduHeaderSize
      /\ LiesIn(received, tlvs, offsets)
    BY ReceivedIs
<1>4. CASE Len(received) <= Len(packet)
    <2>1. BeginsWith(packet, received)
        BY <1>1, <1>2, <1>3, <1>4 DEF BeginsWith, IsOfPacket
    <2>2. LiesIn(packet, tlvs, offsets) /\ HeaderAt(packet) = HeaderAt(received)
        BY <1>2, <1>3, <2>1, LiesInFront, HeaderInFront
    <2>3. header = cmdu.header
        BY <1>2, <1>3, <2>2
    <2> QED
        BY <1>2, <1>3, <2>2, <2>3, ReadsOneWay
<1>5. CASE Len(packet) <= Len(received)
    <2>1. BeginsWith(received, packet)
        BY <1>1, <1>2, <1>3, <1>5 DEF BeginsWith, IsOfPacket
    <2>2. LiesIn(received, Packed, rooms)
        BY <1>2, <1>3, <2>1, LiesInFront
    <2>3. Len(packet) >= CmduHeaderSize
        <3>1. Packed # << >>
            BY <1>1, PacketIs DEF EndsMessage
        <3>2. 1 \in 1 .. Len(Packed) /\ Len(packet) \in Nat
            BY <1>2, <3>1
        <3>3. TlvFitsAt(packet, rooms[1]) /\ rooms[1] = CmduHeaderSize + 1
            BY <1>2, <3>2 DEF LiesIn
        <3> QED
            BY <3>2, <3>3 DEF TlvFitsAt, TlvHeaderSize, CmduHeaderSize
    <2>4. HeaderAt(received) = HeaderAt(packet)
        BY <1>2, <1>3, <2>1, <2>3, HeaderInFront
    <2>5. header = cmdu.header
        BY <1>2, <1>3, <2>4
    <2> QED
        BY <1>2, <1>3, <2>2, <2>5, ReadsOneWay
<1>6. Len(received) \in Nat /\ Len(packet) \in Nat
    BY <1>2, <1>3
<1> QED
    BY <1>4, <1>5, <1>6

(***************************************************************************)
(* So Parse stops at the END_OF_MESSAGE that Pack meant.                   *)
(***************************************************************************)
LEMMA ReadToTheEnd ==
    ASSUME IInv, receiver = "return"
    PROVE  Len(tlvs) = FirstEnd(Packed) /\ EndsFirstAt(Packed, Len(tlvs))
<1>1. /\ Packed \in Seq(Tlv) /\ EndsMessage(Packed) /\ tlvs \in Seq(Tlv)
      /\ EndsFirstAt(tlvs, Len(tlvs))
    BY PacketIs, ReceivedIs DEF IInv
<1>2. Len(Packed) \in Nat /\ Len(Packed) >= 1 /\ Len(tlvs) \in Nat /\ Len(tlvs) >= 1
    BY <1>1 DEF EndsMessage, EndsFirstAt
<1>3. \A k \in Nat \ {0} : k <= Len(tlvs) /\ k <= Len(Packed) => tlvs[k] = Packed[k]
    BY ReadAsWritten
<1>4. Len(tlvs) <= Len(Packed)
    <2> SUFFICES ASSUME Len(Packed) < Len(tlvs) PROVE FALSE
        BY <1>2
    <2>1. Len(Packed) \in 1 .. Len(tlvs) - 1
        BY <1>2
    <2>2. tlvs[Len(Packed)] = Packed[Len(Packed)]
        BY <1>2, <1>3
    <2> QED
        BY <1>1, <2>1, <2>2 DEF EndsMessage, EndsFirstAt
<1>5. EndsFirstAt(Packed, Len(tlvs))
    <2>1. \A k \in 1 .. Len(tlvs) : tlvs[k] = Packed[k]
        BY <1>2, <1>3, <1>4
    <2>2. Len(tlvs) \in 1 .. Len(tlvs) /\ Len(tlvs) \in 1 .. Len(Packed)
        BY <1>2, <1>4
    <2>3. \A k \in 1 .. Len(tlvs) - 1 : k \in 1 .. Len(tlvs)
        BY <1>2
    <2> QED
        BY <1>1, <2>1, <2>2, <2>3 DEF EndsFirstAt
<1> QED
    BY <1>1, <1>5, FirstEndIs

LEMMA ReceivedAsSent == IInv => ReceivesWhatWasSent
<1> SUFFICES ASSUME IInv, receiver = "return"
             PROVE  header = cmdu.header /\ tlvs = ToReceive
    BY DEF ReceivesWhatWasSent
<1> DEFINE n == Len(tlvs)
           front == SubSeq(Packed, 1, n)
<1>1. /\ Packed \in Seq(Tlv) /\ tlvs \in Seq(Tlv) /\ n \in Nat
      /\ Len(Packed) \in Nat /\ n <= Len(Packed)
    BY PacketIs, ReceivedIs, ReadToTheEnd DEF IInv, EndsFirstAt
<1>2. /\ front \in Seq(Tlv) /\ Len(front) = n
      /\ \A k \in 1 .. n : front[k] = Packed[k]
    BY <1>1
<1>3. \A k \in 1 .. n : tlvs[k] = Packed[k]
    BY <1>1, ReadAsWritten
<1> HIDE DEF front
<1>4. tlvs = front
    BY <1>1, <1>2, <1>3, SameElements
<1> QED
    BY <1>4, ReadAsWritten, ReadToTheEnd DEF ToReceive, front

(***************************************************************************)
(* Whatever CMDU, padding and receive buffer: a CMDU that Parse returns is *)
(* the one that was packed, never one misread from a packet that was cut.  *)
(***************************************************************************)
THEOREM ReceivesIt == Spec => []ReceivesWhatWasSent
<1> QED
    BY ReceivedAsSent, SpecIInv, PTL

(***************************************************************************)
(* A packet that reaches the receiver up to its END_OF_MESSAGE holds a     *)
(* CMDU there.                                                             *)
(***************************************************************************)
LEMMA WholeHoldsCmdu ==
    ASSUME IInv, receiver # "waiting", Len(received) >= MessageEnd
    PROVE  HoldsCmdu(received)
<1> DEFINE last == FirstEnd(Packed)
           places == {rooms[k] : k \in 1 .. last}
<1>1. sender = "return" /\ IsOfPacket(received)
    BY DEF IInv
<1>2. /\ packet \in Seq(Byte) /\ rooms \in Seq(Nat) /\ Packed \in Seq(Tlv)
      /\ LiesIn(packet, Packed, rooms) /\ EndsMessage(Packed)
      /\ \A j, k \in 1 .. Len(rooms) : j <= k => rooms[j] <= rooms[k]
    BY <1>1, PacketIs
<1>3. received \in Seq(Byte) /\ Len(received) \in Nat
    BY <1>1 DEF IsOfPacket
<1>4. EndsFirstAt(Packed, last)
    BY <1>2, FirstEndIs
<1>5. Len(Packed) \in Nat /\ last \in 1 .. Len(Packed) /\ Len(rooms) = Len(Packed) + 1
    BY <1>2, <1>4 DEF EndsFirstAt, LiesIn
<1> HIDE DEF last
<1>6. rooms[last + 1] \in Nat /\ rooms[last + 1] <= Len(received) + 1
    <2>1. last + 1 \in 1 .. Len(rooms)
        BY <1>5
    <2>2. rooms[last + 1] \in Nat
        BY <1>2, <2>1, HasElement
    <2> QED
        BY <1>3, <2>2 DEF MessageEnd, last
<1>7. ASSUME NEW k \in 1 .. last
      PROVE  /\ rooms[k] \in CmduHeaderSize + 1 .. Len(received)
             /\ rooms[k] + 3 <= Len(received) + 1
             /\ TlvFitsAt(received, rooms[k])
             /\ TlvAt(received, rooms[k]) = Packed[k]
             /\ EndOfTlvAt(received, rooms[k]) = rooms[k + 1]
    <2>1. /\ k \in 1 .. Len(Packed) /\ k \in 1 .. Len(rooms) /\ k + 1 \in 1 .. Len(rooms)
          /\ 1 \in 1 .. Len(rooms) /\ 1 <= k
          /\ last + 1 \in 1 .. Len(rooms) /\ k + 1 <= last + 1
        BY <1>5
    <2>2. /\ TlvFitsAt(packet, rooms[k]) /\ Packed[k] = TlvAt(packet, rooms[k])
          /\ rooms[k + 1] = EndOfTlvAt(packet, rooms[k])
          /\ rooms[1] = CmduHeaderSize + 1
        BY <1>2, <2>1 DEF LiesIn
    <2>3. /\ rooms[k] \in Nat /\ rooms[k + 1] \in Nat
          /\ rooms[k] \in Int /\ rooms[k + 1] \in Int
        <3>1. rooms[k] \in Nat /\ rooms[k + 1] \in Nat
            BY <1>2, <2>1, HasElement
        <3>2. \A n \in Nat : n \in Int
            OBVIOUS
        <3> QED
            BY <3>1, <3>2, Zenon
    <2>4. rooms[1] <= rooms[k] /\ rooms[k + 1] <= rooms[last + 1]
        BY <1>2, <2>1
    <2>5. rooms[k + 1] <= Len(received) + 1 /\ rooms[k + 1] <= Len(packet) + 1
        BY <1>3, <1>6, <2>2, <2>3, <2>4 DEF TlvFitsAt
    <2>6. \A r \in Int : r < rooms[k + 1] => ByteAt(received, r) = ByteAt(packet, r)
        BY <1>1, <1>2, <1>3, <2>3, <2>5 DEF IsOfPacket, ByteAt
    <2>7. /\ TlvAt(received, rooms[k]) = TlvAt(packet, rooms[k])
          /\ EndOfTlvAt(received, rooms[k]) = EndOfTlvAt(packet, rooms[k])
        <3>1. EndOfTlvAt(packet, rooms[k]) <= rooms[k + 1]
            BY <2>2, <2>3
        <3>2. \A p, q \in Int :
                  /\ \A r \in Int : r < p => ByteAt(received, r) = ByteAt(packet, r)
                  /\ EndOfTlvAt(packet, q) <= p
                  => /\ TlvAt(received, q) = TlvAt(packet, q)
                     /\ EndOfTlvAt(received, q) = EndOfTlvAt(packet, q)
            BY <1>2, <1>3, TlvKept
        <3> QED
            BY <2>3, <2>6, <3>1, <3>2, Zenon
    <2>8. rooms[k + 1] >= rooms[k] + 3
        <3>1. LengthAt(packet, rooms[k]) \in Nat
            BY <1>2, <2>3, LengthAtType
        <3>2. rooms[k + 1] = rooms[k] + 3 + LengthAt(packet, rooms[k])
            BY <2>2 DEF EndOfTlvAt, TlvHeaderSize
        <3> QED
            BY <2>3, <3>1, <3>2
    <2> QED
        BY <1>3, <2>2, <2>3, <2>4, <2>5, <2>7, <2>8
           DEF TlvFitsAt, TlvHeaderSize, CmduHeaderSize
<1>8. IsTlvChain(received, places)
    <2>1. CmduHeaderSize + 1 \in places
        <3>1. 1 \in 1 .. last /\ 1 \in 1 .. Len(rooms)
            BY <1>5
        <3>2. rooms[1] = CmduHeaderSize + 1
            BY <1>2 DEF LiesIn
        <3> QED
            BY <3>1, <3>2
    <2>2. ASSUME NEW k \in 1 .. last
          PROVE  \/ ByteAt(received, rooms[k]) = EndOfMessage
                 \/ EndOfTlvAt(received, rooms[k]) \in places
        <3>1. CASE k = last
            <4>1. TlvAt(received, rooms[k]) = Packed[k] /\ Packed[k].type = EndOfMessage
                BY <1>4, <1>7, <3>1 DEF EndsFirstAt, IsEndOfMessage
            <4> QED
                BY <4>1 DEF TlvAt
        <3>2. CASE k # last
            <4>1. k + 1 \in 1 .. last
                BY <1>5, <3>2
            <4>2. rooms[k + 1] \in places
                BY <4>1
            <4>3. EndOfTlvAt(received, rooms[k]) = rooms[k + 1]
                BY <1>7
            <4> QED
                BY <4>2, <4>3, Zenon
        <3> QED
            BY <3>1, <3>2
    <2> QED
        BY <1>7, <2>1, <2>2 DEF IsTlvChain
<1>9. places \in SUBSET (CmduHeaderSize + 1 .. Len(received))
    BY <1>7
<1>10. Len(received) >= CmduHeaderSize
    <2>1. CmduHeaderSize + 1 \in places
        BY <1>8 DEF IsTlvChain
    <2>2. CmduHeaderSize + 1 \in CmduHeaderSize + 1 .. Len(received)
        BY <1>9, <2>1
    <2> QED
        BY <1>3, <2>2 DEF CmduHeaderSize
<1> QED
    BY <1>8, <1>9, <1>10 DEF HoldsCmdu

LEMMA CutIsRefused ==
    IInv /\ receiver = "runtime_error" => Len(received) < MessageEnd
<1> SUFFICES ASSUME IInv, receiver = "runtime_error"
             PROVE  Len(received) < MessageEnd
    OBVIOUS
<1>1. ~HoldsCmdu(received)
    BY SameReads DEF IInv, Parsing!IInv, Parsing!ThrownWithoutCmdu
<1>2. ~(Len(received) >= MessageEnd)
    BY <1>1, WholeHoldsCmdu
<1>3. Len(received) \in Nat
    BY DEF IInv, IsOfPacket
<1>4. MessageEnd \in Int
    <2>1. /\ rooms \in Seq(Nat) /\ LiesIn(packet, Packed, rooms)
          /\ Packed \in Seq(Tlv) /\ EndsMessage(Packed)
        BY PacketIs DEF IInv
    <2>2. FirstEnd(Packed) \in 1 .. Len(Packed)
        BY <2>1, FirstEndIs DEF EndsFirstAt
    <2>3. FirstEnd(Packed) + 1 \in 1 .. Len(rooms)
        BY <2>1, <2>2 DEF LiesIn
    <2> QED
        BY <2>1, <2>3, HasElement DEF MessageEnd
<1> QED
    BY <1>2, <1>3, <1>4

(***************************************************************************)
(* Parse refuses a packet that Pack made only if it did not arrive up to   *)
(* its END_OF_MESSAGE, whatever follows it.                                *)
(***************************************************************************)
THEOREM RefusesOnlyIfCut == Spec => []ThrowsOnlyIfCut
<1> QED
    BY CutIsRefused, SpecIInv, PTL DEF ThrowsOnlyIfCut

-----------------------------------------------------------------------------
(* Pack, the wire and Parse do what CmduTransfer promises *)

LEMMA ReturnedIsWhole ==
    ASSUME IInv, receiver = "return"
    PROVE  Len(received) >= MessageEnd
<1> DEFINE n == Len(tlvs)
<1>1. /\ received \in Seq(Byte) /\ tlvs \in Seq(Tlv) /\ offsets \in Seq(Nat)
      /\ LiesIn(received, tlvs, offsets)
    BY ReceivedIs
<1>2. n = FirstEnd(Packed) /\ n \in Nat \ {0} /\ n <= Len(Packed)
    BY <1>1, PacketIs, ReadToTheEnd DEF IInv, EndsFirstAt
<1>3. offsets[n + 1] = rooms[n + 1]
    BY <1>2, ReadAsWritten
<1>4. n \in 1 .. Len(tlvs) /\ n + 1 \in 1 .. Len(offsets)
    BY <1>1, <1>2 DEF LiesIn
<1>5. offsets[n + 1] <= Len(received) + 1
    BY <1>1, <1>4 DEF LiesIn, TlvFitsAt
<1>6. offsets[n + 1] \in Nat /\ Len(received) \in Nat
    BY <1>1, <1>4, HasElement
<1> QED
    BY <1>2, <1>3, <1>5, <1>6 DEF MessageEnd

(***************************************************************************)
(* The two ways of saying what the payload of a CMDU is: CmduTransfer's,   *)
(* and by the first END_OF_MESSAGE of what is packed.                      *)
(***************************************************************************)
HasPayload(list, n) ==
    /\ n \in 0 .. Len(list)
    /\ \A k \in 1 .. n : ~IsEndOfMessage(list[k])
    /\ n < Len(list) => IsEndOfMessage(list[n + 1])

LEMMA PayloadIs ==
    ASSUME IInv
    PROVE  /\ HasPayload(cmdu.tlvs, Transfer!Payload(cmdu.tlvs))
           /\ FirstEnd(Packed) = Transfer!Payload(cmdu.tlvs) + 1
<1> DEFINE list == cmdu.tlvs
           m == Len(list)
           f == FirstEnd(Packed)
           p == Transfer!Payload(list)
<1>1. /\ Packed \in Seq(Tlv) /\ m \in Nat /\ Len(Packed) \in Nat
      /\ Len(Packed) = IF EndsMessage(list) THEN m ELSE m + 1
      /\ \A k \in 1 .. m : Packed[k] = list[k]
      /\ ~EndsMessage(list) => Packed[m + 1] = NoValue
      /\ EndsMessage(Packed) /\ list \in Seq(Tlv)
    BY PackedIs
<1>2. EndsFirstAt(Packed, f) /\ \A n : EndsFirstAt(Packed, n) => n = f
    BY <1>1, FirstEndIs
<1>3. p = CHOOSE n \in 0 .. m :
              /\ \A k \in 1 .. n : ~IsEndOfMessage(list[k])
              /\ n < m => IsEndOfMessage(list[n + 1])
    BY DEF Transfer!Payload, Transfer!IsEndOfMessage, Transfer!EndOfMessage,
           IsEndOfMessage, EndOfMessage
<1> HIDE DEF f, p, list
<1>4. HasPayload(list, f - 1)
    <2>1. f \in 1 .. Len(Packed) /\ f - 1 \in 0 .. m /\ f - 1 + 1 = f
        BY <1>1, <1>2 DEF EndsFirstAt
    <2>2. \A k \in 1 .. f - 1 : k \in 1 .. m
        BY <1>1, <2>1
    <2>3. \A k \in 1 .. f - 1 : ~IsEndOfMessage(list[k])
        BY <1>1, <1>2, <2>2 DEF EndsFirstAt
    <2>4. f - 1 < m => f \in 1 .. m
        BY <1>1, <2>1
    <2>5. f - 1 < m => IsEndOfMessage(list[f - 1 + 1])
        BY <1>1, <1>2, <2>1, <2>4 DEF EndsFirstAt
    <2> QED
        BY <2>1, <2>3, <2>5 DEF HasPayload
<1>5. HasPayload(list, p)
    BY <1>3, <1>4 DEF HasPayload
<1>6. EndsFirstAt(Packed, p + 1)
    <2>1. p \in Nat /\ p <= m
        BY <1>1, <1>5 DEF HasPayload
    <2>2. \A k \in 1 .. p : k \in 1 .. m
        BY <1>1, <2>1
    <2>3. \A k \in 1 .. p + 1 - 1 : ~IsEndOfMessage(Packed[k])
        BY <1>1, <1>5, <2>1, <2>2 DEF HasPayload
    <2>4. CASE p < m
        <3>1. p + 1 \in 1 .. m /\ p + 1 \in 1 .. Len(Packed)
            BY <1>1, <2>1, <2>4
        <3>2. IsEndOfMessage(Packed[p + 1])
            BY <1>1, <1>5, <2>4, <3>1 DEF HasPayload
        <3> QED
            BY <2>1, <2>3, <3>1, <3>2 DEF EndsFirstAt
    <2>5. CASE p = m
        <3>1. ~EndsMessage(list)
            <4> SUFFICES ASSUME EndsMessage(list) PROVE FALSE
                OBVIOUS
            <4>1. m \in 1 .. m /\ IsEndOfMessage(list[m])
                BY <1>1 DEF EndsMessage
            <4> QED
                BY <1>5, <2>5, <4>1 DEF HasPayload
        <3>2. p + 1 \in 1 .. Len(Packed) /\ Packed[p + 1] = NoValue
            BY <1>1, <2>5, <3>1
        <3>3. IsEndOfMessage(Packed[p + 1])
            BY <3>2 DEF IsEndOfMessage, NoValue
        <3> QED
            BY <2>1, <2>3, <3>2, <3>3 DEF EndsFirstAt
    <2> QED
        BY <1>1, <2>1, <2>4, <2>5
<1> QED
    BY <1>2, <1>5, <1>6 DEF f, p, list

LEMMA MessageIs ==
    ASSUME IInv
    PROVE  Transfer!Message(cmdu) = [header |-> cmdu.header, tlvs |-> ToReceive]
<1> DEFINE list == cmdu.tlvs
           p == Transfer!Payload(list)
           front == SubSeq(list, 1, p)
           end == IF p < Len(list) THEN list[p + 1] ELSE NoValue
           message == Append(front, end)
           packed == SubSeq(Packed, 1, p + 1)
<1>1. /\ Packed \in Seq(Tlv) /\ list \in Seq(Tlv)
      /\ Len(list) \in Nat /\ Len(Packed) \in Nat
      /\ Len(Packed) = IF EndsMessage(list) THEN Len(list) ELSE Len(list) + 1
      /\ \A k \in 1 .. Len(list) : Packed[k] = list[k]
      /\ ~EndsMessage(list) => Packed[Len(list) + 1] = NoValue
      /\ EndsMessage(Packed)
    BY PackedIs
<1>2. HasPayload(list, p) /\ FirstEnd(Packed) = p + 1
    BY PayloadIs
<1>3. EndsFirstAt(Packed, p + 1)
    BY <1>1, <1>2, FirstEndIs
<1>4. Transfer!Message(cmdu) = [header |-> cmdu.header, tlvs |-> message]
    BY DEF Transfer!Message, Transfer!EndOf, Transfer!EndOfMessage, EndOfMessage, NoValue
<1>5. ToReceive = packed
    BY <1>2 DEF ToReceive
<1> HIDE DEF p, list, end
<1>6. p \in Nat /\ p <= Len(list) /\ p + 1 <= Len(Packed)
    BY <1>1, <1>2, <1>3 DEF HasPayload, EndsFirstAt
<1>7. end = Packed[p + 1] /\ end \in Tlv
    <2>1. end = Packed[p + 1]
        <3>1. CASE p < Len(list)
            <4>1. p + 1 \in 1 .. Len(list)
                BY <1>1, <1>6, <3>1
            <4> QED
                BY <1>1, <3>1, <4>1 DEF end
        <3>2. CASE p = Len(list)
            BY <1>1, <1>6, <3>2 DEF end
        <3> QED
            BY <1>1, <1>6, <3>1, <3>2
    <2>2. p + 1 \in 1 .. Len(Packed)
        BY <1>3 DEF EndsFirstAt
    <2> QED
        BY <1>1, <2>1, <2>2, HasElement
<1>8. /\ front \in Seq(Tlv) /\ Len(front) = p
      /\ \A k \in 1 .. p : front[k] = list[k]
    BY <1>1, <1>6
<1> HIDE DEF front
<1>9. /\ message \in Seq(Tlv) /\ Len(message) = p + 1 /\ message[p + 1] = end
      /\ \A k \in 1 .. p : message[k] = list[k]
    BY <1>6, <1>7, <1>8
<1>10. /\ packed \in Seq(Tlv) /\ Len(packed) = p + 1
       /\ \A k \in 1 .. p + 1 : packed[k] = Packed[k]
    BY <1>1, <1>6
<1> HIDE DEF message, packed
<1>11. ASSUME NEW k \in 1 .. p + 1 PROVE message[k] = packed[k]
    <2>1. CASE k = p + 1
        BY <1>7, <1>9, <1>10, <2>1
    <2>2. CASE k \in 1 .. p
        <3>1. k \in 1 .. Len(list)
            BY <1>1, <1>6, <2>2
        <3> QED
            BY <1>1, <1>9, <1>10, <2>2, <3>1
    <2> QED
        BY <1>6, <2>1, <2>2
<1>12. message = packed
    BY <1>9, <1>10, <1>11, SameElements
<1> QED
    BY <1>4, <1>5, <1>12

(***************************************************************************)
(* How the outcome follows from how the packet arrived.                    *)
(***************************************************************************)
OutcomeFits ==
    /\ receiver = "return" =>
          /\ HowItArrived = "whole"
          /\ [header |-> header, tlvs |-> tlvs] = Transfer!Message(cmdu)
    /\ receiver = "runtime_error" => HowItArrived = "cut"

LEMMA EveryOutcomeFits == IInv => OutcomeFits
<1> SUFFICES ASSUME IInv PROVE OutcomeFits
    OBVIOUS
<1>1. ASSUME receiver = "return"
      PROVE  /\ HowItArrived = "whole"
             /\ [header |-> header, tlvs |-> tlvs] = Transfer!Message(cmdu)
    BY <1>1, ReturnedIsWhole, ReceivedAsSent, MessageIs
       DEF HowItArrived, ReceivesWhatWasSent
<1>2. ASSUME receiver = "runtime_error"
      PROVE  HowItArrived = "cut"
    <2>1. ~HoldsCmdu(received)
        BY <1>2, SameReads DEF IInv, Parsing!IInv, Parsing!ThrownWithoutCmdu
    <2>2. ~(Len(received) >= MessageEnd)
        BY <1>2, <2>1, WholeHoldsCmdu
    <2> QED
        BY <1>2, <2>2 DEF HowItArrived
<1> QED
    BY <1>1, <1>2 DEF OutcomeFits

LEMMA NextTransfers ==
    ASSUME IInv, IInv', OutcomeFits', [Next]_vars
    PROVE  [Transfer!Next]_(Transfer!vars)
<1>1. CASE Send
    <2>1. sender # "return" /\ cmdu' = cmdu
        <3>1. Packing!Next
            BY <1>1, SamePack DEF Send
        <3> QED
            BY <3>1 DEF Packing!Next, Packing!AddSize, Packing!AddEndSize,
                        Packing!Allocate, Packing!WriteHeader, Packing!WriteTlv,
                        Packing!WriteEnd
    <2>2. receiver = "waiting" /\ receiver' = "waiting"
        BY <1>1, <2>1 DEF Send, parseVars, IInv
    <2> QED
        BY <2>1, <2>2 DEF Transfer!vars, HowItArrived, Outcome, Understood
<1>2. CASE Deliver
    <2>1. receiver = "waiting" /\ receiver' = "header" /\ cmdu' = cmdu
        BY <1>2 DEF Deliver, Receiver!Enter, packVars
    <2>2. HowItArrived = "nothing" /\ HowItArrived' \in {"whole", "cut"}
        BY <2>1 DEF HowItArrived
    <2>3. Transfer!Arrive
        BY <2>1, <2>2 DEF Transfer!Arrive, Outcome, Understood
    <2> QED
        BY <2>3 DEF Transfer!Next
<1>3. CASE Receive
    <2>1. /\ receiver \in {"header", "tlvs", "end"} /\ received' = received
          /\ UNCHANGED packVars
          /\ receiver' \in {"header", "tlvs", "end", "return", "runtime_error"}
        <3>1. receiver \in {"header", "tlvs", "end"} /\ received' = received
            BY <1>3, ReceiveIInv
        <3>2. receiver' # "waiting"
            BY <1>3, <3>1, SameParse
               DEF Receive, Parsing!Next, Parsing!ThrowShortBuffer, Parsing!ReadHeader,
                   Parsing!ThrowTlvHeader, Parsing!ThrowTlvValue, Parsing!ReadTlv,
                   Parsing!AfterTlv, Parsing!Return, Parsing!ThrowUnterminated,
                   Parsing!Throw
        <3>3. (IInv /\ receiver # "waiting" => receiver \in Parsing!Points)'
            BY DEF IInv, Parsing!IInv, Parsing!TypeOK
        <3> QED
            BY <1>3, <3>1, <3>2, <3>3 DEF Receive, Parsing!Points
    <2>2. HowItArrived' = HowItArrived /\ cmdu' = cmdu
        BY <2>1 DEF HowItArrived, MessageEnd, FirstEnd, Packed, packVars,
                    Sender!Terminated, Sender!EndsMessage, Sender!IsEndOfMessage
    <2>3. Outcome = "none" /\ Understood = {}
        BY <2>1 DEF Outcome, Understood
    <2>4. CASE receiver' = "return"
        <3>1. /\ HowItArrived = "whole" /\ Outcome' = "received"
              /\ Understood' = {Transfer!Message(cmdu)}
            <4>1. HowItArrived' = "whole"
                BY <2>4 DEF OutcomeFits
            <4>2. [header |-> header', tlvs |-> tlvs'] = Transfer!Message(cmdu')
                BY <2>4 DEF OutcomeFits, Transfer!Message
            <4> QED
                BY <2>2, <2>4, <4>1, <4>2 DEF Outcome, Understood
        <3>2. Transfer!Receive
            BY <2>2, <2>3, <3>1 DEF Transfer!Receive
        <3> QED
            BY <3>2 DEF Transfer!Next
    <2>5. CASE receiver' = "runtime_error"
        <3>1. HowItArrived = "cut" /\ Outcome' = "refused" /\ Understood' = {}
            BY <2>2, <2>5 DEF OutcomeFits, Outcome, Understood
        <3>2. Transfer!Refuse
            BY <2>2, <2>3, <3>1 DEF Transfer!Refuse
        <3> QED
            BY <3>2 DEF Transfer!Next
    <2>6. CASE receiver' \notin {"return", "runtime_error"}
        BY <2>2, <2>3, <2>6 DEF Transfer!vars, Outcome, Understood
    <2> QED
        BY <2>4, <2>5, <2>6
<1>4. CASE UNCHANGED vars
    BY <1>4 DEF vars, packVars, parseVars, Transfer!vars, HowItArrived, MessageEnd,
                FirstEnd, Packed, Outcome, Understood
<1> QED
    BY <1>1, <1>2, <1>3, <1>4 DEF Next

(***************************************************************************)
(* Every step of the two functions and the wire is one that CmduTransfer   *)
(* allows: the packet arrives, and the message of the CMDU is received if  *)
(* it arrived whole and refused if it was cut.  That one or the other does *)
(* happen, the rest of Transfers, is liveness.                             *)
(***************************************************************************)
THEOREM TransfersSafely == Spec => Transfer!Safety
<1>1. Init => Transfer!Init
    <2> SUFFICES ASSUME Init PROVE Transfer!Init
        OBVIOUS
    <2>1. cmdu \in Cmdus
        BY DEF Init, Sender!Init, Sender!EnteredWith
    <2> QED
        BY <2>1 DEF Init, Waiting, Transfer!Init, HowItArrived, Outcome, Understood
<1>2. IInv /\ IInv' /\ OutcomeFits' /\ [Next]_vars => [Transfer!Next]_(Transfer!vars)
    BY NextTransfers
<1> QED
    BY <1>1, <1>2, EveryOutcomeFits, SpecIInv, PTL DEF Spec, Transfer!Safety

-----------------------------------------------------------------------------
(* A WscMessage on its way: the instances speak of the same things *)

LEMMA SameMessage ==
    /\ Reading!Byte = Byte /\ Reading!Uint16 = Uint16 /\ Reading!Tlv = Tlv
    /\ \A value : Reading!FitsTlv(value) <=> FitsTlv(value)
    /\ Message!Init <=> Reading!Init
    /\ \A name, value :
          Message!AddAttribute(name, value) <=> Reading!AddAttribute(name, value)
    /\ \A data : Message!EnterParseAttributes(data) <=> Reading!EnterParseAttributes(data)
    /\ Message!ParseAttribute <=> Reading!ParseAttribute
    /\ Message!ParseReturns <=> Reading!ParseReturns
    /\ Message!ParseThrows <=> Reading!ParseThrows
<1> QED
    BY DEF Reading!Byte, Byte, Reading!Uint16, Uint16, Reading!Tlv, Tlv, Reading!FitsTlv,
           FitsTlv, Message!FitsTlv, Message!Uint16,
           Message!Init, Reading!Init, Message!Empty, Reading!Empty,
           Message!AddAttribute, Reading!AddAttribute, Message!Assigned, Reading!Assigned,
           Message!With, Reading!With, Message!parseVars, Reading!parseVars,
           Message!EnterParseAttributes, Reading!EnterParseAttributes,
           Message!ParseAttribute, Reading!ParseAttribute,
           Message!ParseReturns, Reading!ParseReturns,
           Message!ParseThrows, Reading!ParseThrows,
           Message!buildVars, Reading!buildVars,
           Message!AttributeHeaderFits, Reading!AttributeHeaderFits,
           Message!AttributeFits, Reading!AttributeFits,
           Message!AttributeHeaderSize, Reading!AttributeHeaderSize,
           Message!AttributeLength, Reading!AttributeLength,
           Message!AttributeValue, Reading!AttributeValue,
           Message!ParsedWith, Reading!ParsedWith, Message!BytesAt, Reading!BytesAt,
           Message!Uint16At, Reading!Uint16At, Message!Uint16Of, Reading!Uint16Of,
           Message!ByteAt, Reading!ByteAt

LEMMA SameToTlv == Message!ToTlv <=> Reading!ToTlv
<1> DEFINE map == m_attributes
           size == Reading!Cardinality(DOMAIN map)
           order == Reading!InOrder(DOMAIN map)
           parts == [k \in 1 .. size |-> Reading!AttributeBytes(map, order[k])]
<1>0. Message!Cardinality(DOMAIN map) = size
    BY DEF Message!Cardinality, Reading!Cardinality
<1>1. Message!InOrder(DOMAIN map) = order
    BY <1>0 DEF Message!InOrder, Reading!InOrder
<1>2. \A type : Message!AttributeBytes(map, type) = Reading!AttributeBytes(map, type)
    BY DEF Message!AttributeBytes, Reading!AttributeBytes, Message!HighByte,
           Reading!HighByte, Message!LowByte, Reading!LowByte
<1>3. \A list : Message!FlattenSeq(list) = Reading!FlattenSeq(list)
    BY DEF Message!FlattenSeq, Reading!FlattenSeq
<1>4. Message!PackAttributes(map) = Message!FlattenSeq(parts)
    BY <1>0, <1>1, <1>2 DEF Message!PackAttributes
<1>5. Reading!PackAttributes(map) = Reading!FlattenSeq(parts)
    BY DEF Reading!PackAttributes
<1> HIDE DEF parts, order
<1>6. Message!PackAttributes(map) = Reading!PackAttributes(map)
    BY <1>3, <1>4, <1>5
<1> QED
    BY <1>6 DEF Message!ToTlv, Reading!ToTlv, Message!parseVars, Reading!parseVars,
           Message!FitsTlv, Reading!FitsTlv, Message!Uint16, Reading!Uint16

(* What WscProofs assumes of the constants. *)
LEMMA MessageAssumptions ==
    /\ \A name \in Reading!Names : Attributes[name] \in Reading!Uint16
    /\ Values \subseteq Seq(Reading!Byte)
    /\ {} \subseteq Seq(Reading!Byte)
    /\ WscMessagingTlv \in Reading!Byte
<1> QED
    BY SameMessage, AttributesAssumption, ValuesAssumption, WscMessagingTlvAssumption
       DEF Reading!Names

-----------------------------------------------------------------------------
(* The list AddTlv makes and the TLVs that were added *)

FitTlv == {one \in Tlv : FitsTlv(one.value)}

FirstWsc(list) == {list[k] : k \in {j \in 1 .. Len(list) : FirstWscAt(list, j)}}

HasEnd(list) == \E k \in 1 .. Len(list) : IsEndOfMessage(list[k])

NoneBeforeLast(list) == \A k \in 1 .. Len(list) - 1 : ~IsEndOfMessage(list[k])

(***************************************************************************)
(* A list that AddTlv made tells of the TLVs that were taken: which WSC    *)
(* TLV came first, whether there was one, and of their END_OF_MESSAGEs.    *)
(***************************************************************************)
Holds(list, taken) ==
    /\ list \in Seq(FitTlv) /\ taken \in Seq(FitTlv)
    /\ FirstWsc(list) = FirstWsc(taken)
    /\ HasWsc(list) <=> HasWsc(taken)
    /\ HasEnd(list) => HasEnd(taken)
    /\ HasTwoEnds(taken) \/ NoneBeforeLast(list)

LEMMA WscIsNotEnd ==
    ASSUME NEW one, IsEndOfMessage(one)
    PROVE  one.type # WscMessagingTlv
<1> QED
    BY WscMessagingTlvAssumption DEF IsEndOfMessage

(* A TLV goes in, with nothing but END_OF_MESSAGEs behind its place. *)
OneMoreAt(n, list, more, new) ==
    /\ n \in Nat /\ n <= Len(list) /\ n < Len(more)
    /\ \A k \in 1 .. n : more[k] = list[k]
    /\ more[n + 1] = new
    /\ \A k \in n + 1 .. Len(list) : IsEndOfMessage(list[k])
    /\ \A k \in n + 2 .. Len(more) : IsEndOfMessage(more[k])

LEMMA OneMoreWsc ==
    ASSUME NEW list \in Seq(Tlv), NEW more \in Seq(Tlv), NEW new, NEW n,
           OneMoreAt(n, list, more, new)
    PROVE  /\ HasWsc(more) <=> HasWsc(list) \/ new.type = WscMessagingTlv
           /\ FirstWsc(more) =
                 FirstWsc(list) \union
                     {one \in {new} : one.type = WscMessagingTlv /\ ~HasWsc(list)}
<1> DEFINE l == Len(list)
           m == Len(more)
           W == WscMessagingTlv
<1> USE DEF OneMoreAt
<1>1. l \in Nat /\ m \in Nat
    OBVIOUS
<1>2. /\ \A k \in 1 .. l : k \in 1 .. n \/ k \in n + 1 .. l
      /\ \A k \in 1 .. m : k \in 1 .. n \/ k = n + 1 \/ k \in n + 2 .. m
      /\ \A k \in 1 .. n : k \in 1 .. l /\ k \in 1 .. m
      /\ n + 1 \in 1 .. m
    BY <1>1
<1>3. \A k \in 1 .. l : list[k].type = W => k \in 1 .. n /\ more[k] = list[k]
    BY <1>2, WscIsNotEnd
<1>4. \A k \in 1 .. m : more[k].type = W =>
          \/ k \in 1 .. n /\ more[k] = list[k]
          \/ k = n + 1 /\ new.type = W
    BY <1>2, WscIsNotEnd
<1>5. HasWsc(more) <=> HasWsc(list) \/ new.type = W
    BY <1>2, <1>3, <1>4 DEF HasWsc
<1>6. \A k \in 1 .. n : \A j \in 1 .. k - 1 : j \in 1 .. n
    OBVIOUS
<1>7. ASSUME NEW k \in 1 .. n
      PROVE  FirstWscAt(more, k) <=> FirstWscAt(list, k)
    BY <1>2, <1>6 DEF FirstWscAt
<1>8. \A k : FirstWscAt(list, k) => k \in 1 .. n
    BY <1>3 DEF FirstWscAt
<1>9. \A k : FirstWscAt(more, k) => k \in 1 .. n \/ (k = n + 1 /\ new.type = W)
    BY <1>4 DEF FirstWscAt
<1>10. FirstWscAt(more, n + 1) <=> new.type = W /\ ~HasWsc(list)
    <2>1. n + 1 - 1 = n
        OBVIOUS
    <2>2. HasWsc(list) <=> \E j \in 1 .. n : more[j].type = W
        BY <1>2, <1>3 DEF HasWsc
    <2> QED
        BY <1>2, <2>1, <2>2 DEF FirstWscAt
<1> HIDE DEF l, m, W
<1>11. ASSUME NEW one
       PROVE  one \in FirstWsc(more) <=>
                  one \in FirstWsc(list) \/ (one = new /\ new.type = W /\ ~HasWsc(list))
    <2>1. one \in FirstWsc(list) <=> \E k : FirstWscAt(list, k) /\ one = list[k]
        BY DEF FirstWsc, FirstWscAt
    <2>2. one \in FirstWsc(more) <=> \E k : FirstWscAt(more, k) /\ one = more[k]
        BY DEF FirstWsc, FirstWscAt
    <2> QED
        BY <1>7, <1>8, <1>9, <1>10, <2>1, <2>2
<1> QED
    BY <1>5, <1>11 DEF W

LEMMA AddTlvHolds ==
    ASSUME NEW list, NEW taken, Holds(list, taken), NEW new \in FitTlv
    PROVE  Holds(AddTlv(list, new), Append(taken, new))
<1> DEFINE more == AddTlv(list, new)
           most == Append(taken, new)
           l == Len(list)
           t == Len(taken)
           n == IF EndsMessage(list) THEN l - 1 ELSE l
<1>1. /\ list \in Seq(FitTlv) /\ taken \in Seq(FitTlv)
      /\ list \in Seq(Tlv) /\ taken \in Seq(Tlv) /\ new \in Tlv
      /\ l \in Nat /\ t \in Nat
    BY DEF Holds, FitTlv
<1>2. /\ more \in Seq(Tlv) /\ Len(more) = l + 1
      /\ n \in Nat /\ n <= l
      /\ \A k \in 1 .. n : more[k] = list[k]
      /\ more[n + 1] = new
      /\ EndsMessage(list) => l = n + 1 /\ more[n + 2] = list[l] /\ IsEndOfMessage(list[l])
      /\ ~EndsMessage(list) => l = n
    <2>1. CASE EndsMessage(list)
        <3>1. /\ more \in Seq(Tlv) /\ Len(more) = l + 1 /\ l >= 1
              /\ more[l] = new /\ more[l + 1] = list[l]
              /\ \A k \in 1 .. l - 1 : more[k] = list[k]
            BY <1>1, <2>1, AddTlvList
        <3>2. n = l - 1 /\ n + 1 = l /\ n + 2 = l + 1 /\ IsEndOfMessage(list[l])
            BY <1>1, <2>1 DEF EndsMessage
        <3> HIDE DEF more, l, n
        <3> QED
            BY <1>1, <2>1, <3>1, <3>2
    <2>2. CASE ~EndsMessage(list)
        <3>1. /\ more \in Seq(Tlv) /\ Len(more) = l + 1
              /\ more[l + 1] = new
              /\ \A k \in 1 .. l : more[k] = list[k]
            BY <1>1, <2>2, AddTlvList
        <3> HIDE DEF more, l
        <3> QED
            BY <1>1, <2>2, <3>1
    <2> QED
        BY <2>1, <2>2
<1>3. /\ most \in Seq(FitTlv) /\ most \in Seq(Tlv) /\ Len(most) = t + 1
      /\ \A k \in 1 .. t : most[k] = taken[k]
      /\ most[t + 1] = new
    BY <1>1
<1> HIDE DEF more, most, n
<1>4. more \in Seq(FitTlv)
    <2>1. ASSUME NEW k \in 1 .. l + 1 PROVE more[k] \in FitTlv
        <3>1. k \in 1 .. n \/ k = n + 1 \/ (EndsMessage(list) /\ k = n + 2)
            BY <1>1, <1>2
        <3>2. \A j \in 1 .. l : list[j] \in FitTlv
            BY <1>1
        <3>3. n \in 0 .. l /\ (EndsMessage(list) => l \in 1 .. l)
            BY <1>1, <1>2
        <3> HIDE DEF l
        <3> QED
            BY <1>2, <3>1, <3>2, <3>3
    <2> QED
        BY <1>2, <2>1, ElementsIn
<1>5. /\ HasWsc(more) <=> HasWsc(list) \/ new.type = WscMessagingTlv
      /\ FirstWsc(more) = FirstWsc(list) \union
             {one \in {new} : one.type = WscMessagingTlv /\ ~HasWsc(list)}
    <2>1. \A k \in n + 1 .. Len(list) : IsEndOfMessage(list[k])
        BY <1>1, <1>2
    <2>2. \A k \in n + 2 .. Len(more) : IsEndOfMessage(more[k])
        BY <1>1, <1>2
    <2>3. n <= Len(list) /\ n < Len(more)
        BY <1>1, <1>2
    <2>4. OneMoreAt(n, list, more, new)
        BY <1>2, <2>1, <2>2, <2>3 DEF OneMoreAt
    <2> QED
        BY <1>1, <1>2, <2>4, OneMoreWsc
<1>6. /\ HasWsc(most) <=> HasWsc(taken) \/ new.type = WscMessagingTlv
      /\ FirstWsc(most) = FirstWsc(taken) \union
             {one \in {new} : one.type = WscMessagingTlv /\ ~HasWsc(taken)}
    <2>1. \A k \in t + 1 .. Len(taken) : IsEndOfMessage(taken[k])
        BY <1>1
    <2>2. \A k \in t + 2 .. Len(most) : IsEndOfMessage(most[k])
        BY <1>1, <1>3
    <2>3. t <= Len(taken) /\ t < Len(most)
        BY <1>1, <1>3
    <2>4. OneMoreAt(t, taken, most, new)
        BY <1>1, <1>3, <2>1, <2>2, <2>3 DEF OneMoreAt
    <2> QED
        BY <1>1, <1>3, <2>4, OneMoreWsc
<1>7. FirstWsc(more) = FirstWsc(most) /\ (HasWsc(more) <=> HasWsc(most))
    BY <1>5, <1>6 DEF Holds
<1>8. \A k \in 1 .. t + 1 : k \in 1 .. t \/ k = t + 1
    BY <1>1
<1>9. HasEnd(most) <=> HasEnd(taken) \/ IsEndOfMessage(new)
    <2>1. t + 1 \in 1 .. t + 1 /\ \A k \in 1 .. t : k \in 1 .. t + 1
        BY <1>1
    <2> QED
        BY <1>3, <1>8, <2>1 DEF HasEnd
<1>10. HasTwoEnds(taken) => HasTwoEnds(most)
    <2>1. \A k \in 1 .. t : k \in 1 .. t + 1
        BY <1>1
    <2> QED
        BY <1>3, <2>1 DEF HasTwoEnds
<1>11. HasEnd(taken) /\ IsEndOfMessage(new) => HasTwoEnds(most)
    <2>1. \A k \in 1 .. t : k \in 1 .. t + 1 /\ t + 1 \in 1 .. t + 1 /\ k < t + 1
        BY <1>1
    <2> QED
        BY <1>3, <2>1 DEF HasEnd, HasTwoEnds
<1>12. \A k \in 1 .. l + 1 : k \in 1 .. n \/ k = n + 1 \/ (EndsMessage(list) /\ k = n + 2)
    BY <1>1, <1>2
<1>13. /\ \A k \in 1 .. n : k \in 1 .. l
       /\ EndsMessage(list) => l \in 1 .. l
    BY <1>1, <1>2
<1>14. HasEnd(more) => HasEnd(most)
    <2>1. HasEnd(more) => HasEnd(list) \/ IsEndOfMessage(new)
        BY <1>2, <1>12, <1>13 DEF HasEnd
    <2> QED
        BY <1>9, <2>1 DEF Holds
<1>15. HasTwoEnds(most) \/ NoneBeforeLast(more)
    <2> SUFFICES ASSUME ~HasTwoEnds(most), NEW k \in 1 .. l + 1 - 1
                 PROVE  ~IsEndOfMessage(more[k])
        BY <1>2 DEF NoneBeforeLast
    <2>1. NoneBeforeLast(list)
        BY <1>10 DEF Holds
    <2>2. CASE EndsMessage(list)
        <3>1. HasEnd(taken)
            BY <1>2, <1>13, <2>2 DEF Holds, HasEnd
        <3>2. ~IsEndOfMessage(new)
            BY <1>11, <3>1
        <3>3. (k \in 1 .. l - 1 /\ k \in 1 .. n) \/ k = n + 1
            BY <1>1, <1>2, <2>2
        <3> QED
            BY <1>2, <2>1, <3>2, <3>3 DEF NoneBeforeLast
    <2>3. CASE ~EndsMessage(list)
        <3>1. k \in 1 .. n /\ (k \in 1 .. l - 1 \/ k = l)
            BY <1>1, <1>2, <2>3
        <3>2. ~IsEndOfMessage(list[l])
            <4>1. list # << >>
                BY <1>1, <3>1, <1>2
            <4> QED
                BY <2>3, <4>1 DEF EndsMessage
        <3> QED
            BY <1>2, <2>1, <3>1, <3>2 DEF NoneBeforeLast
    <2> QED
        BY <2>2, <2>3
<1> QED
    BY <1>3, <1>4, <1>7, <1>14, <1>15 DEF Holds, more, most

-----------------------------------------------------------------------------
(* What the receiver finds *)

(***************************************************************************)
(* The TLVs Parse returned are those of the caller's list, or an END_OF_   *)
(* MESSAGE behind them; it stops before the end of the list only at one.   *)
(***************************************************************************)
LEMMA ReceivedOfCaller ==
    ASSUME IInv, receiver = "return", cmdu = CmduOf(m_tlvs)
    PROVE  /\ m_tlvs \in Seq(Tlv) /\ tlvs \in Seq(Tlv)
           /\ \A k \in 1 .. Len(tlvs) :
                 IF k <= Len(m_tlvs) THEN tlvs[k] = m_tlvs[k]
                                     ELSE IsEndOfMessage(tlvs[k])
           /\ Len(tlvs) <= Len(m_tlvs) => IsEndOfMessage(m_tlvs[Len(tlvs)])
<1> DEFINE l == Len(m_tlvs)
           t == Len(tlvs)
           p == Len(Packed)
<1>1. cmdu.tlvs = m_tlvs
    BY DEF CmduOf
<1>2. /\ m_tlvs \in Seq(Tlv) /\ l \in Nat /\ p \in Nat /\ p <= l + 1
      /\ \A k \in 1 .. l : Packed[k] = m_tlvs[k]
      /\ p = l + 1 => Packed[l + 1] = NoValue
    <2>1. p = l \/ (p = l + 1 /\ Packed[l + 1] = NoValue)
        BY <1>1, PackedIs
    <2>2. l \in Nat
        BY <1>1, PackedIs
    <2> QED
        BY <1>1, <2>1, <2>2, PackedIs
<1>3. tlvs \in Seq(Tlv) /\ t \in Nat
    BY ReceivedIs
<1>4. t \in 1 .. p /\ IsEndOfMessage(Packed[t])
    BY ReadToTheEnd DEF EndsFirstAt
<1>5. \A k \in 1 .. t : tlvs[k] = Packed[k]
    <2>1. \A k \in 1 .. t : k \in Nat \ {0} /\ k <= t /\ k <= p
        BY <1>2, <1>3, <1>4
    <2> QED
        BY <2>1, ReadAsWritten
<1>6. IsEndOfMessage(NoValue)
    BY DEF IsEndOfMessage, NoValue
<1> HIDE DEF l, t, p
<1>7. ASSUME NEW k \in 1 .. t
      PROVE  IF k <= l THEN tlvs[k] = m_tlvs[k] ELSE IsEndOfMessage(tlvs[k])
    <2>1. k \in 1 .. l \/ (k = l + 1 /\ p = l + 1)
        BY <1>2, <1>3, <1>4
    <2>2. k \in 1 .. l <=> k <= l
        BY <1>2, <1>3
    <2> QED
        BY <1>2, <1>5, <1>6, <2>1, <2>2
<1>8. t <= l => IsEndOfMessage(m_tlvs[t])
    <2>1. t <= l => t \in 1 .. l
        BY <1>2, <1>3, <1>4
    <2> QED
        BY <1>2, <1>4, <2>1
<1> QED
    BY <1>2, <1>3, <1>7, <1>8 DEF l, t

LEMMA FoundIsFirst ==
    ASSUME IInv, receiver = "return", cmdu = CmduOf(m_tlvs), Holds(m_tlvs, accepted),
           NEW found \in FindTlv(tlvs, WscMessagingTlv)
    PROVE  found \in FirstWsc(accepted) /\ found.value \in Seq(Byte)
<1>1. PICK k \in 1 .. Len(tlvs) :
          /\ found = tlvs[k]
          /\ tlvs[k].type = WscMessagingTlv
          /\ \A h \in 1 .. k - 1 : tlvs[h].type # WscMessagingTlv
    BY DEF FindTlv, FirstAt
<1>2. /\ tlvs \in Seq(Tlv) /\ Len(m_tlvs) \in Nat /\ Len(tlvs) \in Nat
      /\ \A j \in 1 .. Len(tlvs) :
            IF j <= Len(m_tlvs) THEN tlvs[j] = m_tlvs[j] ELSE IsEndOfMessage(tlvs[j])
    BY ReceivedOfCaller
<1>3. k <= Len(m_tlvs) /\ found = m_tlvs[k] /\ found.type = WscMessagingTlv
    BY <1>1, <1>2, WscIsNotEnd
<1>4. ASSUME NEW j \in 1 .. k - 1
      PROVE  m_tlvs[j].type # WscMessagingTlv
    <2>1. j \in 1 .. Len(tlvs) /\ j <= Len(m_tlvs)
        BY <1>2, <1>3
    <2> QED
        BY <1>1, <1>2, <2>1
<1>5. FirstWscAt(m_tlvs, k) /\ k \in 1 .. Len(m_tlvs)
    BY <1>2, <1>3, <1>4 DEF FirstWscAt
<1>6. found \in FirstWsc(m_tlvs)
    BY <1>3, <1>5 DEF FirstWsc
<1>7. found.value \in Seq(Byte)
    <2>1. found \in Tlv
        BY <1>1, <1>2
    <2> QED
        BY <2>1 DEF Tlv
<1> QED
    BY <1>6, <1>7 DEF Holds

LEMMA NoneIsFound ==
    ASSUME IInv, receiver = "return", cmdu = CmduOf(m_tlvs), Holds(m_tlvs, accepted),
           FindTlv(tlvs, WscMessagingTlv) = {}
    PROVE  ~HasWsc(accepted) \/ HasTwoEnds(accepted)
<1> SUFFICES ASSUME HasWsc(accepted), ~HasTwoEnds(accepted) PROVE FALSE
    OBVIOUS
<1> DEFINE found == {k \in 1 .. Len(tlvs) : tlvs[k].type = WscMessagingTlv}
<1>1. /\ tlvs \in Seq(Tlv) /\ Len(m_tlvs) \in Nat /\ Len(tlvs) \in Nat
      /\ \A j \in 1 .. Len(tlvs) :
            IF j <= Len(m_tlvs) THEN tlvs[j] = m_tlvs[j] ELSE IsEndOfMessage(tlvs[j])
      /\ Len(tlvs) <= Len(m_tlvs) => IsEndOfMessage(m_tlvs[Len(tlvs)])
    BY ReceivedOfCaller
<1>2. PICK k \in 1 .. Len(m_tlvs) : m_tlvs[k].type = WscMessagingTlv
    BY DEF Holds, HasWsc
<1>3. k <= Len(tlvs)
    <2> SUFFICES ASSUME Len(tlvs) < k PROVE FALSE
        BY <1>1
    <2>1. Len(tlvs) >= 1 /\ Len(tlvs) \in 1 .. Len(m_tlvs) - 1
        <3>1. EndsFirstAt(tlvs, Len(tlvs))
            BY ReceivedIs
        <3> QED
            BY <1>1, <1>2, <3>1 DEF EndsFirstAt
    <2>2. IsEndOfMessage(m_tlvs[Len(tlvs)])
        BY <1>1, <2>1
    <2> QED
        BY <2>1, <2>2 DEF Holds, NoneBeforeLast
<1>4. k \in found
    BY <1>1, <1>2, <1>3
<1>5. found \in SUBSET Nat
    OBVIOUS
<1>6. PICK n \in found : \A m \in found : n <= m
    <2> HIDE DEF found
    <2> QED
        BY <1>4, <1>5, HasLeast
<1>7. \A h \in 1 .. n - 1 : h \in 1 .. Len(tlvs) /\ ~(n <= h)
    BY <1>1, <1>6
<1>8. n \in FirstAt(tlvs, WscMessagingTlv)
    BY <1>6, <1>7 DEF FirstAt
<1> QED
    BY <1>8 DEF FindTlv

-----------------------------------------------------------------------------
(* The inductive invariant of a WscMessage on its way *)

(* The CMDU is on its way once Pack has been called, and is the caller's. *)
ChannelInv ==
    IF sender = "idle" THEN NotPacking /\ Waiting ELSE IInv /\ cmdu = CmduOf(m_tlvs)

(***************************************************************************)
(* What is read is the WSC TLV that was added first, and is known to be    *)
(* the sender's own if it is; none was found for a reason.                 *)
(***************************************************************************)
FoundInv ==
    /\ wsc \in {"parse", "return", "runtime_error"} =>
          \E one \in FirstWsc(accepted) : raw = one.value /\ (one \in tlv => own)
    /\ wsc = "nullptr" => ~HasWsc(accepted) \/ HasTwoEnds(accepted)

(* The invariant of Wsc has no "nullptr", after which nothing is read. *)
WscIInv ==
    /\ wsc # "nullptr" => Reading!IInv
    /\ Holds(m_tlvs, accepted)
    /\ ChannelInv
    /\ FoundInv

LEMMA InitWscIInv == WscInit => WscIInv
<1> SUFFICES ASSUME WscInit PROVE WscIInv
    OBVIOUS
<1>1. Reading!IInv
    BY SameMessage, MessageAssumptions, BaseAssumption, MaxCallsAssumption,
       Reading!InitIInv DEF WscInit
<1>2. wsc = "build" /\ m_tlvs = << >> /\ accepted = << >>
    BY DEF WscInit, Message!Init
<1>3. Holds(m_tlvs, accepted)
    <2>1. << >> \in Seq(FitTlv) /\ \A k \in 1 .. Len(<< >>) - 1 : FALSE
        OBVIOUS
    <2> QED
        BY <1>2, <2>1 DEF Holds, NoneBeforeLast
<1>4. ChannelInv
    BY DEF WscInit, NotPacking, ChannelInv
<1> QED
    BY <1>1, <1>2, <1>3, <1>4 DEF WscIInv, FoundInv

(* A step of the message alone, by the proofs of Wsc. *)
LEMMA MessageStep ==
    ASSUME Reading!IInv, Reading!Next \/ UNCHANGED messageVars
    PROVE  Reading!IInv'
<1>1. [Reading!Next]_(Reading!vars)
    BY DEF messageVars, Reading!vars, Reading!buildVars, Reading!parseVars
<1> QED
    BY <1>1, MessageAssumptions, BaseAssumption, MaxCallsAssumption, Reading!NextIInv

LEMMA ChannelKept ==
    ASSUME ChannelInv, UNCHANGED << m_tlvs, vars >>
    PROVE  ChannelInv'
<1>1. CASE sender = "idle"
    BY <1>1 DEF ChannelInv, NotPacking, Waiting, vars, packVars, parseVars, CmduOf
<1>2. CASE sender # "idle"
    <2>1. IInv'
        BY <1>2, NextIInv DEF ChannelInv
    <2> QED
        BY <1>2, <2>1 DEF ChannelInv, CmduOf, vars, packVars
<1> QED
    BY <1>1, <1>2

LEMMA BuildMessageWscIInv == WscIInv /\ BuildMessage => WscIInv'
<1> SUFFICES ASSUME WscIInv, BuildMessage PROVE WscIInv'
    OBVIOUS
<1>1. CASE \E name \in DOMAIN Attributes, value \in Values :
               Message!AddAttribute(name, value)
    <2>1. Reading!Next /\ wsc = "build" /\ wsc' = "build"
        BY <1>1, SameMessage DEF Reading!Next, Reading!Names, Reading!AddAttribute
    <2> QED
        BY <2>1, MessageStep, ChannelKept
           DEF WscIInv, FoundInv, BuildMessage, callerVars
<1>2. CASE Message!ToTlv
    <2>1. Reading!Next /\ wsc = "build" /\ wsc' = "made"
        BY <1>2, SameToTlv DEF Reading!Next, Reading!ToTlv
    <2> QED
        BY <2>1, MessageStep, ChannelKept
           DEF WscIInv, FoundInv, BuildMessage, callerVars
<1> QED
    BY <1>1, <1>2 DEF BuildMessage

LEMMA AddToCmduWscIInv ==
    ASSUME WscIInv, NEW new \in FitTlv, AddToCmdu(new)
    PROVE  WscIInv'
<1>1. /\ wsc = "made" /\ wsc' = "made" /\ sender = "idle"
      /\ UNCHANGED << messageVars, vars >>
    BY DEF AddToCmdu, messageVars
<1>2. Reading!IInv'
    BY <1>1, MessageStep DEF WscIInv
<1>3. Holds(m_tlvs', accepted')
    BY AddTlvHolds DEF WscIInv, AddToCmdu
<1>4. Holds(m_tlvs, accepted)'
    BY <1>3 DEF Holds, FirstWsc, FirstWscAt, HasWsc, HasEnd, HasTwoEnds, NoneBeforeLast
<1>5. ChannelInv'
    BY <1>1 DEF WscIInv, ChannelInv, NotPacking, Waiting, vars, packVars, parseVars
<1> QED
    BY <1>1, <1>2, <1>4, <1>5 DEF WscIInv, FoundInv

LEMMA CallPackWscIInv == WscIInv /\ CallPack => WscIInv'
<1> SUFFICES ASSUME WscIInv, CallPack PROVE WscIInv'
    OBVIOUS
<1> DEFINE c == CmduOf(m_tlvs)
<1>1. c \in Packing!Cmdu
    <2>1. c \in Sender!Cmdu
        <3>1. m_tlvs \in Seq({one \in Tlv : FitsTlv(one.value)})
            BY DEF WscIInv, Holds, FitTlv
        <3>2. /\ Sender!Tlv = Tlv /\ Sender!Header = Header
              /\ \A value : Sender!FitsTlv(value) <=> FitsTlv(value)
            BY DEF Sender!Tlv, Tlv, Sender!Header, Header, Sender!FitsTlv, FitsTlv,
                   Sender!Byte, Byte, Sender!Uint16, Uint16
        <3> QED
            BY <3>1, <3>2, WscHeaderAssumption DEF CmduOf, Sender!Cmdu
    <2> QED
        BY <2>1, SameWords
<1>2. Packing!Enter(c)
    BY DEF CallPack, Sender!Enter, Packing!Enter, Sender!CmduHeaderSize,
           Packing!CmduHeaderSize
<1>3. Packing!IInv'
    BY <1>1, <1>2, CmdusAreCmdus, BaseAssumption, Packing!EnterIInv
<1>4. /\ cmdu' = c /\ sender' = "size" /\ wsc = "made" /\ sender = "idle"
      /\ UNCHANGED << messageVars, m_tlvs, accepted, parseVars >>
    BY DEF CallPack, Sender!Enter, callerVars
<1>5. Waiting /\ Waiting' /\ receiver' = "waiting"
    BY <1>4 DEF WscIInv, ChannelInv, Waiting, parseVars
<1>6. IInv'
    BY <1>3, <1>5 DEF IInv
<1>7. cmdu' = CmduOf(m_tlvs')
    BY <1>4
<1>8. ChannelInv'
    BY <1>4, <1>6, <1>7 DEF ChannelInv, CmduOf
<1>9. wsc' = "made" /\ Reading!IInv'
    BY <1>4, MessageStep DEF WscIInv, messageVars
<1> QED
    BY <1>4, <1>8, <1>9 DEF WscIInv, FoundInv

LEMMA CarryCmduWscIInv == WscIInv /\ CarryCmdu => WscIInv'
<1> SUFFICES ASSUME WscIInv, CarryCmdu PROVE WscIInv'
    OBVIOUS
<1>1. sender # "idle"
    <2> SUFFICES ASSUME sender = "idle" PROVE FALSE
        OBVIOUS
    <2>1. receiver = "waiting"
        BY DEF WscIInv, ChannelInv, Waiting
    <2>2. ~Send
        BY SamePack DEF Send, Packing!Next, Packing!AddSize, Packing!AddEndSize,
                        Packing!Allocate, Packing!WriteHeader, Packing!WriteTlv,
                        Packing!WriteEnd
    <2>3. ~Receive
        BY <2>1, SameParse
           DEF Receive, Parsing!Next, Parsing!ThrowShortBuffer, Parsing!ReadHeader,
               Parsing!ThrowTlvHeader, Parsing!ThrowTlvValue, Parsing!ReadTlv,
               Parsing!Return, Parsing!ThrowUnterminated, Parsing!InLoop,
               Parsing!LeftLoop
    <2> QED
        BY <2>2, <2>3 DEF CarryCmdu, Next, Deliver
<1>2. IInv /\ cmdu = CmduOf(m_tlvs)
    BY <1>1 DEF WscIInv, ChannelInv
<1>3. IInv'
    BY <1>2, NextIInv DEF CarryCmdu
<1>4. cmdu' = cmdu
    <2>1. Send => cmdu' = cmdu
        BY SamePack DEF Send, Packing!Next, Packing!AddSize, Packing!AddEndSize,
                        Packing!Allocate, Packing!WriteHeader, Packing!WriteTlv,
                        Packing!WriteEnd
    <2> QED
        BY <2>1 DEF CarryCmdu, Next, Deliver, Receive, packVars
<1>5. sender' # "idle"
    BY <1>3 DEF IInv, Packing!IInv, Packing!TypeOK, Packing!Points
<1>6. UNCHANGED << messageVars, m_tlvs, accepted, raw, tlv, own, wsc >>
    BY DEF CarryCmdu, messageVars, callerVars
<1>7. ChannelInv'
    BY <1>2, <1>3, <1>4, <1>5, <1>6 DEF ChannelInv, CmduOf
<1>8. wsc' # "nullptr" => Reading!IInv'
    BY <1>6, MessageStep DEF WscIInv
<1> QED
    BY <1>6, <1>7, <1>8 DEF WscIInv, FoundInv

LEMMA ReadFoundWscIInv == WscIInv /\ ReadFound => WscIInv'
<1> SUFFICES ASSUME WscIInv, ReadFound PROVE WscIInv'
    OBVIOUS
<1>1. PICK found \in FindTlv(tlvs, WscMessagingTlv) :
          /\ Message!EnterParseAttributes(found.value)
          /\ own' = (found \in tlv)
    BY DEF ReadFound
<1>2. /\ receiver = "return" /\ wsc = "made"
      /\ UNCHANGED << m_attributes, added, calls, tlv, m_tlvs, accepted, vars >>
    BY DEF ReadFound, callerVars
<1>3. IInv /\ cmdu = CmduOf(m_tlvs) /\ Holds(m_tlvs, accepted)
    BY <1>2 DEF WscIInv, ChannelInv, Waiting
<1>4. found \in FirstWsc(accepted) /\ found.value \in Seq(Byte)
    BY <1>2, <1>3, FoundIsFirst
<1>5. Reading!EnterParseAttributes(found.value) /\ wsc' = "parse" /\ raw' = found.value
    BY <1>1, SameMessage DEF Reading!EnterParseAttributes
<1>6. Reading!IInv'
    <2>1. Reading!IInv /\ wsc # "length_error"
        BY <1>2 DEF WscIInv
    <2>2. own' => found.value = Reading!PackAttributes(m_attributes)
        BY <1>1, <2>1 DEF Reading!IInv, Reading!MadeIsPacked
    <2>3. UNCHANGED Reading!buildVars
        BY <1>2 DEF Reading!buildVars
    <2>4. found.value \in Seq(Reading!Byte) /\ own' \in BOOLEAN
        BY <1>1, <1>4, SameMessage
    <2> QED
        BY <1>5, <2>1, <2>2, <2>3, <2>4, MessageAssumptions, BaseAssumption,
           MaxCallsAssumption, Reading!EnterIInv
<1>7. Holds(m_tlvs, accepted)' /\ ChannelInv'
    BY <1>2, <1>3, ChannelKept DEF WscIInv
<1>8. FoundInv'
    BY <1>1, <1>2, <1>4, <1>5 DEF FoundInv
<1> QED
    BY <1>6, <1>7, <1>8 DEF WscIInv

LEMMA FindsNoneWscIInv == WscIInv /\ FindsNone => WscIInv'
<1> SUFFICES ASSUME WscIInv, FindsNone PROVE WscIInv'
    OBVIOUS
<1>1. /\ receiver = "return" /\ wsc' = "nullptr"
      /\ FindTlv(tlvs, WscMessagingTlv) = {}
      /\ UNCHANGED << m_tlvs, accepted, vars >>
    BY DEF FindsNone, callerVars
<1>2. IInv /\ cmdu = CmduOf(m_tlvs) /\ Holds(m_tlvs, accepted)
    BY <1>1 DEF WscIInv, ChannelInv, Waiting
<1>3. ~HasWsc(accepted) \/ HasTwoEnds(accepted)
    BY <1>1, <1>2, NoneIsFound
<1>4. Holds(m_tlvs, accepted)' /\ ChannelInv'
    BY <1>1, <1>2, ChannelKept DEF WscIInv
<1>5. FoundInv'
    BY <1>1, <1>3 DEF FoundInv
<1> QED
    BY <1>1, <1>4, <1>5 DEF WscIInv

LEMMA ReadMessageWscIInv == WscIInv /\ ReadMessage => WscIInv'
<1> SUFFICES ASSUME WscIInv, ReadMessage PROVE WscIInv'
    OBVIOUS
<1>1. Reading!ParseAttribute \/ Reading!ParseReturns \/ Reading!ParseThrows
    BY SameMessage DEF ReadMessage
<1>2. Reading!Next /\ wsc = "parse" /\ wsc' \in {"parse", "return", "runtime_error"}
    BY <1>1 DEF Reading!Next, Reading!ParseAttribute, Reading!ParseReturns,
                Reading!ParseThrows
<1>3. UNCHANGED << raw, own, tlv, m_tlvs, accepted, vars >>
    BY <1>1 DEF ReadMessage, callerVars, Reading!ParseAttribute, Reading!ParseReturns,
                Reading!ParseThrows, Reading!buildVars, Reading!parseVars
<1>4. Reading!IInv'
    BY <1>2, MessageStep DEF WscIInv
<1>5. Holds(m_tlvs, accepted)' /\ ChannelInv'
    BY <1>3, ChannelKept DEF WscIInv
<1>6. FoundInv'
    BY <1>2, <1>3 DEF WscIInv, FoundInv
<1> QED
    BY <1>4, <1>5, <1>6 DEF WscIInv

LEMMA NextWscIInv == WscIInv /\ [WscNext]_wscVars => WscIInv'
<1> SUFFICES ASSUME WscIInv, [WscNext]_wscVars PROVE WscIInv'
    OBVIOUS
<1>1. CASE AddOther
    <2>1. PICK other \in OtherTlvs : AddToCmdu(other)
        BY <1>1 DEF AddOther
    <2>2. other \in FitTlv
        BY OtherTlvsAssumption DEF FitTlv
    <2> QED
        BY <2>1, <2>2, AddToCmduWscIInv
<1>2. CASE AddOwn
    <2>1. PICK made \in tlv : AddToCmdu(made)
        BY <1>2 DEF AddOwn
    <2>2. made \in FitTlv
        <3>1. wsc # "nullptr"
            BY <2>1 DEF AddToCmdu
        <3>2. made \in Reading!Tlv /\ Reading!FitsTlv(made.value)
            BY <3>1 DEF WscIInv, Reading!IInv, Reading!TypeOK
        <3> QED
            BY <3>2, SameMessage DEF FitTlv
    <2> QED
        BY <2>1, <2>2, AddToCmduWscIInv
<1>3. CASE UNCHANGED wscVars
    <2>1. UNCHANGED << messageVars, m_tlvs, accepted, raw, tlv, own, wsc, vars >>
        BY <1>3 DEF wscVars, messageVars, callerVars
    <2>2. wsc' # "nullptr" => Reading!IInv'
        BY <2>1, MessageStep DEF WscIInv
    <2>3. ChannelInv'
        BY <2>1, ChannelKept DEF WscIInv
    <2> QED
        BY <2>1, <2>2, <2>3 DEF WscIInv, FoundInv
<1> QED
    BY <1>1, <1>2, <1>3, BuildMessageWscIInv, CallPackWscIInv, CarryCmduWscIInv,
       ReadFoundWscIInv, FindsNoneWscIInv, ReadMessageWscIInv DEF WscNext

(***************************************************************************)
(* While a message is built, carried and read, the invariants of Wsc and   *)
(* of the CMDU's way hold, and what is read is the TLV that was added.     *)
(***************************************************************************)
THEOREM WscSpecIInv == WscSpec => []WscIInv
<1> QED
    BY InitWscIInv, NextWscIInv, PTL DEF WscSpec

-----------------------------------------------------------------------------
(* What follows from it *)

(***************************************************************************)
(* For any attributes no two of which have one code, any values and any    *)
(* TLVs around the message: the receiver reads the WSC TLV that was added  *)
(* first, and if ToTlv made it, exactly the attributes the sender gave.    *)
(***************************************************************************)
THEOREM AttributesDoArrive ==
    ASSUME Reading!DistinctCodes
    PROVE  WscSpec => []AttributesArrive
<1>1. WscIInv => AttributesArrive
    <2> SUFFICES ASSUME WscIInv, wsc = "return"
                 PROVE  \E k \in 1 .. Len(accepted) :
                            /\ FirstWscAt(accepted, k)
                            /\ raw = accepted[k].value
                            /\ accepted[k] \in tlv =>
                                  /\ DOMAIN parsed =
                                         {Attributes[name] : name \in DOMAIN added}
                                  /\ \A name \in DOMAIN added :
                                         parsed[Attributes[name]] = added[name]
        BY DEF AttributesArrive
    <2>1. PICK one \in FirstWsc(accepted) : raw = one.value /\ (one \in tlv => own)
        BY DEF WscIInv, FoundInv
    <2>2. PICK k \in 1 .. Len(accepted) : FirstWscAt(accepted, k) /\ one = accepted[k]
        BY <2>1 DEF FirstWsc
    <2>3. Reading!IInv
        BY DEF WscIInv
    <2>4. ASSUME own
          PROVE  /\ DOMAIN parsed = {Attributes[name] : name \in DOMAIN added}
                 /\ \A name \in DOMAIN added : parsed[Attributes[name]] = added[name]
        <3>1. /\ DOMAIN parsed = DOMAIN m_attributes
              /\ \A type \in DOMAIN m_attributes : parsed[type] = m_attributes[type]
            BY <2>3, <2>4, MessageAssumptions, BaseAssumption, MaxCallsAssumption,
               Reading!OwnIsReadWhole
        <3>2. /\ DOMAIN m_attributes = {Attributes[name] : name \in DOMAIN added}
              /\ \A name \in DOMAIN added : m_attributes[Attributes[name]] = added[name]
            BY <2>3, Reading!DistinctCodes DEF Reading!IInv, Reading!KeepsAdded
        <3> QED
            BY <3>1, <3>2
    <2> QED
        BY <2>1, <2>2, <2>4
<1> QED
    BY <1>1, WscSpecIInv, PTL

(***************************************************************************)
(* For any attributes, values and TLVs around the message: the receiver    *)
(* finds a WSC TLV if one was added, unless END_OF_MESSAGE was added       *)
(* twice, and refuses no message that ToTlv made and that came first.      *)
(***************************************************************************)
THEOREM FindsTheWsc == WscSpec => []WscIsFound
<1>1. WscIInv => WscIsFound
    <2> SUFFICES ASSUME WscIInv PROVE WscIsFound
        OBVIOUS
    <2>1. wsc = "nullptr" => ~HasWsc(accepted) \/ HasTwoEnds(accepted)
        BY DEF WscIInv, FoundInv
    <2>2. ASSUME wsc = "runtime_error", NEW k \in 1 .. Len(accepted),
                 FirstWscAt(accepted, k)
          PROVE  accepted[k] \notin tlv
        <3>1. PICK one \in FirstWsc(accepted) : one \in tlv => own
            BY <2>2 DEF WscIInv, FoundInv
        <3>2. PICK j \in 1 .. Len(accepted) : FirstWscAt(accepted, j) /\ one = accepted[j]
            BY <3>1 DEF FirstWsc
        <3>3. j = k
            <4>1. ~(j < k) /\ ~(k < j)
                <5>1. /\ j < k => j \in 1 .. k - 1
                      /\ k < j => k \in 1 .. j - 1
                    OBVIOUS
                <5> QED
                    BY <2>2, <3>2, <5>1 DEF FirstWscAt
            <4> QED
                BY <4>1
        <3>4. ~own
            BY <2>2 DEF WscIInv, Reading!IInv, Reading!OwnIsRead
        <3> QED
            BY <3>1, <3>2, <3>3, <3>4
    <2> QED
        BY <2>1, <2>2 DEF WscIsFound
<1> QED
    BY <1>1, WscSpecIInv, PTL

=============================================================================
