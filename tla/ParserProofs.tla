---------------------------- MODULE ParserProofs ----------------------------
(***************************************************************************)
(* Parse, for every Base and every set of buffers: what it returns is what *)
(* the buffer holds, and it throws exactly when the buffer holds no CMDU.  *)
(***************************************************************************)
EXTENDS Parser, WireProofs

-----------------------------------------------------------------------------
(* The inductive invariant *)

(* Before the header is read nothing has been. *)
NothingRead == at = "header" => ptr = 1 /\ tlvs = << >> /\ offsets = << >>

(* After it, what has been read is what lies between the header and ptr. *)
ReadSoFar ==
    at \in {"tlvs", "end", "return"} =>
        /\ LongEnough
        /\ header = HeaderAt(buffer)
        /\ LiesIn(buffer, tlvs, offsets)
        /\ offsets[Len(tlvs) + 1] = ptr

(* No TLV is read from inside the header. *)
PastHeader == \A k \in 1 .. Len(offsets) : offsets[k] > CmduHeaderSize

(* Only the TLV that ended the loop may be an END_OF_MESSAGE. *)
OneEndOfMessage ==
    /\ at = "tlvs" => \A k \in 1 .. Len(tlvs) : ~IsEndOfMessage(tlvs[k])
    /\ at \in {"end", "return"} =>
          /\ EndsMessage(tlvs)
          /\ \A k \in 1 .. Len(tlvs) - 1 : ~IsEndOfMessage(tlvs[k])

(* A CMDU the buffer holds has a TLV at every position the loop comes to. *)
OnEveryChain ==
    at = "tlvs" =>
        \A starts \in SUBSET (CmduHeaderSize + 1 .. Len(buffer)) :
            IsTlvChain(buffer, starts) => ptr \in starts

ThrownWithoutCmdu == at = "runtime_error" => ~HoldsCmdu(buffer)

IInv ==
    /\ TypeOK
    /\ NothingRead
    /\ ReadSoFar
    /\ PastHeader
    /\ OneEndOfMessage
    /\ OnEveryChain
    /\ ThrownWithoutCmdu

-----------------------------------------------------------------------------
(* The steps *)

LEMMA EnteredIInv ==
    ASSUME NEW b \in Seq(Byte), EnteredWith(b)
    PROVE  IInv
<1>1. NoHeader \in Header
    BY BaseAssumption DEF NoHeader, Header, Byte, Uint16
<1>2. TypeOK
    BY <1>1 DEF EnteredWith, TypeOK, Points
<1> QED
    BY <1>2 DEF EnteredWith, IInv, NothingRead, ReadSoFar, PastHeader,
                OneEndOfMessage, OnEveryChain, ThrownWithoutCmdu

(***************************************************************************)
(* The same of a call, for the modules that compose Parse with its caller. *)
(***************************************************************************)
LEMMA EnterIInv ==
    ASSUME NEW b \in Seq(Byte), Enter(b)
    PROVE  IInv'
<1>1. NoHeader \in Header
    BY BaseAssumption DEF NoHeader, Header, Byte, Uint16
<1>2. TypeOK'
    BY <1>1 DEF Enter, TypeOK, Points
<1> QED
    BY <1>2 DEF Enter, IInv, NothingRead, ReadSoFar, PastHeader,
                OneEndOfMessage, OnEveryChain, ThrownWithoutCmdu

LEMMA InitIInv == Init => IInv
<1> QED
    BY EnteredIInv, BuffersAssumption DEF Init

(***************************************************************************)
(* A step that throws keeps the invariant if the buffer holds no CMDU.     *)
(***************************************************************************)
LEMMA ThrowIInv ==
    ASSUME IInv, Throw, ~HoldsCmdu(buffer)
    PROVE  IInv'
<1>1. TypeOK'
    BY DEF IInv, Throw, TypeOK, Points
<1>2. HoldsCmdu(buffer)' = HoldsCmdu(buffer)
    BY DEF Throw, HoldsCmdu, IsTlvChain, TlvFitsAt, EndOfTlvAt, LengthAt,
           Uint16At, ByteAt
<1> QED
    BY <1>1, <1>2 DEF Throw, IInv, NothingRead, ReadSoFar, PastHeader, OneEndOfMessage,
                      OnEveryChain, ThrownWithoutCmdu

(***************************************************************************)
(* The two tests of the loop ask whether a whole TLV starts at ptr.        *)
(***************************************************************************)
LEMMA TestsOfTheLoop ==
    ASSUME TypeOK
    PROVE  TlvFitsAt(buffer, ptr) <=> TlvHeaderFits /\ ValueFits
<1>1. ptr \in Int /\ Len(buffer) \in Nat /\ LengthAt(buffer, ptr) \in Nat
    BY LengthAtType DEF TypeOK
<1> QED
    BY <1>1 DEF TlvFitsAt, TlvHeaderFits, ValueFits, EndOfTlvAt, TlvHeaderSize

(***************************************************************************)
(* If no TLV starts where the loop has come to, the buffer holds no CMDU.  *)
(***************************************************************************)
LEMMA NoTlvNoCmdu ==
    ASSUME IInv, at = "tlvs", ~TlvFitsAt(buffer, ptr)
    PROVE  ~HoldsCmdu(buffer)
<1> SUFFICES ASSUME HoldsCmdu(buffer) PROVE FALSE
    OBVIOUS
<1>1. PICK starts \in SUBSET (CmduHeaderSize + 1 .. Len(buffer)) :
          IsTlvChain(buffer, starts)
    BY DEF HoldsCmdu
<1>2. ptr \in starts
    BY <1>1 DEF IInv, OnEveryChain
<1> QED
    BY <1>1, <1>2 DEF IsTlvChain

LEMMA ReadHeaderIInv ==
    ASSUME IInv, ReadHeader
    PROVE  IInv'
<1> USE DEF ReadHeader
<1>1. tlvs = << >> /\ Len(buffer) \in Nat /\ Len(buffer) >= 8
    BY DEF IInv, NothingRead, TypeOK, LongEnough, CmduHeaderSize
<1>2. TypeOK'
    BY <1>1, HeaderAtType DEF IInv, TypeOK, Points, CmduHeaderSize
<1>3. ReadSoFar'
    BY <1>1 DEF ReadSoFar, LongEnough, LiesIn, HeaderAt, Uint16At, ByteAt
<1>4. OneEndOfMessage'
    BY <1>1 DEF OneEndOfMessage
<1>5. OnEveryChain'
    BY DEF OnEveryChain, IsTlvChain
<1>6. PastHeader'
    BY DEF PastHeader, CmduHeaderSize
<1> QED
    BY <1>2, <1>3, <1>4, <1>5, <1>6 DEF IInv, NothingRead, ThrownWithoutCmdu

LEMMA ReadTlvIInv ==
    ASSUME IInv, ReadTlv
    PROVE  IInv'
<1> USE DEF ReadTlv, InLoop
<1> DEFINE tlv == TlvAt(buffer, ptr)
           n   == Len(tlvs)
<1>1. /\ buffer \in Seq(Byte) /\ Len(buffer) \in Nat
      /\ tlvs \in Seq(Tlv) /\ offsets \in Seq(Nat) /\ n \in Nat
      /\ ptr \in Int /\ ptr > 0
      /\ LengthAt(buffer, ptr) \in Nat /\ tlv \in Tlv
    <2>1. /\ buffer \in Seq(Byte) /\ Len(buffer) \in Nat
          /\ tlvs \in Seq(Tlv) /\ offsets \in Seq(Nat) /\ n \in Nat
          /\ ptr \in 1 .. Len(buffer) + 1
        BY DEF IInv, TypeOK
    <2>2. ptr \in Int /\ ptr > 0
        BY <2>1
    <2> QED
        BY <2>1, <2>2, LengthAtType, TlvAtType
<1>2. TlvFitsAt(buffer, ptr)
    BY TestsOfTheLoop DEF IInv
<1>3. ptr' = EndOfTlvAt(buffer, ptr) /\ ptr' \in Nat /\ ptr' <= Len(buffer) + 1 /\ ptr' >= 1
    BY <1>1, <1>2 DEF NextTlv, EndOfTlvAt, TlvFitsAt, TlvHeaderSize
<1>4. \A k \in 1 .. n : ~IsEndOfMessage(tlvs[k])
    BY DEF IInv, OneEndOfMessage
<1>5. ~EndsMessage(tlvs)
    BY <1>1, <1>4 DEF EndsMessage
<1>6. tlvs' = Append(tlvs, tlv)
    BY <1>5 DEF AddTlv
<1>7. /\ LiesIn(buffer, tlvs, offsets) /\ offsets[n + 1] = ptr
      /\ header = HeaderAt(buffer) /\ LongEnough
    BY DEF IInv, ReadSoFar
<1>8. Len(offsets) = n + 1
    BY <1>7 DEF LiesIn
<1>9. /\ Len(tlvs') = n + 1 /\ tlvs'[n + 1] = tlv
      /\ \A k \in 1 .. n : tlvs'[k] = tlvs[k]
    BY <1>1, <1>6
<1>10. /\ Len(offsets') = n + 2 /\ offsets'[n + 2] = ptr'
       /\ \A k \in 1 .. n + 1 : offsets'[k] = offsets[k]
    BY <1>1, <1>3, <1>8
<1>11. TypeOK'
    BY <1>1, <1>3, <1>6 DEF IInv, TypeOK, Points, AfterTlv
<1>12. ReadSoFar'
    <2>1. LiesIn(buffer, tlvs', offsets')
        <3>1. offsets'[1] = CmduHeaderSize + 1
            BY <1>1, <1>7, <1>10 DEF LiesIn
        <3>2. ASSUME NEW k \in 1 .. n + 1
              PROVE  /\ TlvFitsAt(buffer, offsets'[k])
                     /\ tlvs'[k] = TlvAt(buffer, offsets'[k])
                     /\ offsets'[k + 1] = EndOfTlvAt(buffer, offsets'[k])
            <4>1. CASE k \in 1 .. n
                <5>1. /\ offsets'[k] = offsets[k] /\ offsets'[k + 1] = offsets[k + 1]
                      /\ tlvs'[k] = tlvs[k]
                    <6>1. k \in 1 .. n + 1 /\ k + 1 \in 1 .. n + 1
                        BY <1>1, <4>1
                    <6> QED
                        BY <1>9, <1>10, <4>1, <6>1
                <5> QED
                    BY <1>7, <4>1, <5>1 DEF LiesIn
            <4>2. CASE k = n + 1
                BY <1>1, <1>2, <1>3, <1>7, <1>9, <1>10, <4>2
            <4>3. k \in 1 .. n \/ k = n + 1
                BY <1>1
            <4> QED
                BY <4>1, <4>2, <4>3
        <3> QED
            BY <1>1, <1>9, <1>10, <3>1, <3>2 DEF LiesIn
    <2>2. buffer' = buffer /\ header' = header /\ LongEnough'
        BY <1>7 DEF LongEnough
    <2>3. (offsets[Len(tlvs) + 1] = ptr)'
        BY <1>1, <1>9, <1>10
    <2> QED
        BY <1>7, <2>1, <2>2, <2>3 DEF ReadSoFar
<1>13. OneEndOfMessage'
    <2>1. CASE IsEndOfMessage(tlv)
        <3>1. at' = "end"
            BY <2>1 DEF AfterTlv
        <3>2. tlvs' # << >> /\ IsEndOfMessage(tlvs'[Len(tlvs')])
            BY <1>1, <1>6, <1>9, <2>1
        <3>3. \A k \in 1 .. Len(tlvs') - 1 : ~IsEndOfMessage(tlvs'[k])
            BY <1>1, <1>4, <1>9
        <3> QED
            BY <3>1, <3>2, <3>3 DEF OneEndOfMessage, EndsMessage
    <2>2. CASE ~IsEndOfMessage(tlv)
        <3>1. at' = "tlvs"
            BY <2>2 DEF AfterTlv
        <3>2. \A k \in 1 .. Len(tlvs') : ~IsEndOfMessage(tlvs'[k])
            BY <1>1, <1>4, <1>9, <2>2
        <3> QED
            BY <3>1, <3>2 DEF OneEndOfMessage
    <2> QED
        BY <2>1, <2>2
<1>14. OnEveryChain'
    <2> SUFFICES ASSUME ~IsEndOfMessage(tlv),
                        NEW starts \in SUBSET (CmduHeaderSize + 1 .. Len(buffer)),
                        IsTlvChain(buffer, starts)
                 PROVE  ptr' \in starts
        BY DEF OnEveryChain, AfterTlv, IsTlvChain, TlvFitsAt, EndOfTlvAt, LengthAt,
               Uint16At, ByteAt
    <2>1. ptr \in starts
        BY DEF IInv, OnEveryChain
    <2>2. ByteAt(buffer, ptr) # EndOfMessage
        BY DEF IsEndOfMessage, TlvAt
    <2> QED
        BY <1>3, <2>1, <2>2 DEF IsTlvChain
<1>15. PastHeader'
    <2>1. ptr > CmduHeaderSize
        BY <1>1, <1>7, <1>8 DEF IInv, PastHeader
    <2>2. ptr' > CmduHeaderSize
        BY <1>1, <2>1 DEF NextTlv, TlvHeaderSize, CmduHeaderSize
    <2>3. \A k \in 1 .. n + 1 : offsets'[k] > CmduHeaderSize
        BY <1>8, <1>10 DEF IInv, PastHeader
    <2> QED
        BY <1>1, <1>10, <2>2, <2>3 DEF PastHeader
<1> QED
    BY <1>11, <1>12, <1>13, <1>14, <1>15
       DEF IInv, NothingRead, ThrownWithoutCmdu, AfterTlv

LEMMA ReturnIInv ==
    ASSUME IInv, Return
    PROVE  IInv'
<1>1. at \in {"tlvs", "end"} /\ EndsMessage(tlvs)
    BY DEF Return, LeftLoop, Terminated
<1>2. tlvs \in Seq(Tlv)
    BY DEF IInv, TypeOK
<1>3. TypeOK'
    BY DEF IInv, TypeOK, Points, Return
<1>4. ReadSoFar'
    BY <1>1 DEF IInv, ReadSoFar, Return, LongEnough
<1>5. OneEndOfMessage'
    BY <1>1, <1>2 DEF IInv, OneEndOfMessage, Return, EndsMessage
<1> QED
    BY <1>3, <1>4, <1>5
       DEF Return, IInv, NothingRead, PastHeader, OnEveryChain, ThrownWithoutCmdu

(***************************************************************************)
(* The check after the loop fails only when the buffer ended with no       *)
(* END_OF_MESSAGE read.                                                    *)
(***************************************************************************)
LEMMA UnterminatedHoldsNoCmdu ==
    ASSUME IInv, ThrowUnterminated
    PROVE  ~HoldsCmdu(buffer)
<1>1. at = "tlvs" /\ ptr > Len(buffer)
    BY DEF IInv, OneEndOfMessage, ThrowUnterminated, LeftLoop, Terminated
<1>2. ptr \in Int /\ Len(buffer) \in Nat
    BY DEF IInv, TypeOK
<1>3. ~TlvFitsAt(buffer, ptr)
    BY <1>1, <1>2 DEF TlvFitsAt, TlvHeaderSize
<1> QED
    BY <1>1, <1>3, NoTlvNoCmdu

LEMMA NextIInv == IInv /\ [Next]_vars => IInv'
<1> SUFFICES ASSUME IInv, [Next]_vars PROVE IInv'
    OBVIOUS
<1>1. CASE ThrowShortBuffer
    <2>1. ~HoldsCmdu(buffer)
        BY <1>1 DEF ThrowShortBuffer, LongEnough, HoldsCmdu
    <2> QED
        BY <1>1, <2>1, ThrowIInv DEF ThrowShortBuffer
<1>2. CASE ReadHeader
    BY <1>2, ReadHeaderIInv
<1>3. CASE ThrowTlvHeader
    <2>1. ~HoldsCmdu(buffer)
        BY <1>3, TestsOfTheLoop, NoTlvNoCmdu DEF ThrowTlvHeader, InLoop, IInv
    <2> QED
        BY <1>3, <2>1, ThrowIInv DEF ThrowTlvHeader
<1>4. CASE ThrowTlvValue
    <2>1. ~HoldsCmdu(buffer)
        BY <1>4, TestsOfTheLoop, NoTlvNoCmdu DEF ThrowTlvValue, InLoop, IInv
    <2> QED
        BY <1>4, <2>1, ThrowIInv DEF ThrowTlvValue
<1>5. CASE ReadTlv
    BY <1>5, ReadTlvIInv
<1>6. CASE Return
    BY <1>6, ReturnIInv
<1>7. CASE ThrowUnterminated
    BY <1>7, UnterminatedHoldsNoCmdu, ThrowIInv DEF ThrowUnterminated
<1>8. CASE UNCHANGED vars
    BY <1>8 DEF vars, IInv, TypeOK, Points, NothingRead, ReadSoFar, PastHeader, OneEndOfMessage,
                OnEveryChain, ThrownWithoutCmdu, LongEnough, EndsMessage,
                HoldsCmdu, IsTlvChain
<1> QED
    BY <1>1, <1>2, <1>3, <1>4, <1>5, <1>6, <1>7, <1>8 DEF Next

THEOREM SpecIInv == Spec => []IInv
<1> QED
    BY InitIInv, NextIInv, PTL DEF Spec

-----------------------------------------------------------------------------
(* What follows from it *)

(***************************************************************************)
(* The locals of Parse keep their types: every length, header and TLV read *)
(* from a buffer of bytes is one, and ptr never passes the end.            *)
(***************************************************************************)
THEOREM TypeCorrect == Spec => []TypeOK
<1> QED
    BY SpecIInv, PTL DEF IInv

LEMMA IInvReturnsIt == IInv => ReturnsWhatTheBufferHolds
<1> QED
    BY DEF IInv, ReadSoFar, OneEndOfMessage, ReturnsWhatTheBufferHolds

(***************************************************************************)
(* For every buffer of bytes: a CMDU that Parse returns has the header and *)
(* the TLVs of the buffer, up to the first END_OF_MESSAGE.                 *)
(***************************************************************************)
THEOREM ReturnsIt == Spec => []ReturnsWhatTheBufferHolds
<1> QED
    BY IInvReturnsIt, SpecIInv, PTL

(***************************************************************************)
(* The TLVs of a CMDU that is returned are the chain that HoldsCmdu asks   *)
(* for.                                                                    *)
(***************************************************************************)
LEMMA ReturnedHoldsCmdu ==
    ASSUME IInv, at = "return"
    PROVE  HoldsCmdu(buffer)
<1> DEFINE n == Len(tlvs)
           starts == {offsets[k] : k \in 1 .. n}
<1>1. /\ LongEnough /\ LiesIn(buffer, tlvs, offsets)
      /\ EndsMessage(tlvs)
      /\ buffer \in Seq(Byte) /\ offsets \in Seq(Nat) /\ tlvs \in Seq(Tlv)
    BY DEF IInv, ReadSoFar, OneEndOfMessage, TypeOK
<1>2. n \in Nat /\ n >= 1 /\ Len(buffer) \in Nat
    BY <1>1 DEF EndsMessage
<1>3. Len(offsets) = n + 1 /\ \A k \in 1 .. n : k \in 1 .. Len(offsets)
    BY <1>1, <1>2 DEF LiesIn
<1>4. \A k \in 1 .. n : offsets[k] \in Nat /\ offsets[k] > CmduHeaderSize
    BY <1>1, <1>3 DEF IInv, PastHeader
<1>5. CmduHeaderSize + 1 \in starts
    BY <1>1, <1>2 DEF LiesIn
<1>6. ASSUME NEW p \in starts
      PROVE  /\ TlvFitsAt(buffer, p)
             /\ ByteAt(buffer, p) = EndOfMessage \/ EndOfTlvAt(buffer, p) \in starts
             /\ p \in CmduHeaderSize + 1 .. Len(buffer)
    <2>1. PICK k \in 1 .. n : p = offsets[k]
        OBVIOUS
    <2>2. /\ TlvFitsAt(buffer, p) /\ tlvs[k] = TlvAt(buffer, p)
          /\ offsets[k + 1] = EndOfTlvAt(buffer, p)
        BY <1>1, <2>1 DEF LiesIn
    <2>3. p \in CmduHeaderSize + 1 .. Len(buffer)
        BY <1>2, <1>4, <2>1, <2>2 DEF TlvFitsAt, TlvHeaderSize, CmduHeaderSize
    <2>4. CASE k = n
        BY <1>1, <2>2, <2>3, <2>4 DEF EndsMessage, IsEndOfMessage, TlvAt
    <2>5. CASE k # n
        <3>1. k + 1 \in 1 .. n
            BY <1>2, <2>5
        <3> QED
            BY <2>2, <2>3, <3>1
    <2> QED
        BY <2>4, <2>5
<1>7. IsTlvChain(buffer, starts)
    BY <1>5, <1>6 DEF IsTlvChain
<1>8. starts \in SUBSET (CmduHeaderSize + 1 .. Len(buffer))
    BY <1>6
<1> QED
    BY <1>1, <1>7, <1>8 DEF HoldsCmdu, LongEnough

(***************************************************************************)
(* For every buffer of bytes: Parse throws only when the buffer holds no   *)
(* CMDU, and returns only when it does.                                    *)
(***************************************************************************)
THEOREM ThrowsIffNoCmdu == Spec => []ThrowsOnlyWithoutCmdu
<1>1. IInv => ThrowsOnlyWithoutCmdu
    BY ReturnedHoldsCmdu DEF IInv, ThrownWithoutCmdu, ThrowsOnlyWithoutCmdu
<1> QED
    BY <1>1, SpecIInv, PTL

=============================================================================
