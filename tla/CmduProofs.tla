----------------------------- MODULE CmduProofs -----------------------------
(***************************************************************************)
(* A Cmdu object, for every sequence of calls: the lengths of its TLVs are *)
(* theirs, an END_OF_MESSAGE added once stays last, only a call that       *)
(* throws can lose one, what FindTlv has found it finds again, and the     *)
(* pointer it returned still points at it as long as the vector has not    *)
(* moved.                                                                  *)
(***************************************************************************)
EXTENDS Cmdu, WireProofs

(* The TLVs the constructor of Tlv makes, whose 16-bit length is right. *)
Fits(tlv) == GetLength(tlv) = Len(tlv.value)

-----------------------------------------------------------------------------
(* The lists *)

(***************************************************************************)
(* The list that is left when the END_OF_MESSAGE found no room.            *)
(***************************************************************************)
LEMMA WithoutRoomList ==
    ASSUME NEW list \in Seq(Tlv), NEW tlv \in Tlv, EndsMessage(list)
    PROVE  /\ WithoutRoomForEnd(list, tlv) \in Seq(Tlv)
           /\ Len(WithoutRoomForEnd(list, tlv)) = Len(list)
           /\ Len(list) >= 1
           /\ WithoutRoomForEnd(list, tlv)[Len(list)] = tlv
           /\ \A k \in 1 .. Len(list) - 1 : WithoutRoomForEnd(list, tlv)[k] = list[k]
<1>1. Len(list) >= 1 /\ Len(list) \in Nat
    BY DEF EndsMessage
<1> QED
    BY <1>1 DEF WithoutRoomForEnd

-----------------------------------------------------------------------------
(* The inductive invariant *)

(* Before a caller has added an END_OF_MESSAGE there is none. *)
NoneBeforeAdded == ends = 0 => \A k \in 1 .. Len(m_tlvs) : ~IsEndOfMessage(m_tlvs[k])

IInv ==
    /\ TypeOK
    /\ NoneBeforeAdded
    /\ OneEndComesLast

LEMMA InitIInv == Init => IInv
    BY MaxCallsAssumption DEF Init, IInv, TypeOK, NoneBeforeAdded, OneEndComesLast

(***************************************************************************)
(* The TLVs that a call adds.                                              *)
(***************************************************************************)
LEMMA Constructed ==
    ASSUME NEW type \in Types, NEW value \in Values, FitsTlv(value)
    PROVE  /\ [type |-> type, value |-> value] \in Tlv
           /\ Fits([type |-> type, value |-> value])
<1>1. type \in Byte /\ value \in Seq(Byte) /\ Len(value) \in Nat
    BY TypesAssumption, ValuesAssumption
<1>2. Base \in Nat /\ Base * Base \in Nat
    BY BaseAssumption
<1>3. Len(value) < Base * Base
    BY <1>1, <1>2 DEF FitsTlv, Uint16
<1>4. Len(value) % (Base * Base) = Len(value)
    BY <1>1, <1>2, <1>3, SmallModulo
<1> QED
    BY <1>1, <1>4 DEF Tlv, Fits, GetLength

(***************************************************************************)
(* The histories after a call that took a TLV.                             *)
(***************************************************************************)
LEMMA TookType ==
    ASSUME TypeOK, MayCall, NEW tlv \in Tlv, Took(tlv), calls' = calls + 1
    PROVE  accepted' \in Seq(Tlv) /\ ends' \in 0 .. calls' /\ calls' \in 0 .. MaxCalls
<1>1. calls \in Nat /\ ends \in Nat /\ ends <= calls /\ MaxCalls \in Nat
    BY MaxCallsAssumption DEF TypeOK
<1>2. accepted' \in Seq(Tlv)
    BY DEF TypeOK, Took
<1>3. ends' = ends \/ ends' = ends + 1
    BY DEF Took
<1> QED
    BY <1>1, <1>2, <1>3 DEF MayCall

LEMMA FailuresType ==
    ASSUME TypeOK, failures' \in {failures, failures + 1}, calls' = calls + 1
    PROVE  failures' \in 0 .. calls'
<1>1. calls \in Nat /\ failures \in Nat /\ failures <= calls
    BY MaxCallsAssumption DEF TypeOK
<1> QED
    BY <1>1

(***************************************************************************)
(* After push_back the storage holds one TLV more.                         *)
(***************************************************************************)
LEMMA MakeRoomType ==
    ASSUME TypeOK, MakeRoom
    PROVE  capacity' \in Nat /\ Len(m_tlvs) + 1 <= capacity' /\ allocation' \in Nat
<1>1. /\ Len(m_tlvs) \in Nat /\ capacity \in Nat /\ Len(m_tlvs) <= capacity
      /\ allocation \in Nat
    BY DEF TypeOK
<1>2. CASE Full
    BY <1>1, <1>2 DEF MakeRoom, Grown
<1>3. CASE ~Full
    BY <1>1, <1>3 DEF MakeRoom, Full
<1> QED
    BY <1>2, <1>3

LEMMA ReturnsIInv ==
    ASSUME IInv, NEW type \in Types, NEW value \in Values, AddTlvReturns(type, value)
    PROVE  IInv'
<1> DEFINE tlv == [type |-> type, value |-> value]
<1>1. tlv \in Tlv /\ Fits(tlv)
    BY Constructed DEF AddTlvReturns
<1>2. /\ MayCall /\ m_tlvs' = AddTlv(m_tlvs, tlv) /\ Took(tlv)
      /\ thrown' = "none" /\ calls' = calls + 1 /\ MakeRoom /\ held' = held
      /\ failures' = failures
    BY DEF AddTlvReturns
<1>3. /\ m_tlvs \in Seq(Tlv) /\ Len(m_tlvs) \in Nat
      /\ \A k \in 1 .. Len(m_tlvs) : Fits(m_tlvs[k])
      /\ ends \in Nat
    BY DEF IInv, TypeOK, Fits
<1> HIDE DEF tlv
<1>4. /\ m_tlvs' \in Seq(Tlv) /\ Len(m_tlvs') = Len(m_tlvs) + 1
      /\ EndsMessage(m_tlvs) =>
            /\ Len(m_tlvs) >= 1
            /\ m_tlvs'[Len(m_tlvs)] = tlv
            /\ m_tlvs'[Len(m_tlvs) + 1] = m_tlvs[Len(m_tlvs)]
            /\ \A k \in 1 .. Len(m_tlvs) - 1 : m_tlvs'[k] = m_tlvs[k]
      /\ ~EndsMessage(m_tlvs) =>
            /\ m_tlvs'[Len(m_tlvs) + 1] = tlv
            /\ \A k \in 1 .. Len(m_tlvs) : m_tlvs'[k] = m_tlvs[k]
    BY <1>1, <1>2, <1>3, AddTlvList
<1>5. TypeOK'
    <2>1. \A k \in 1 .. Len(m_tlvs') : Fits(m_tlvs'[k])
        BY <1>1, <1>3, <1>4
    <2>2. accepted' \in Seq(Tlv) /\ ends' \in 0 .. calls' /\ calls' \in 0 .. MaxCalls
        BY <1>1, <1>2, TookType DEF IInv
    <2>3. capacity' \in Nat /\ Len(m_tlvs') <= capacity' /\ allocation' \in Nat
        BY <1>2, <1>4, MakeRoomType DEF IInv
    <2>4. held' \subseteq [home : Nat, index : Nat \ {0}, found : Tlv]
        BY <1>2 DEF IInv, TypeOK
    <2>5. failures' \in 0 .. calls'
        BY <1>2, FailuresType DEF IInv
    <2> QED
        BY <1>2, <1>4, <2>1, <2>2, <2>3, <2>4, <2>5 DEF TypeOK, Fits
<1>6. NoneBeforeAdded'
    <2>1. SUFFICES ASSUME ends' = 0
                   PROVE  \A k \in 1 .. Len(m_tlvs') : ~IsEndOfMessage(m_tlvs'[k])
        BY DEF NoneBeforeAdded
    <2>2. ends = 0 /\ ~IsEndOfMessage(tlv)
        BY <1>2, <1>3, <2>1 DEF Took
    <2>3. \A k \in 1 .. Len(m_tlvs) : ~IsEndOfMessage(m_tlvs[k])
        BY <2>2 DEF IInv, NoneBeforeAdded
    <2> QED
        BY <1>3, <1>4, <2>2, <2>3 DEF EndsMessage
<1>7. OneEndComesLast'
    <2>1. SUFFICES ASSUME ends' <= 1, NEW k \in 1 .. Len(m_tlvs') - 1
                   PROVE  ~IsEndOfMessage(m_tlvs'[k])
        BY DEF OneEndComesLast
    <2>2. \/ ends <= 1 /\ ~IsEndOfMessage(tlv)
          \/ ends = 0 /\ IsEndOfMessage(tlv)
        BY <1>2, <1>3, <2>1 DEF Took
    <2>3. k \in 1 .. Len(m_tlvs)
        BY <1>3, <1>4
    <2>4. CASE EndsMessage(m_tlvs)
        <3>1. ends # 0
            BY <1>3, <2>4 DEF IInv, NoneBeforeAdded, EndsMessage
        <3>2. ~IsEndOfMessage(tlv)
            BY <2>2, <3>1
        <3>3. \A j \in 1 .. Len(m_tlvs) - 1 : ~IsEndOfMessage(m_tlvs[j])
            BY <2>2, <3>1 DEF IInv, OneEndComesLast
        <3> QED
            BY <1>3, <1>4, <2>3, <2>4, <3>2, <3>3
    <2>5. CASE ~EndsMessage(m_tlvs)
        <3>1. m_tlvs'[k] = m_tlvs[k]
            BY <1>4, <2>3, <2>5
        <3>2. CASE k = Len(m_tlvs)
            BY <2>3, <2>5, <3>1, <3>2 DEF EndsMessage
        <3>3. CASE k # Len(m_tlvs)
            <4>1. k \in 1 .. Len(m_tlvs) - 1
                BY <1>3, <2>3, <3>3
            <4>2. ends <= 1
                BY <1>3, <2>2
            <4> QED
                BY <3>1, <4>1, <4>2 DEF IInv, OneEndComesLast
        <3> QED
            BY <3>2, <3>3
    <2> QED
        BY <2>4, <2>5
<1> QED
    BY <1>5, <1>6, <1>7 DEF IInv

(***************************************************************************)
(* An exception of the second push_back: the END_OF_MESSAGE is gone.       *)
(***************************************************************************)
LEMMA NoRoomIInv ==
    ASSUME IInv, NEW type \in Types, NEW value \in Values,
           AddTlvThrows(type, value), EndsMessage(m_tlvs)
    PROVE  IInv'
<1> DEFINE tlv == [type |-> type, value |-> value]
<1>1. tlv \in Tlv /\ Fits(tlv)
    BY Constructed DEF AddTlvThrows
<1>2. /\ MayCall /\ m_tlvs' = WithoutRoomForEnd(m_tlvs, tlv) /\ Took(tlv)
      /\ thrown' = "bad_alloc" /\ calls' = calls + 1 /\ failures' = failures + 1
      /\ UNCHANGED << capacity, allocation, held >>
    BY DEF AddTlvThrows
<1>3. /\ m_tlvs \in Seq(Tlv) /\ Len(m_tlvs) \in Nat
      /\ \A k \in 1 .. Len(m_tlvs) : Fits(m_tlvs[k])
      /\ ends \in Nat
    BY DEF IInv, TypeOK, Fits
<1> HIDE DEF tlv
<1>4. /\ m_tlvs' \in Seq(Tlv) /\ Len(m_tlvs') = Len(m_tlvs) /\ Len(m_tlvs) >= 1
      /\ m_tlvs'[Len(m_tlvs)] = tlv
      /\ \A k \in 1 .. Len(m_tlvs) - 1 : m_tlvs'[k] = m_tlvs[k]
    BY <1>1, <1>2, <1>3, WithoutRoomList
<1>5. TypeOK'
    <2>1. \A k \in 1 .. Len(m_tlvs') : Fits(m_tlvs'[k])
        BY <1>1, <1>3, <1>4
    <2>2. accepted' \in Seq(Tlv) /\ ends' \in 0 .. calls' /\ calls' \in 0 .. MaxCalls
        BY <1>1, <1>2, TookType DEF IInv
    <2>3. /\ capacity' \in Nat /\ Len(m_tlvs') <= capacity' /\ allocation' \in Nat
          /\ held' \subseteq [home : Nat, index : Nat \ {0}, found : Tlv]
        BY <1>2, <1>4 DEF IInv, TypeOK
    <2>4. failures' \in 0 .. calls'
        BY <1>2, FailuresType DEF IInv
    <2> QED
        BY <1>2, <1>4, <2>1, <2>2, <2>3, <2>4 DEF TypeOK, Fits
<1>6. ends # 0 /\ ends' # 0
    <2>1. ends # 0
        BY <1>3, <1>4 DEF IInv, NoneBeforeAdded, EndsMessage
    <2> QED
        BY <1>2, <1>3, <2>1 DEF Took
<1>7. OneEndComesLast'
    <2>1. SUFFICES ASSUME ends' <= 1, NEW k \in 1 .. Len(m_tlvs') - 1
                   PROVE  ~IsEndOfMessage(m_tlvs'[k])
        BY DEF OneEndComesLast
    <2>2. ends <= 1
        BY <1>2, <1>3, <2>1 DEF Took
    <2> QED
        BY <1>3, <1>4, <2>2 DEF IInv, OneEndComesLast
<1> QED
    BY <1>5, <1>6, <1>7 DEF IInv, NoneBeforeAdded

(***************************************************************************)
(* A call that left the list as it was.                                    *)
(***************************************************************************)
LEMMA UnchangedIInv ==
    ASSUME IInv, MayCall, calls' = calls + 1,
           UNCHANGED << m_tlvs, capacity, allocation, held, accepted, ends >>,
           thrown' \in {"length_error", "bad_alloc"}, failures' \in {failures, failures + 1}
    PROVE  IInv'
<1>1. calls \in Nat /\ ends \in Nat /\ ends <= calls /\ MaxCalls \in Nat
    BY MaxCallsAssumption DEF IInv, TypeOK
<1>2. ends' \in 0 .. calls' /\ calls' \in 0 .. MaxCalls
    BY <1>1 DEF MayCall
<1>3. failures' \in 0 .. calls'
    BY FailuresType DEF IInv
<1> QED
    BY <1>2, <1>3 DEF IInv, TypeOK, NoneBeforeAdded, OneEndComesLast

(***************************************************************************)
(* The pointer FindTlv returns.                                            *)
(***************************************************************************)
LEMMA LookupIInv ==
    ASSUME IInv, NEW type \in Types, Lookup(type)
    PROVE  IInv'
<1>1. held' \subseteq [home : Nat, index : Nat \ {0}, found : Tlv]
    <2>1. m_tlvs \in Seq(Tlv) /\ Len(m_tlvs) \in Nat /\ allocation \in Nat
        BY DEF IInv, TypeOK
    <2>2. \A k \in FirstAt(m_tlvs, type) : k \in Nat \ {0} /\ m_tlvs[k] \in Tlv
        BY <2>1 DEF FirstAt
    <2> QED
        BY <2>1, <2>2 DEF Lookup
<1> QED
    BY <1>1 DEF Lookup, IInv, TypeOK, NoneBeforeAdded, OneEndComesLast

LEMMA NextIInv == IInv /\ [Next]_vars => IInv'
<1> SUFFICES ASSUME IInv, [Next]_vars PROVE IInv'
    OBVIOUS
<1>1. ASSUME NEW type \in Types, NEW value \in Values, ConstructorThrows(type, value)
      PROVE  IInv'
    BY <1>1, UnchangedIInv DEF ConstructorThrows
<1>2. ASSUME NEW type \in Types, NEW value \in Values, AddTlvReturns(type, value)
      PROVE  IInv'
    BY <1>2, ReturnsIInv
<1>3. ASSUME NEW type \in Types, NEW value \in Values, AddTlvThrows(type, value)
      PROVE  IInv'
    <2>1. CASE EndsMessage(m_tlvs)
        BY <1>3, <2>1, NoRoomIInv
    <2>2. CASE ~EndsMessage(m_tlvs)
        BY <1>3, <2>2, UnchangedIInv DEF AddTlvThrows
    <2> QED
        BY <2>1, <2>2
<1>4. ASSUME NEW type \in Types, Lookup(type) PROVE IInv'
    BY <1>4, LookupIInv
<1>5. CASE UNCHANGED vars
    BY <1>5 DEF vars, IInv, TypeOK, NoneBeforeAdded, OneEndComesLast
<1> QED
    BY <1>1, <1>2, <1>3, <1>4, <1>5 DEF Next

THEOREM SpecIInv == Spec => []IInv
<1> QED
    BY InitIInv, NextIInv, PTL DEF Spec

-----------------------------------------------------------------------------
(* What follows from it *)

(***************************************************************************)
(* The list is one of TLVs whose 16-bit length is that of their value.     *)
(***************************************************************************)
THEOREM TypeCorrect == Spec => []TypeOK
<1> QED
    BY SpecIInv, PTL DEF IInv

(***************************************************************************)
(* An END_OF_MESSAGE that a caller adds once, at whatever time, is never   *)
(* followed by another TLV, whichever calls of AddTlv throw.               *)
(***************************************************************************)
THEOREM OneEndStaysLast == Spec => []OneEndComesLast
<1> QED
    BY SpecIInv, PTL DEF IInv

-----------------------------------------------------------------------------
(* What a call that throws loses *)

LEMMA NextOnlyFailures ==
    ASSUME TypeOK, OnlyFailuresLoseTheEnd, [Next]_vars
    PROVE  OnlyFailuresLoseTheEnd'
<1>1. /\ m_tlvs \in Seq(Tlv) /\ accepted \in Seq(Tlv)
      /\ Len(m_tlvs) \in Nat /\ Len(accepted) \in Nat
      /\ ends \in Nat /\ failures \in Nat
    BY DEF TypeOK
<1>2. Len(accepted) - Len(m_tlvs) <= failures
    BY DEF OnlyFailuresLoseTheEnd
<1>3. ASSUME NEW tlv \in Tlv, Took(tlv) PROVE Len(accepted') = Len(accepted) + 1
    BY <1>1, <1>3 DEF Took
<1>4. ASSUME NEW type \in Types, NEW value \in Values, AddTlvReturns(type, value)
      PROVE  OnlyFailuresLoseTheEnd'
    <2> DEFINE tlv == [type |-> type, value |-> value]
    <2>1. /\ tlv \in Tlv /\ m_tlvs' = AddTlv(m_tlvs, tlv) /\ Took(tlv)
          /\ failures' = failures
        BY <1>4, Constructed DEF AddTlvReturns
    <2> HIDE DEF tlv
    <2>2. /\ m_tlvs' \in Seq(Tlv) /\ Len(m_tlvs') = Len(m_tlvs) + 1
          /\ EndsMessage(m_tlvs) => m_tlvs'[Len(m_tlvs) + 1] = m_tlvs[Len(m_tlvs)]
          /\ ~EndsMessage(m_tlvs) => m_tlvs'[Len(m_tlvs) + 1] = tlv
        BY <1>1, <2>1, AddTlvList
    <2>3. Len(accepted') - Len(m_tlvs') <= failures'
        BY <1>1, <1>2, <1>3, <2>1, <2>2
    <2>4. ASSUME ends' > 0, failures' = 0 PROVE EndsMessage(m_tlvs')
        <3>1. m_tlvs' # << >>
            BY <1>1, <2>2
        <3>2. CASE EndsMessage(m_tlvs)
            BY <2>2, <3>1, <3>2 DEF EndsMessage
        <3>3. CASE ~EndsMessage(m_tlvs)
            <4>1. ends = 0
                BY <1>1, <2>1, <2>4, <3>3 DEF OnlyFailuresLoseTheEnd
            <4>2. IsEndOfMessage(tlv)
                BY <1>1, <2>1, <2>4, <4>1 DEF Took
            <4> QED
                BY <2>2, <3>1, <3>3, <4>2 DEF EndsMessage
        <3> QED
            BY <3>2, <3>3
    <2> QED
        BY <2>3, <2>4 DEF OnlyFailuresLoseTheEnd
<1>5. ASSUME NEW type \in Types, NEW value \in Values, AddTlvThrows(type, value)
      PROVE  OnlyFailuresLoseTheEnd'
    <2> DEFINE tlv == [type |-> type, value |-> value]
    <2>1. failures' = failures + 1
        BY <1>5 DEF AddTlvThrows
    <2>2. CASE EndsMessage(m_tlvs)
        <3>1. tlv \in Tlv /\ m_tlvs' = WithoutRoomForEnd(m_tlvs, tlv) /\ Took(tlv)
            BY <1>5, <2>2, Constructed DEF AddTlvThrows
        <3> HIDE DEF tlv
        <3>2. Len(m_tlvs') = Len(m_tlvs)
            BY <1>1, <2>2, <3>1, WithoutRoomList
        <3> QED
            BY <1>1, <1>2, <1>3, <2>1, <3>1, <3>2 DEF OnlyFailuresLoseTheEnd
    <2>3. CASE ~EndsMessage(m_tlvs)
        <3>1. UNCHANGED << m_tlvs, accepted >>
            BY <1>5, <2>3 DEF AddTlvThrows
        <3> QED
            BY <1>1, <1>2, <2>1, <3>1 DEF OnlyFailuresLoseTheEnd
    <2> QED
        BY <2>2, <2>3
<1>6. ASSUME UNCHANGED << m_tlvs, accepted, ends, failures >> PROVE OnlyFailuresLoseTheEnd'
    BY <1>6 DEF OnlyFailuresLoseTheEnd, EndsMessage
<1> QED
    BY <1>4, <1>5, <1>6 DEF Next, vars, ConstructorThrows, Lookup

(***************************************************************************)
(* A call of AddTlv that throws std::bad_alloc costs the CMDU at most the  *)
(* END_OF_MESSAGE at its end, and a call that does not throw, nothing.     *)
(***************************************************************************)
THEOREM OnlyFailuresLose == Spec => []OnlyFailuresLoseTheEnd
<1>1. Init => OnlyFailuresLoseTheEnd
    BY DEF Init, OnlyFailuresLoseTheEnd
<1>2. TypeOK /\ OnlyFailuresLoseTheEnd /\ [Next]_vars => OnlyFailuresLoseTheEnd'
    BY NextOnlyFailures
<1> QED
    BY <1>1, <1>2, TypeCorrect, PTL DEF Spec

-----------------------------------------------------------------------------
(* FindTlv over calls of AddTlv *)

(* k is the first position of a TLV of a type. *)
IsFirst(list, type, k) ==
    /\ k \in 1 .. Len(list)
    /\ list[k].type = type
    /\ \A h \in 1 .. k - 1 : list[h].type # type

LEMMA FindTlvIsFirst ==
    ASSUME NEW list \in Seq(Tlv), NEW type, NEW k, IsFirst(list, type, k)
    PROVE  FindTlv(list, type) = {list[k]}
<1>1. Len(list) \in Nat /\ k \in Nat
    BY DEF IsFirst
<1>2. ASSUME NEW j, IsFirst(list, type, j) PROVE j = k
    <2>1. j \in Nat
        BY <1>1, <1>2 DEF IsFirst
    <2>2. ~(j < k)
        BY <1>1, <1>2, <2>1 DEF IsFirst
    <2>3. ~(k < j)
        BY <1>1, <1>2, <2>1 DEF IsFirst
    <2> QED
        BY <1>1, <2>1, <2>2, <2>3
<1>3. FirstAt(list, type) = {k}
    BY <1>2 DEF IsFirst, FirstAt
<1> QED
    BY <1>3 DEF FindTlv

(***************************************************************************)
(* A list that goes on from another, whose last TLV only, and only if it   *)
(* is an END_OF_MESSAGE, was replaced.                                     *)
(***************************************************************************)
GoesOn(new, list) ==
    /\ Len(new) >= Len(list)
    /\ \A k \in 1 .. Len(list) :
          new[k] = list[k] \/ (k = Len(list) /\ IsEndOfMessage(list[k]))

LEMMA FindTlvGoesOn ==
    ASSUME NEW list \in Seq(Tlv), NEW new \in Seq(Tlv), GoesOn(new, list),
           NEW type, type # EndOfMessage, FindTlv(list, type) # {}
    PROVE  FindTlv(new, type) = FindTlv(list, type)
<1>1. PICK k : IsFirst(list, type, k)
    BY DEF FindTlv, FirstAt, IsFirst
<1>2. /\ Len(list) \in Nat /\ Len(new) \in Nat
      /\ k \in Nat /\ k \in 1 .. Len(list) /\ Len(new) >= Len(list)
    BY <1>1 DEF IsFirst, GoesOn
<1>3. new[k] = list[k]
    BY <1>1, <1>2 DEF GoesOn, IsFirst, IsEndOfMessage
<1>4. ASSUME NEW h \in 1 .. k - 1 PROVE new[h].type # type
    <2>1. h \in 1 .. Len(list) /\ h # Len(list)
        BY <1>2
    <2> QED
        BY <1>1, <2>1 DEF GoesOn, IsFirst
<1>5. IsFirst(new, type, k)
    BY <1>1, <1>2, <1>3, <1>4 DEF IsFirst
<1>6. FindTlv(list, type) = {list[k]}
    BY <1>1, FindTlvIsFirst
<1>7. FindTlv(new, type) = {new[k]}
    BY <1>5, FindTlvIsFirst
<1> QED
    BY <1>3, <1>6, <1>7

(***************************************************************************)
(* Cmdu::AddTlv goes on from its list, whether push_back succeeds or the   *)
(* END_OF_MESSAGE it took off finds no room.                               *)
(***************************************************************************)
LEMMA AddTlvGoesOn ==
    ASSUME NEW list \in Seq(Tlv), NEW tlv \in Tlv
    PROVE  GoesOn(AddTlv(list, tlv), list)
<1> DEFINE new == AddTlv(list, tlv)
<1>1. Len(list) \in Nat /\ Len(new) = Len(list) + 1
    BY AddTlvList
<1>2. ASSUME EndsMessage(list) PROVE GoesOn(new, list)
    <2>1. \A k \in 1 .. Len(list) - 1 : new[k] = list[k]
        BY <1>2, AddTlvList
    <2>2. IsEndOfMessage(list[Len(list)])
        BY <1>2 DEF EndsMessage
    <2> HIDE DEF new
    <2>3. \A k \in 1 .. Len(list) : k = Len(list) \/ k \in 1 .. Len(list) - 1
        BY <1>1
    <2> QED
        BY <1>1, <2>1, <2>2, <2>3 DEF GoesOn
<1>3. ASSUME ~EndsMessage(list) PROVE GoesOn(new, list)
    <2>1. \A k \in 1 .. Len(list) : new[k] = list[k]
        BY <1>3, AddTlvList
    <2> HIDE DEF new
    <2> QED
        BY <1>1, <2>1 DEF GoesOn
<1> QED
    BY <1>2, <1>3

LEMMA WithoutRoomGoesOn ==
    ASSUME NEW list \in Seq(Tlv), NEW tlv \in Tlv, EndsMessage(list)
    PROVE  GoesOn(WithoutRoomForEnd(list, tlv), list)
<1> DEFINE new == WithoutRoomForEnd(list, tlv)
<1>1. Len(list) \in Nat /\ Len(new) = Len(list)
    BY WithoutRoomList
<1>2. \A k \in 1 .. Len(list) - 1 : new[k] = list[k]
    BY WithoutRoomList
<1>3. IsEndOfMessage(list[Len(list)])
    BY DEF EndsMessage
<1> HIDE DEF new
<1>4. \A k \in 1 .. Len(list) : k = Len(list) \/ k \in 1 .. Len(list) - 1
    BY <1>1
<1>5. GoesOn(new, list)
    BY <1>1, <1>2, <1>3, <1>4 DEF GoesOn
<1> QED
    BY <1>5 DEF new

(***************************************************************************)
(* Every step goes on from the list it finds.                              *)
(***************************************************************************)
LEMMA NextGoesOn ==
    ASSUME TypeOK, TypeOK', [Next]_vars
    PROVE  GoesOn(m_tlvs', m_tlvs)
<1>1. m_tlvs \in Seq(Tlv) /\ Len(m_tlvs) \in Nat
    BY DEF TypeOK
<1>2. CASE m_tlvs' = m_tlvs
    BY <1>1, <1>2 DEF GoesOn
<1>3. ASSUME NEW type \in Types, NEW value \in Values, AddTlvReturns(type, value)
      PROVE  GoesOn(m_tlvs', m_tlvs)
    <2> DEFINE tlv == [type |-> type, value |-> value]
    <2>1. tlv \in Tlv /\ m_tlvs' = AddTlv(m_tlvs, tlv)
        BY <1>3, Constructed DEF AddTlvReturns
    <2> HIDE DEF tlv
    <2> QED
        BY <1>1, <2>1, AddTlvGoesOn
<1>4. ASSUME NEW type \in Types, NEW value \in Values, AddTlvThrows(type, value),
             EndsMessage(m_tlvs)
      PROVE  GoesOn(m_tlvs', m_tlvs)
    <2> DEFINE tlv == [type |-> type, value |-> value]
    <2>1. tlv \in Tlv /\ m_tlvs' = WithoutRoomForEnd(m_tlvs, tlv)
        BY <1>4, Constructed DEF AddTlvThrows
    <2> HIDE DEF tlv
    <2> QED
        BY <1>1, <1>4, <2>1, WithoutRoomGoesOn
<1> QED
    BY <1>2, <1>3, <1>4 DEF Next, vars, ConstructorThrows, AddTlvThrows, Lookup

(***************************************************************************)
(* No call of AddTlv, whether it returns or throws, changes what FindTlv   *)
(* finds for a type it has found before, END_OF_MESSAGE aside.             *)
(***************************************************************************)
THEOREM FoundIsKept == Spec => FoundStaysFound
<1>1. ASSUME TypeOK, TypeOK', [Next]_vars, NEW type \in Types \ {EndOfMessage},
             FindTlv(m_tlvs, type) # {}
      PROVE  FindTlv(m_tlvs', type) = FindTlv(m_tlvs, type)
    <2>1. m_tlvs \in Seq(Tlv) /\ m_tlvs' \in Seq(Tlv)
        BY <1>1 DEF TypeOK
    <2>2. GoesOn(m_tlvs', m_tlvs)
        BY <1>1, NextGoesOn
    <2> QED
        BY <1>1, <2>1, <2>2, FindTlvGoesOn
<1>2. TypeOK /\ TypeOK' /\ [Next]_vars =>
          [\A type \in Types \ {EndOfMessage} :
              FindTlv(m_tlvs, type) # {} =>
                  FindTlv(m_tlvs', type) = FindTlv(m_tlvs, type)]_vars
    BY <1>1
<1> QED
    BY <1>2, TypeCorrect, PTL DEF Spec, FoundStaysFound

-----------------------------------------------------------------------------
(* The pointer a caller keeps *)

(***************************************************************************)
(* HeldPointsAtFound, and that no pointer is into storage the vector has   *)
(* yet to move to.                                                         *)
(***************************************************************************)
HeldInv ==
    /\ \A pointer \in held : pointer.home <= allocation
    /\ HeldPointsAtFound

(***************************************************************************)
(* A step that leaves the pointer alone and goes on from the list, in its  *)
(* storage or in new storage.                                              *)
(***************************************************************************)
LEMMA GoingOnKeepsHeld ==
    ASSUME TypeOK, TypeOK', HeldInv, GoesOn(m_tlvs', m_tlvs), held' = held,
           allocation' = allocation \/ allocation' = allocation + 1
    PROVE  HeldInv'
<1> SUFFICES ASSUME NEW pointer \in held
             PROVE  /\ pointer.home <= allocation'
                    /\ pointer.home = allocation' /\ ~IsEndOfMessage(pointer.found) =>
                          /\ pointer.index <= Len(m_tlvs')
                          /\ m_tlvs'[pointer.index] = pointer.found
    BY DEF HeldInv, HeldPointsAtFound
<1>1. /\ pointer.home \in Nat /\ pointer.index \in Nat \ {0}
      /\ allocation \in Nat /\ Len(m_tlvs) \in Nat /\ Len(m_tlvs') \in Nat
    BY DEF TypeOK
<1>2. pointer.home <= allocation
    BY DEF HeldInv
<1>3. CASE allocation' = allocation + 1
    BY <1>1, <1>2, <1>3
<1>4. CASE allocation' = allocation
    <2> SUFFICES ASSUME pointer.home = allocation, ~IsEndOfMessage(pointer.found)
                 PROVE  /\ pointer.index <= Len(m_tlvs')
                        /\ m_tlvs'[pointer.index] = pointer.found
        BY <1>2, <1>4
    <2>1. pointer.index <= Len(m_tlvs) /\ m_tlvs[pointer.index] = pointer.found
        BY DEF HeldInv, HeldPointsAtFound
    <2>2. pointer.index \in 1 .. Len(m_tlvs)
        BY <1>1, <2>1
    <2> QED
        BY <1>1, <2>1, <2>2 DEF GoesOn
<1> QED
    BY <1>3, <1>4

LEMMA NextHeldInv ==
    ASSUME TypeOK, TypeOK', HeldInv, [Next]_vars
    PROVE  HeldInv'
<1>1. GoesOn(m_tlvs', m_tlvs)
    BY NextGoesOn
<1>2. ASSUME NEW type \in Types, Lookup(type) PROVE HeldInv'
    <2>1. \A k \in FirstAt(m_tlvs, type) : k <= Len(m_tlvs)
        BY DEF FirstAt, TypeOK
    <2>2. allocation \in Nat
        BY DEF TypeOK
    <2> QED
        BY <1>2, <2>1, <2>2 DEF Lookup, HeldInv, HeldPointsAtFound
<1>3. ASSUME held' = held, allocation' = allocation PROVE HeldInv'
    BY <1>1, <1>3, GoingOnKeepsHeld
<1>4. ASSUME NEW type \in Types, NEW value \in Values, AddTlvReturns(type, value)
      PROVE  HeldInv'
    BY <1>1, <1>4, GoingOnKeepsHeld DEF AddTlvReturns, MakeRoom
<1> QED
    BY <1>2, <1>3, <1>4 DEF Next, vars, ConstructorThrows, AddTlvThrows

(***************************************************************************)
(* However many TLVs are added behind it, and whichever calls throw, the   *)
(* pointer FindTlv returned points at the TLV it found until the vector    *)
(* moves, END_OF_MESSAGE aside.                                            *)
(***************************************************************************)
THEOREM HeldPointerIsGood == Spec => []HeldPointsAtFound
<1>1. Init => HeldInv
    BY DEF Init, HeldInv, HeldPointsAtFound
<1>2. TypeOK /\ TypeOK' /\ HeldInv /\ [Next]_vars => HeldInv'
    BY NextHeldInv
<1> QED
    BY <1>1, <1>2, TypeCorrect, PTL DEF Spec, HeldInv

-----------------------------------------------------------------------------
(* The order of the TLVs *)

(* upTo has the payload of the first k TLVs of a list, for each k up to n. *)
IsPayloadUpTo(list, upTo, n) ==
    upTo = [k \in 0 .. n |->
               IF k = 0 THEN << >>
               ELSE IF IsEndOfMessage(list[k]) THEN upTo[k - 1]
                                               ELSE Append(upTo[k - 1], list[k])]

LEMMA HasPayloadUpTo ==
    ASSUME NEW list
    PROVE  \A n \in Nat : \E upTo : IsPayloadUpTo(list, upTo, n)
<1> DEFINE S == {n \in Nat : \E upTo : IsPayloadUpTo(list, upTo, n)}
<1>1. 0 \in S
    <2>1. IsPayloadUpTo(list, [k \in 0 .. 0 |-> << >>], 0)
        BY DEF IsPayloadUpTo
    <2> QED
        BY <2>1
<1>2. ASSUME NEW n \in Nat, n \in S PROVE n + 1 \in S
    <2>1. PICK upTo : IsPayloadUpTo(list, upTo, n)
        BY <1>2
    <2> DEFINE last == IF IsEndOfMessage(list[n + 1]) THEN upTo[n]
                                                      ELSE Append(upTo[n], list[n + 1])
               longer == [k \in 0 .. n + 1 |-> IF k = n + 1 THEN last ELSE upTo[k]]
    <2>2. longer[n + 1] = last /\ \A k \in 0 .. n : longer[k] = upTo[k]
        OBVIOUS
    <2>3. \A k \in 0 .. n :
             longer[k] = IF k = 0 THEN << >>
                         ELSE IF IsEndOfMessage(list[k]) THEN longer[k - 1]
                                                         ELSE Append(longer[k - 1], list[k])
        <3> TAKE k \in 0 .. n
        <3>1. upTo[k] = IF k = 0 THEN << >>
                        ELSE IF IsEndOfMessage(list[k]) THEN upTo[k - 1]
                                                        ELSE Append(upTo[k - 1], list[k])
            BY <2>1, Zenon DEF IsPayloadUpTo
        <3>2. k # 0 => k - 1 \in 0 .. n
            OBVIOUS
        <3>3. longer[k] = upTo[k] /\ (k # 0 => longer[k - 1] = upTo[k - 1])
            BY <2>2, <3>2
        <3> HIDE DEF longer
        <3> QED
            BY <3>1, <3>3
    <2>4. IsPayloadUpTo(list, longer, n + 1)
        <3>1. longer[n + 1] = IF IsEndOfMessage(list[n + 1]) THEN longer[n]
                                            ELSE Append(longer[n], list[n + 1])
            BY <2>2
        <3>2. longer = [k \in 0 .. n + 1 |-> longer[k]]
            OBVIOUS
        <3> HIDE DEF longer, last
        <3>3. \A k \in 0 .. n + 1 : k \in 0 .. n \/ (k = n + 1 /\ k # 0 /\ k - 1 = n)
            OBVIOUS
        <3>4. \A k \in 0 .. n + 1 :
                 longer[k] = IF k = 0 THEN << >>
                             ELSE IF IsEndOfMessage(list[k]) THEN longer[k - 1]
                                                         ELSE Append(longer[k - 1], list[k])
            BY <2>3, <3>1, <3>3
        <3> QED
            BY <3>2, <3>4, Zenon DEF IsPayloadUpTo
    <2> QED
        BY <2>4
<1> HIDE DEF S
<1>3. \A n \in Nat : n \in S
    BY <1>1, <1>2, AllNumbers
<1> QED
    BY <1>3 DEF S

(* Lists that begin alike have the same payload there. *)
BeginAlike(list, other, n) == \A k \in 1 .. n : list[k] = other[k]

LEMMA SamePayloadUpTo ==
    ASSUME NEW list, NEW other, NEW n \in Nat, NEW m \in Nat, n <= m,
           BeginAlike(list, other, n),
           NEW f, IsPayloadUpTo(list, f, n), NEW g, IsPayloadUpTo(other, g, m)
    PROVE  f[n] = g[n]
<1> DEFINE S == {k \in Nat : k <= n => f[k] = g[k]}
<1>1. \A k \in 0 .. n :
         f[k] = IF k = 0 THEN << >>
                ELSE IF IsEndOfMessage(list[k]) THEN f[k - 1]
                                                ELSE Append(f[k - 1], list[k])
    BY Zenon DEF IsPayloadUpTo
<1>2. \A k \in 0 .. m :
         g[k] = IF k = 0 THEN << >>
                ELSE IF IsEndOfMessage(other[k]) THEN g[k - 1]
                                                 ELSE Append(g[k - 1], other[k])
    BY Zenon DEF IsPayloadUpTo
<1>3. 0 \in S
    BY <1>1, <1>2
<1>4. ASSUME NEW k \in Nat, k \in S PROVE k + 1 \in S
    <2> SUFFICES ASSUME k + 1 <= n PROVE f[k + 1] = g[k + 1]
        OBVIOUS
    <2>1. /\ k + 1 \in 0 .. n /\ k + 1 \in 0 .. m /\ k + 1 \in 1 .. n
          /\ k + 1 # 0 /\ k + 1 - 1 = k
        OBVIOUS
    <2>2. f[k] = g[k]
        BY <1>4
    <2> QED
        BY <1>1, <1>2, <2>1, <2>2 DEF BeginAlike
<1>5. \A k \in S : k <= n => f[k] = g[k]
    OBVIOUS
<1> HIDE DEF S
<1>6. \A k \in Nat : k \in S
    BY <1>3, <1>4, AllNumbers
<1>7. n \in S /\ n <= n
    BY <1>6
<1> QED
    BY <1>5, <1>7

LEMMA PayloadIsUpTo ==
    ASSUME NEW list \in Seq(Tlv), NEW upTo, IsPayloadUpTo(list, upTo, Len(list))
    PROVE  PayloadTlvs(list) = upTo[Len(list)]
<1> DEFINE chosen == CHOOSE f : IsPayloadUpTo(list, f, Len(list))
<1>1. IsPayloadUpTo(list, chosen, Len(list))
    OBVIOUS
<1>2. PayloadTlvs(list) = chosen[Len(list)]
    BY DEF PayloadTlvs, IsPayloadUpTo
<1> HIDE DEF chosen
<1>3. Len(list) \in Nat
    OBVIOUS
<1> QED
    BY <1>1, <1>2, <1>3, SamePayloadUpTo DEF BeginAlike

(***************************************************************************)
(* What one TLV more does to the payload.                                  *)
(***************************************************************************)
LEMMA PayloadOfAppend ==
    ASSUME NEW list \in Seq(Tlv), NEW tlv \in Tlv
    PROVE  PayloadTlvs(Append(list, tlv)) =
               IF IsEndOfMessage(tlv) THEN PayloadTlvs(list) ELSE Append(PayloadTlvs(list), tlv)
<1> DEFINE longer == Append(list, tlv)
           n == Len(list)
<1>1. /\ n \in Nat /\ longer \in Seq(Tlv) /\ Len(longer) = n + 1 /\ longer[n + 1] = tlv
      /\ \A k \in 1 .. n : longer[k] = list[k]
    OBVIOUS
<1> HIDE DEF longer
<1>2. PICK f : IsPayloadUpTo(list, f, n)
    BY <1>1, HasPayloadUpTo
<1>3. PICK g : IsPayloadUpTo(longer, g, n + 1)
    BY <1>1, HasPayloadUpTo
<1>4. PayloadTlvs(list) = f[n] /\ PayloadTlvs(longer) = g[n + 1]
    BY <1>1, <1>2, <1>3, PayloadIsUpTo
<1>5. f[n] = g[n]
    <2>1. BeginAlike(list, longer, n)
        BY <1>1 DEF BeginAlike
    <2>2. n \in Nat /\ n + 1 \in Nat /\ n <= n + 1
        BY <1>1
    <2> QED
        BY <1>2, <1>3, <2>1, <2>2, SamePayloadUpTo
<1>6. g[n + 1] = IF IsEndOfMessage(tlv) THEN g[n] ELSE Append(g[n], tlv)
    <2> HIDE DEF n
    <2>1. n + 1 \in 0 .. n + 1 /\ n + 1 # 0 /\ n + 1 - 1 = n
        BY <1>1
    <2>2. \A k \in 0 .. n + 1 :
             g[k] = IF k = 0 THEN << >>
                    ELSE IF IsEndOfMessage(longer[k]) THEN g[k - 1]
                                                      ELSE Append(g[k - 1], longer[k])
        BY <1>3, Zenon DEF IsPayloadUpTo
    <2> QED
        BY <1>1, <2>1, <2>2
<1> QED
    BY <1>4, <1>5, <1>6 DEF longer

(***************************************************************************)
(* A list that ends with an END_OF_MESSAGE, and what AddTlv makes of it.   *)
(***************************************************************************)
LEMMA EndTakenOut ==
    ASSUME NEW list \in Seq(Tlv), NEW tlv \in Tlv, EndsMessage(list)
    PROVE  \E front \in Seq(Tlv), end \in Tlv :
              /\ IsEndOfMessage(end)
              /\ list = Append(front, end)
              /\ WithoutRoomForEnd(list, tlv) = Append(front, tlv)
              /\ AddTlv(list, tlv) = Append(Append(front, tlv), end)
<1> DEFINE n == Len(list) - 1
           front == [k \in 1 .. n |-> list[k]]
           end == list[Len(list)]
<1>1. /\ Len(list) \in Nat /\ Len(list) >= 1 /\ n \in Nat /\ Len(list) = n + 1
      /\ IsEndOfMessage(end)
    BY DEF EndsMessage
<1>2. end \in Tlv
    <2>1. Len(list) \in 1 .. Len(list)
        BY <1>1
    <2> QED
        BY <2>1, HasElement
<1>3. /\ front \in Seq(Tlv) /\ Len(front) = n
      /\ \A k \in 1 .. n : front[k] = list[k]
    <2>1. \A k \in 1 .. n : k \in 1 .. Len(list)
        BY <1>1
    <2>2. \A k \in 1 .. n : list[k] \in Tlv
        BY <2>1, HasElement
    <2> QED
        BY <1>1, <2>2
<1>4. /\ WithoutRoomForEnd(list, tlv) \in Seq(Tlv)
      /\ Len(WithoutRoomForEnd(list, tlv)) = n + 1
      /\ WithoutRoomForEnd(list, tlv)[n + 1] = tlv
      /\ \A k \in 1 .. n : WithoutRoomForEnd(list, tlv)[k] = list[k]
    BY <1>1, WithoutRoomList
<1>5. /\ AddTlv(list, tlv) \in Seq(Tlv)
      /\ Len(AddTlv(list, tlv)) = n + 1 + 1
      /\ AddTlv(list, tlv)[n + 1] = tlv
      /\ AddTlv(list, tlv)[n + 1 + 1] = end
      /\ \A k \in 1 .. n : AddTlv(list, tlv)[k] = list[k]
    <2> DEFINE new == AddTlv(list, tlv)
    <2>1. /\ new \in Seq(Tlv)
          /\ Len(new) = Len(list) + 1
          /\ new[Len(list)] = tlv
          /\ new[Len(list) + 1] = end
          /\ \A k \in 1 .. Len(list) - 1 : new[k] = list[k]
        BY AddTlvList
    <2> HIDE DEF new, end
    <2>2. Len(list) = n + 1 /\ Len(list) - 1 = n
        BY <1>1
    <2>3. /\ new \in Seq(Tlv) /\ Len(new) = n + 1 + 1 /\ new[n + 1] = tlv
          /\ new[n + 1 + 1] = end /\ \A k \in 1 .. n : new[k] = list[k]
        <3> HIDE DEF n
        <3> QED
            BY <2>1, <2>2
    <2> QED
        BY <2>3 DEF new
<1>6. \A d \in Tlv : /\ Append(front, d) \in Seq(Tlv)
                     /\ Len(Append(front, d)) = n + 1
                     /\ Append(front, d)[n + 1] = d
                     /\ \A k \in 1 .. n : Append(front, d)[k] = list[k]
    <2> HIDE DEF front, n
    <2> QED
        BY <1>1, <1>3
<1>7. list[n + 1] = end
    BY <1>1
<1> HIDE DEF front, end, n
<1>8. \A k \in 1 .. n + 1 : k \in 1 .. n \/ k = n + 1
    BY <1>1
<1>9. list = Append(front, end)
    <2>1. \A k \in 1 .. Len(list) : list[k] = Append(front, end)[k]
        BY <1>1, <1>2, <1>6, <1>7, <1>8
    <2> QED
        BY <1>1, <1>2, <1>6, <2>1, SameElements
<1>10. WithoutRoomForEnd(list, tlv) = Append(front, tlv)
    <2> DEFINE s == WithoutRoomForEnd(list, tlv)
               t == Append(front, tlv)
    <2>1. s \in Seq(Tlv) /\ t \in Seq(Tlv) /\ Len(s) = Len(t)
        BY <1>4, <1>6
    <2>2. \A k \in 1 .. Len(s) : s[k] = t[k]
        BY <1>4, <1>6, <1>8
    <2> HIDE DEF s, t
    <2>3. s = t
        BY <2>1, <2>2, SameElements
    <2> QED
        BY <2>3 DEF s, t
<1>11. AddTlv(list, tlv) = Append(Append(front, tlv), end)
    <2> DEFINE s == AddTlv(list, tlv)
               inner == Append(front, tlv)
               t == Append(inner, end)
    <2>1. /\ inner \in Seq(Tlv) /\ Len(inner) = n + 1 /\ inner[n + 1] = tlv
          /\ \A k \in 1 .. n : inner[k] = list[k]
        BY <1>6
    <2> HIDE DEF inner
    <2>2. /\ t \in Seq(Tlv) /\ Len(t) = n + 1 + 1 /\ t[n + 1 + 1] = end
          /\ \A k \in 1 .. n + 1 : t[k] = inner[k]
        BY <1>1, <1>2, <2>1
    <2>3. \A k \in 1 .. n + 1 + 1 : k \in 1 .. n \/ k = n + 1 \/ k = n + 1 + 1
        BY <1>1
    <2> HIDE DEF s, t
    <2>4. s \in Seq(Tlv) /\ Len(s) = n + 1 + 1
        BY <1>5 DEF s
    <2>5. \A k \in 1 .. Len(s) : s[k] = t[k]
        BY <1>5, <1>8, <2>1, <2>2, <2>3, <2>4 DEF s
    <2>6. s = t
        BY <2>2, <2>4, <2>5, SameElements
    <2> QED
        BY <2>6 DEF s, t, inner
<1> QED
    BY <1>1, <1>2, <1>3, <1>9, <1>10, <1>11

(***************************************************************************)
(* A call that takes a TLV, whether it returns or throws, puts it behind   *)
(* the payload.                                                            *)
(***************************************************************************)
LEMMA PayloadOfAddTlv ==
    ASSUME NEW list \in Seq(Tlv), NEW tlv \in Tlv
    PROVE  /\ PayloadTlvs(AddTlv(list, tlv)) = PayloadTlvs(Append(list, tlv))
           /\ EndsMessage(list) =>
                 PayloadTlvs(WithoutRoomForEnd(list, tlv)) = PayloadTlvs(Append(list, tlv))
<1>1. CASE EndsMessage(list)
    <2>1. PICK front \in Seq(Tlv), end \in Tlv :
              /\ IsEndOfMessage(end)
              /\ list = Append(front, end)
              /\ WithoutRoomForEnd(list, tlv) = Append(front, tlv)
              /\ AddTlv(list, tlv) = Append(Append(front, tlv), end)
        BY <1>1, EndTakenOut
    <2>2. Append(front, tlv) \in Seq(Tlv)
        OBVIOUS
    <2>3. PayloadTlvs(list) = PayloadTlvs(front)
        BY <2>1, PayloadOfAppend
    <2>4. PayloadTlvs(AddTlv(list, tlv)) = PayloadTlvs(Append(front, tlv))
        BY <2>1, <2>2, PayloadOfAppend
    <2>5. PayloadTlvs(Append(front, tlv)) = PayloadTlvs(Append(list, tlv))
        <3>1. PayloadTlvs(Append(front, tlv)) =
                  IF IsEndOfMessage(tlv) THEN PayloadTlvs(front)
                                         ELSE Append(PayloadTlvs(front), tlv)
            BY PayloadOfAppend
        <3>2. PayloadTlvs(Append(list, tlv)) =
                  IF IsEndOfMessage(tlv) THEN PayloadTlvs(list)
                                         ELSE Append(PayloadTlvs(list), tlv)
            BY PayloadOfAppend
        <3> QED
            BY <2>3, <3>1, <3>2, Zenon
    <2> QED
        BY <2>1, <2>4, <2>5
<1>2. CASE ~EndsMessage(list)
    BY <1>2 DEF AddTlv
<1> QED
    BY <1>1, <1>2

LEMMA TookKeepsOrder ==
    ASSUME TypeOK, PayloadInOrder, NEW tlv \in Tlv, Took(tlv),
           PayloadTlvs(m_tlvs') = PayloadTlvs(Append(m_tlvs, tlv))
    PROVE  PayloadInOrder'
<1>1. m_tlvs \in Seq(Tlv) /\ accepted \in Seq(Tlv)
    BY DEF TypeOK
<1>2. accepted' = Append(accepted, tlv)
    BY DEF Took
<1>3. PayloadTlvs(Append(m_tlvs, tlv)) =
          IF IsEndOfMessage(tlv) THEN PayloadTlvs(m_tlvs) ELSE Append(PayloadTlvs(m_tlvs), tlv)
    BY <1>1, PayloadOfAppend
<1>4. PayloadTlvs(Append(accepted, tlv)) =
          IF IsEndOfMessage(tlv) THEN PayloadTlvs(accepted) ELSE Append(PayloadTlvs(accepted), tlv)
    BY <1>1, PayloadOfAppend
<1> QED
    BY <1>2, <1>3, <1>4 DEF PayloadInOrder

LEMMA NextPayloadInOrder ==
    ASSUME TypeOK, PayloadInOrder, [Next]_vars
    PROVE  PayloadInOrder'
<1>1. m_tlvs \in Seq(Tlv)
    BY DEF TypeOK
<1>2. ASSUME NEW type \in Types, NEW value \in Values, AddTlvReturns(type, value)
      PROVE  PayloadInOrder'
    <2> DEFINE tlv == [type |-> type, value |-> value]
    <2>1. tlv \in Tlv /\ m_tlvs' = AddTlv(m_tlvs, tlv) /\ Took(tlv)
        BY <1>2, Constructed DEF AddTlvReturns
    <2> HIDE DEF tlv
    <2> QED
        BY <1>1, <2>1, PayloadOfAddTlv, TookKeepsOrder
<1>3. ASSUME NEW type \in Types, NEW value \in Values, AddTlvThrows(type, value),
             EndsMessage(m_tlvs)
      PROVE  PayloadInOrder'
    <2> DEFINE tlv == [type |-> type, value |-> value]
    <2>1. tlv \in Tlv /\ m_tlvs' = WithoutRoomForEnd(m_tlvs, tlv) /\ Took(tlv)
        BY <1>3, Constructed DEF AddTlvThrows
    <2> HIDE DEF tlv
    <2> QED
        BY <1>1, <1>3, <2>1, PayloadOfAddTlv, TookKeepsOrder
<1>4. ASSUME UNCHANGED << m_tlvs, accepted >> PROVE PayloadInOrder'
    BY <1>4 DEF PayloadInOrder
<1> QED
    BY <1>2, <1>3, <1>4 DEF Next, vars, ConstructorThrows, AddTlvThrows, Lookup

(***************************************************************************)
(* However often the END_OF_MESSAGE is moved behind them, and whichever    *)
(* calls of AddTlv throw, the TLVs that were taken are in the list, each   *)
(* once and in the order of the calls.                                     *)
(***************************************************************************)
THEOREM OrderIsKept == Spec => []PayloadInOrder
<1>1. Init => PayloadInOrder
    BY DEF Init, PayloadInOrder
<1>2. TypeOK /\ PayloadInOrder /\ [Next]_vars => PayloadInOrder'
    BY NextPayloadInOrder
<1> QED
    BY <1>1, <1>2, TypeCorrect, PTL DEF Spec

=============================================================================
