-------------------------------- MODULE Cmdu --------------------------------
(***************************************************************************)
(* A Cmdu object in the hands of its caller: Tlv objects are constructed   *)
(* and added one by one, and looked up; the caller may keep the pointer    *)
(* that FindTlv gave it while it goes on adding.                           *)
(*                                                                         *)
(* AddTlv has one step that can fail after it has changed the list: with   *)
(* an END_OF_MESSAGE at the end it takes that out, puts the new TLV in its *)
(* place, and puts the END_OF_MESSAGE back, and the vector may have to     *)
(* grow for it (cmdu.cpp:34).  When that throws std::bad_alloc the         *)
(* END_OF_MESSAGE is gone and the new TLV is there.                        *)
(*                                                                         *)
(* allocation, accepted, ends and failures are history variables.          *)
(***************************************************************************)
EXTENDS Wire

CONSTANTS
    Types,          \* the types of the TLVs that are added
    Values,         \* their values, some of them too long for a TLV
    MaxCalls        \* a bound on the calls of AddTlv, for TLC

ASSUME TypesAssumption == Types \subseteq Byte

ASSUME ValuesAssumption == Values \subseteq Seq(Byte)

ASSUME MaxCallsAssumption == MaxCalls \in Nat

VARIABLES
    m_tlvs,
    capacity,       \* of the vector
    allocation,     \* history: how often the vector has moved to other storage
    held,           \* the pointer of the caller's last FindTlv, or {} for nullptr
    accepted,       \* history: the TLVs AddTlv took, in the order of the calls
    ends,           \* history: how many of them were an END_OF_MESSAGE
    failures,       \* history: how many calls threw std::bad_alloc
    thrown,         \* the exception of the last call, or "none"
    calls           \* how many calls there have been

vars == << m_tlvs, capacity, allocation, held, accepted, ends, failures, thrown, calls >>

Init ==
    /\ m_tlvs = << >>
    /\ capacity = 0
    /\ allocation = 0
    /\ held = {}
    /\ accepted = << >>
    /\ ends = 0
    /\ failures = 0
    /\ thrown = "none"
    /\ calls = 0

-----------------------------------------------------------------------------

(***************************************************************************)
(* FindTlv: the pointer it returns, with what it points at.                *)
(***************************************************************************)
Lookup(type) ==
    /\ held' = {[home |-> allocation, index |-> k, found |-> m_tlvs[k]]
                   : k \in FirstAt(m_tlvs, type)}
    /\ UNCHANGED << m_tlvs, capacity, allocation, accepted, ends, failures, thrown, calls >>

-----------------------------------------------------------------------------
(* AddTlv(Tlv(type, value)) *)

MayCall == calls < MaxCalls

Took(tlv) ==
    /\ accepted' = Append(accepted, tlv)
    /\ ends' = IF IsEndOfMessage(tlv) THEN ends + 1 ELSE ends

(***************************************************************************)
(* The constructor of Tlv throws.                                          *)
(***************************************************************************)
ConstructorThrows(type, value) ==
    /\ MayCall
    /\ ~FitsTlv(value)
    /\ thrown' = "length_error"
    /\ calls' = calls + 1
    /\ UNCHANGED << m_tlvs, capacity, allocation, held, accepted, ends, failures >>

(***************************************************************************)
(* push_back moves the TLVs to larger storage when the vector is full, and *)
(* pop_back gives none back, so AddTlv allocates at most once.             *)
(***************************************************************************)
Full == Len(m_tlvs) = capacity

Grown == Len(m_tlvs) + 1 .. 2 * Len(m_tlvs) + 1

MakeRoom ==
    IF Full
    THEN capacity' \in Grown /\ allocation' = allocation + 1
    ELSE UNCHANGED << capacity, allocation >>

AddTlvReturns(type, value) ==
    /\ MayCall
    /\ FitsTlv(value)
    /\ LET tlv == [type |-> type, value |-> value]
       IN  /\ m_tlvs' = AddTlv(m_tlvs, tlv)
           /\ Took(tlv)
    /\ MakeRoom
    /\ thrown' = "none"
    /\ calls' = calls + 1
    /\ UNCHANGED << held, failures >>

WithoutRoomForEnd(list, tlv) == [list EXCEPT ![Len(list)] = tlv]

(***************************************************************************)
(* The vector cannot grow.  push_back has the strong guarantee, so the     *)
(* list is as it was when the new TLV was to go at its end; otherwise the  *)
(* new TLV took the place pop_back left and it is the END_OF_MESSAGE that  *)
(* finds no room.                                                          *)
(***************************************************************************)
AddTlvThrows(type, value) ==
    /\ MayCall
    /\ FitsTlv(value)
    /\ Full
    /\ LET tlv == [type |-> type, value |-> value]
       IN  IF EndsMessage(m_tlvs)
           THEN /\ m_tlvs' = WithoutRoomForEnd(m_tlvs, tlv)
                /\ Took(tlv)
           ELSE UNCHANGED << m_tlvs, accepted, ends >>
    /\ failures' = failures + 1
    /\ thrown' = "bad_alloc"
    /\ calls' = calls + 1
    /\ UNCHANGED << capacity, allocation, held >>

Next ==
    \E type \in Types :
        \/ Lookup(type)
        \/ \E value \in Values :
              \/ ConstructorThrows(type, value)
              \/ AddTlvReturns(type, value)
              \/ AddTlvThrows(type, value)

Spec == Init /\ [][Next]_vars

-----------------------------------------------------------------------------
(* Properties *)

(***************************************************************************)
(* The variables have their types, the 16-bit length of a TLV in the list  *)
(* is that of its value, and the TLVs are in the vector's storage.         *)
(***************************************************************************)
TypeOK ==
    /\ m_tlvs \in Seq(Tlv)
    /\ \A k \in 1 .. Len(m_tlvs) : GetLength(m_tlvs[k]) = Len(m_tlvs[k].value)
    /\ capacity \in Nat /\ Len(m_tlvs) <= capacity
    /\ allocation \in Nat
    /\ held \subseteq [home : Nat, index : Nat \ {0}, found : Tlv]
    /\ accepted \in Seq(Tlv)
    /\ ends \in 0 .. calls
    /\ failures \in 0 .. calls
    /\ thrown \in {"none", "length_error", "bad_alloc"}
    /\ calls \in 0 .. MaxCalls

(* The TLVs of a list that are not an END_OF_MESSAGE, in its order. *)
PayloadTlvs(list) ==
    LET upTo[n \in 0 .. Len(list)] ==
            IF n = 0 THEN << >>
            ELSE IF IsEndOfMessage(list[n]) THEN upTo[n - 1]
                                            ELSE Append(upTo[n - 1], list[n])
    IN  upTo[Len(list)]

(***************************************************************************)
(* The TLVs before the END_OF_MESSAGE are those AddTlv took, each once and *)
(* in the order of the calls, however often the END_OF_MESSAGE was moved   *)
(* behind them and whatever call failed.                                   *)
(***************************************************************************)
PayloadInOrder == PayloadTlvs(m_tlvs) = PayloadTlvs(accepted)

(***************************************************************************)
(* A call that throws std::bad_alloc costs the CMDU no more than the       *)
(* END_OF_MESSAGE it had, and a call that does not throw costs it nothing: *)
(* no TLV that was taken is missing but for one per failed call, and while *)
(* no call has failed, a CMDU that was given an END_OF_MESSAGE ends with   *)
(* one.  (That it is never a TLV before the END_OF_MESSAGE that is missing *)
(* is PayloadInOrder.)                                                     *)
(***************************************************************************)
OnlyFailuresLoseTheEnd ==
    /\ Len(accepted) - Len(m_tlvs) <= failures
    /\ ends > 0 /\ failures = 0 => EndsMessage(m_tlvs)

(***************************************************************************)
(* A caller that adds one END_OF_MESSAGE, at any time, gets a CMDU with no *)
(* TLV after it, which is what Parse and Pack go by.                       *)
(***************************************************************************)
OneEndComesLast ==
    ends <= 1 => \A k \in 1 .. Len(m_tlvs) - 1 : ~IsEndOfMessage(m_tlvs[k])

(***************************************************************************)
(* "According to the 1905.1 standard, TLV_END_OF_MESSAGE must be the last  *)
(* TLV" (cmdu.cpp:23): whatever is added, no other TLV comes after one.    *)
(***************************************************************************)
EndOfMessageMustBeLast ==
    \A j, k \in 1 .. Len(m_tlvs) :
        j < k /\ IsEndOfMessage(m_tlvs[j]) => IsEndOfMessage(m_tlvs[k])

(***************************************************************************)
(* What FindTlv has found for a type, it finds again after any AddTlv: a   *)
(* TLV added later never comes before one of the same type.  (The END_OF_  *)
(* MESSAGE is the exception: a second one goes before the first.)          *)
(***************************************************************************)
FoundStaysFound ==
    [][\A type \in Types \ {EndOfMessage} :
          FindTlv(m_tlvs, type) # {} => FindTlv(m_tlvs', type) = FindTlv(m_tlvs, type)]_vars

(***************************************************************************)
(* A pointer that FindTlv returned, to a TLV other than END_OF_MESSAGE,    *)
(* still points at the TLV it found for as long as the vector has not      *)
(* moved, whatever was added since and whichever calls threw.  (In the     *)
(* place of an END_OF_MESSAGE there may be another TLV by then.)           *)
(***************************************************************************)
HeldPointsAtFound ==
    \A pointer \in held :
        pointer.home = allocation /\ ~IsEndOfMessage(pointer.found) =>
            pointer.index <= Len(m_tlvs) /\ m_tlvs[pointer.index] = pointer.found

=============================================================================
