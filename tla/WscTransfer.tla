---------------------------- MODULE WscTransfer -----------------------------
(***************************************************************************)
(* A WscMessage from one agent to another: its attributes are added, ToTlv *)
(* makes a TLV of it, the TLV is added to a CMDU before, between or after  *)
(* others, the CMDU is packed, goes over the wire and is parsed, FindTlv   *)
(* looks for the WSC TLV and a WscMessage is constructed from its value.   *)
(*                                                                         *)
(* The order is the caller's, for whom wsc.h and cmdu.h describe these     *)
(* operations.  The CMDU and its way are those of Codec, whose constant    *)
(* Cmdus plays no part here; the message's steps are those of Wsc.         *)
(***************************************************************************)
EXTENDS Codec

CONSTANTS
    Attributes, Values, WscMessagingTlv, MaxCalls,      \* of Wsc
    WscHeader,      \* the header of the CMDU that carries the message
    OtherTlvs,      \* the TLVs the caller may add besides its own
    MaxTlvs         \* a bound on the TLVs of a CMDU, for TLC

ASSUME AttributesAssumption ==
    \A name \in DOMAIN Attributes : Attributes[name] \in Uint16

ASSUME ValuesAssumption == Values \subseteq Seq(Byte)

ASSUME WscMessagingTlvAssumption == WscMessagingTlv \in Byte \ {EndOfMessage}

ASSUME MaxCallsAssumption == MaxCalls \in Nat

ASSUME WscHeaderAssumption == WscHeader \in Header

ASSUME OtherTlvsAssumption ==
    OtherTlvs \subseteq {other \in Tlv : FitsTlv(other.value)}

ASSUME MaxTlvsAssumption == MaxTlvs \in Nat

VARIABLES
    m_attributes, added, calls, tlv, raw, aptr, parsed, starts, own, wsc,   \* of Wsc
    m_tlvs,         \* of the CMDU the caller makes
    accepted        \* history: the TLVs it added, in the order of the calls

messageVars == << m_attributes, added, calls, tlv, raw, aptr, parsed, starts, own, wsc >>

callerVars == << m_tlvs, accepted >>

wscVars == << messageVars, callerVars, vars >>

Message ==
    INSTANCE Wsc
        WITH Foreign <- {}, ptr <- aptr, offsets <- starts, at <- wsc

CmduOf(list) == [header |-> WscHeader, tlvs |-> list]

(* The caller has not yet called Pack. *)
NotPacking ==
    /\ cmdu = CmduOf(<< >>)
    /\ total_size = 0
    /\ packet = << >>
    /\ wptr = 1
    /\ i = 1
    /\ rooms = << >>
    /\ sender = "idle"

WscInit ==
    /\ Message!Init
    /\ m_tlvs = << >>
    /\ accepted = << >>
    /\ NotPacking
    /\ Waiting

-----------------------------------------------------------------------------
(* The sender *)

BuildMessage ==
    /\ \/ \E name \in DOMAIN Attributes, value \in Values :
             Message!AddAttribute(name, value)
       \/ Message!ToTlv
    /\ UNCHANGED << callerVars, vars >>

AddToCmdu(new) ==
    /\ wsc = "made"
    /\ sender = "idle"
    /\ Len(m_tlvs) < MaxTlvs
    /\ m_tlvs' = AddTlv(m_tlvs, new)
    /\ accepted' = Append(accepted, new)
    /\ UNCHANGED << messageVars, vars >>

AddOther == \E other \in OtherTlvs : AddToCmdu(other)

AddOwn == \E made \in tlv : AddToCmdu(made)

CallPack ==
    /\ wsc = "made"
    /\ sender = "idle"
    /\ Sender!Enter(CmduOf(m_tlvs))
    /\ UNCHANGED << messageVars, callerVars, parseVars >>

-----------------------------------------------------------------------------
(* The channel and the receiver *)

CarryCmdu == Next /\ UNCHANGED << messageVars, callerVars >>

ReadFound ==
    /\ receiver = "return"
    /\ wsc = "made"
    /\ \E found \in FindTlv(tlvs, WscMessagingTlv) :
          /\ Message!EnterParseAttributes(found.value)
          /\ own' = (found \in tlv)
    /\ UNCHANGED << m_attributes, added, calls, tlv, callerVars, vars >>

FindsNone ==
    /\ receiver = "return"
    /\ wsc = "made"
    /\ FindTlv(tlvs, WscMessagingTlv) = {}
    /\ wsc' = "nullptr"
    /\ UNCHANGED << m_attributes, added, calls, tlv, raw, aptr, parsed, starts, own,
                    callerVars, vars >>

ReadMessage ==
    /\ \/ Message!ParseAttribute
       \/ Message!ParseReturns
       \/ Message!ParseThrows
    /\ UNCHANGED << callerVars, vars >>

WscNext ==
    \/ BuildMessage
    \/ AddOther
    \/ AddOwn
    \/ CallPack
    \/ CarryCmdu
    \/ ReadFound
    \/ FindsNone
    \/ ReadMessage

WscSpec == WscInit /\ [][WscNext]_wscVars

-----------------------------------------------------------------------------
(* Properties *)

(* The first WSC TLV of a list is its k-th. *)
FirstWscAt(list, k) ==
    /\ k \in 1 .. Len(list)
    /\ list[k].type = WscMessagingTlv
    /\ \A j \in 1 .. k - 1 : list[j].type # WscMessagingTlv

(***************************************************************************)
(* The message a receiver reads is that of the WSC TLV the sender added    *)
(* first, wherever among the others and whatever END_OF_MESSAGEs came      *)
(* before it; if that is the one ToTlv made, the receiver reads the        *)
(* attributes the sender gave, each under its code, and no others.         *)
(***************************************************************************)
AttributesArrive ==
    wsc = "return" =>
        \E k \in 1 .. Len(accepted) :
            /\ FirstWscAt(accepted, k)
            /\ raw = accepted[k].value
            /\ accepted[k] \in tlv =>
                  /\ DOMAIN parsed = {Attributes[name] : name \in DOMAIN added}
                  /\ \A name \in DOMAIN added : parsed[Attributes[name]] = added[name]

HasWsc(list) == \E k \in 1 .. Len(list) : list[k].type = WscMessagingTlv

HasTwoEnds(list) ==
    \E j, k \in 1 .. Len(list) :
        j < k /\ IsEndOfMessage(list[j]) /\ IsEndOfMessage(list[k])

(***************************************************************************)
(* A receiver that gets the CMDU finds a WSC TLV in it if the sender added *)
(* one, wherever in the list, unless END_OF_MESSAGE was added twice; and   *)
(* the message it reads is never refused if the sender added first a TLV   *)
(* that ToTlv made.                                                        *)
(***************************************************************************)
WscIsFound ==
    /\ wsc = "nullptr" => ~HasWsc(accepted) \/ HasTwoEnds(accepted)
    /\ wsc = "runtime_error" =>
          \A k \in 1 .. Len(accepted) :
              FirstWscAt(accepted, k) => accepted[k] \notin tlv

=============================================================================
