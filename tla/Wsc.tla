-------------------------------- MODULE Wsc ---------------------------------
(***************************************************************************)
(* WscMessage: a map of attributes that a caller fills, turns into a TLV,  *)
(* and that the receiver builds again from the value of the TLV; or that a *)
(* receiver builds from the value of any other device's TLV.               *)
(*                                                                         *)
(* A step is a call, or one turn of the loop of ParseAttributes.  added,   *)
(* offsets and own are history variables.  How the TLV gets from one to    *)
(* the other is for WscTransfer.                                           *)
(***************************************************************************)
EXTENDS Wire, SequencesExt

CONSTANTS
    Attributes,     \* the codes of the attributes, by the names callers use
    Values,         \* the values they are given
    Foreign,        \* the values of other devices' WSC TLVs
    WscMessagingTlv,    \* the type of a TLV that carries a message, 17
    MaxCalls        \* a bound on the calls of AddAttribute, for TLC

Names == DOMAIN Attributes

ASSUME AttributesAssumption == \A name \in Names : Attributes[name] \in Uint16

ASSUME ValuesAssumption == Values \subseteq Seq(Byte)

ASSUME ForeignAssumption == Foreign \subseteq Seq(Byte)

ASSUME WscMessagingTlvAssumption == WscMessagingTlv \in Byte

ASSUME MaxCallsAssumption == MaxCalls \in Nat

VARIABLES
    m_attributes,   \* of the message being built
    added,          \* history: what the caller last gave each name
    calls,
    tlv,            \* what ToTlv made of it, once it has
    raw, ptr,       \* the locals of ParseAttributes
    parsed,         \* m_attributes of the message that is read
    offsets,        \* history: where the attributes read so far start
    own,            \* history: raw came from ToTlv
    at              \* what is being done

buildVars == << m_attributes, added, calls, tlv >>

parseVars == << raw, ptr, parsed, offsets, own >>

vars == << buildVars, parseVars, at >>

Empty == << >>

Init ==
    /\ m_attributes = Empty
    /\ added = Empty
    /\ calls = 0
    /\ tlv = {}
    /\ raw = << >>
    /\ ptr = 1
    /\ parsed = Empty
    /\ offsets = << >>
    /\ own = FALSE
    /\ at = "build"

-----------------------------------------------------------------------------

(* m[key] = value of a std::map. *)
With(m, key, value) ==
    [k \in DOMAIN m \union {key} |-> IF k = key THEN value ELSE m[k]]

AttributeHeaderSize == 4

(* The names of wsc.h, and their codes. *)
WscAttributes ==
    [WSC_VERSION |-> 4170, WSC_STATE |-> 4170, WSC_AUTHENTICATION |-> 4100,
     WSC_SSID |-> 4165]

GetAttributeValue(m, type) == IF type \in DOMAIN m THEN m[type] ELSE << >>

AttributeBytes(m, type) ==
    << HighByte(type), LowByte(type),
       HighByte(Len(m[type]) % (Base * Base)), LowByte(Len(m[type]) % (Base * Base)) >>
    \o m[type]

(* A std::map is in the order of its keys. *)
InOrder(keys) ==
    CHOOSE order \in [1 .. Cardinality(keys) -> keys] :
        \A j, k \in 1 .. Cardinality(keys) : j < k => order[j] < order[k]

PackAttributes(m) ==
    LET order == InOrder(DOMAIN m)
    IN  FlattenSeq([k \in 1 .. Cardinality(DOMAIN m) |-> AttributeBytes(m, order[k])])

-----------------------------------------------------------------------------
(* Building a message *)

Assigned_KeepsOld(m, type, value) ==
    IF type \in DOMAIN m THEN m ELSE With(m, type, value)

Assigned(m, type, value) == With(m, type, value)

AddAttribute(name, value) ==
    /\ at = "build"
    /\ calls < MaxCalls
    /\ FitsTlv(value)
    /\ m_attributes' = Assigned(m_attributes, Attributes[name], value)
    /\ added' = With(added, name, value)
    /\ calls' = calls + 1
    /\ UNCHANGED << tlv, parseVars, at >>

AddAttributeThrows(name, value) ==
    /\ at = "build"
    /\ calls < MaxCalls
    /\ ~FitsTlv(value)
    /\ calls' = calls + 1
    /\ UNCHANGED << m_attributes, added, tlv, parseVars, at >>

ToTlv ==
    /\ at = "build"
    /\ FitsTlv(PackAttributes(m_attributes))
    /\ tlv' = {[type |-> WscMessagingTlv, value |-> PackAttributes(m_attributes)]}
    /\ at' = "made"
    /\ UNCHANGED << m_attributes, added, calls, parseVars >>

(* The constructor of Tlv refuses the packed attributes. *)
ToTlvThrows ==
    /\ at = "build"
    /\ ~FitsTlv(PackAttributes(m_attributes))
    /\ at' = "length_error"
    /\ UNCHANGED << buildVars, parseVars >>

-----------------------------------------------------------------------------
(* Reading one *)

(***************************************************************************)
(* WscMessage(data): here with the value of the TLV that was made, or with *)
(* that of another device's.                                               *)
(***************************************************************************)
EnterParseAttributes(data) ==
    /\ raw' = data
    /\ ptr' = 1
    /\ parsed' = Empty
    /\ offsets' = << >>
    /\ at' = "parse"

ReadOwn ==
    /\ at = "made"
    /\ \E made \in tlv : EnterParseAttributes(made.value)
    /\ own' = TRUE
    /\ UNCHANGED buildVars

ReadForeign ==
    /\ at = "build"
    /\ calls = 0
    /\ \E data \in Foreign : EnterParseAttributes(data)
    /\ own' = FALSE
    /\ UNCHANGED buildVars

AttributeHeaderFits == Len(raw) + 1 - ptr >= AttributeHeaderSize

AttributeLength(p) == Uint16At(raw, p + 2)

AttributeFits_Unchecked == TRUE

AttributeFits_Strict ==
    Len(raw) + 1 - (ptr + AttributeHeaderSize) > AttributeLength(ptr)

AttributeFits ==
    Len(raw) + 1 - (ptr + AttributeHeaderSize) >= AttributeLength(ptr)

ParseThrows ==
    /\ at = "parse"
    /\ ptr <= Len(raw)
    /\ ~AttributeHeaderFits \/ ~AttributeFits
    /\ at' = "runtime_error"
    /\ UNCHANGED << buildVars, parseVars >>

AttributeValue(p) == BytesAt(raw, p + AttributeHeaderSize, AttributeLength(p))

ParsedWith_FirstWins(type, value) ==
    IF type \in DOMAIN parsed THEN parsed ELSE With(parsed, type, value)

ParsedWith(type, value) == With(parsed, type, value)

ParseAttribute ==
    /\ at = "parse"
    /\ ptr <= Len(raw)
    /\ AttributeHeaderFits /\ AttributeFits
    /\ parsed' = ParsedWith(Uint16At(raw, ptr), AttributeValue(ptr))
    /\ offsets' = Append(offsets, ptr)
    /\ ptr' = ptr + AttributeHeaderSize + AttributeLength(ptr)
    /\ UNCHANGED << buildVars, raw, own, at >>

ParseReturns ==
    /\ at = "parse"
    /\ ptr > Len(raw)
    /\ at' = "return"
    /\ UNCHANGED << buildVars, parseVars >>

Next ==
    \/ \E name \in Names, value \in Values :
          AddAttribute(name, value) \/ AddAttributeThrows(name, value)
    \/ ToTlv
    \/ ToTlvThrows
    \/ ReadOwn
    \/ ReadForeign
    \/ ParseThrows
    \/ ParseAttribute
    \/ ParseReturns

Spec == Init /\ [][Next]_vars

-----------------------------------------------------------------------------
(* Properties *)

IsAttributes(m) == DOMAIN m \subseteq Uint16 /\ \A type \in DOMAIN m : m[type] \in Seq(Byte)

(* The maps and the locals have their types. *)
TypeOK ==
    /\ IsAttributes(m_attributes) /\ IsAttributes(parsed)
    /\ DOMAIN added \subseteq Names
    /\ calls \in 0 .. MaxCalls
    /\ \A made \in tlv : made \in Tlv /\ FitsTlv(made.value)
    /\ raw \in Seq(Byte) /\ ptr \in 1 .. Len(raw) + 1
    /\ offsets \in Seq(1 .. Len(raw))
    /\ own \in BOOLEAN
    /\ at \in {"build", "made", "length_error", "parse", "return", "runtime_error"}

(***************************************************************************)
(* What a caller last gave an attribute is what the receiver of the TLV    *)
(* gets for it, and nothing for one that was never given: attributes       *)
(* neither overwrite nor shadow each other, in the map or on the wire.     *)
(***************************************************************************)
ReadsWhatWasAdded ==
    at = "return" /\ own =>
        \A name \in Names :
            GetAttributeValue(parsed, Attributes[name]) =
                GetAttributeValue(added, name)

(***************************************************************************)
(* The receiver refuses no message that ToTlv made.  ToTlv makes one       *)
(* whenever the attributes fit a TLV, and only then: the 16-bit length of  *)
(* the TLV, which is what is packed, is that of all the attributes.        *)
(***************************************************************************)
OwnMessagesAreRead ==
    /\ own => at # "runtime_error"
    /\ \A made \in tlv : GetLength(made) = Len(made.value)
    /\ at = "length_error" => Len(PackAttributes(m_attributes)) >= Base * Base

(***************************************************************************)
(* A message that is read holds the attributes of the bytes, which lie one *)
(* after the other from the first byte to the last, and no others; of an   *)
(* attribute that comes twice, the last.                                   *)
(***************************************************************************)
ReadsWhatTheBytesHold ==
    at = "return" =>
        /\ IF offsets = << >> THEN raw = << >> ELSE offsets[1] = 1
        /\ DOMAIN parsed = {Uint16At(raw, offsets[k]) : k \in 1 .. Len(offsets)}
        /\ \A k \in 1 .. Len(offsets) :
              /\ offsets[k] + AttributeHeaderSize + AttributeLength(offsets[k])
                     = (IF k = Len(offsets) THEN Len(raw) + 1 ELSE offsets[k + 1])
              /\ (\A j \in k + 1 .. Len(offsets) :
                     Uint16At(raw, offsets[j]) # Uint16At(raw, offsets[k]))
                 => parsed[Uint16At(raw, offsets[k])] = AttributeValue(offsets[k])

=============================================================================
