# A verification of the IEEE 1905.1 library

TLA+ models of the code under `src/`, TLC runs that check them on small
instances, and TLAPS proofs of what the library's functions and the two threads
that call them promise for every instance. File names below are those of `src/src/` and `src/include/ieee1905_1/`.

## The system

The library builds, sends, receives and takes apart the control messages
(CMDUs) of IEEE 1905.1: a header of eight bytes and a list of TLVs (a one-byte
type, a two-byte length, a value) that ends with END_OF_MESSAGE.

| part | state | operations | makes it correct |
|---|---|---|---|
| `Tlv` (tlv.cpp) | a type and a value | construct (throws above 65535 bytes), read | the 16-bit length is that of the value |
| `Cmdu` (cmdu.cpp) | the header's fields, a vector of TLVs | `AddTlv`, `FindTlv` | the order of the calls is kept; END_OF_MESSAGE stays last, and only a call that throws loses it; what was found is found again, and the pointer to it is good until the vector moves |
| `MessageParser` (parser.cpp) | locals of `Parse`: a pointer into the packet and the CMDU so far | `Parse`: bytes to a CMDU, or an exception | returns exactly what the packet holds, refuses exactly the packets that hold no CMDU, reads no byte outside, comes back |
| `MessageSerializer` (serializer.cpp) | locals of `Pack`: a size, a buffer, a raw pointer into it | `Pack`: a CMDU to bytes | what is written is what was allocated, and is the CMDU |
| `Ieee1905Agent` (agent.cpp) | the next message identifier; `rx_buffer` in `Start` | `Start` (the receive loop), `HandleCmdu` and a `Process` function for each message type, `SendTopologyDiscovery`, 18 other `Send` functions that only log | no bytes of an earlier packet are read, the loop survives every packet, a message is handled as it was sent, identifiers come again as late as they can |
| `InterfaceManager` (interface_manager.cpp) | a socket that is never opened | `SendPacket`, `ReceivePacket`: stubs around commented-out `sendto()` and `recv()` | |
| `WscMessage` (wsc.cpp) | a map from attribute codes to values | `AddAttribute`, `ToTlv`, the constructor from bytes, `GetAttributeValue` | the receiver reads what the sender added |
| `LldpPdu` (lldp.cpp) | a vector of TLVs | `AddTlv`, `GetPackedSize` | every TLV fits a 7-bit type and a 9-bit length |
| `Logger` (logger.cpp) | the spdlog logger | set up once, write | |

`SendTopologyDiscovery` makes a `Cmdu`, packs it and calls `SendPacket`. `Start`
calls `ReceivePacket`, which writes into `rx_buffer` and returns a length, copies
that many bytes, parses the copy and calls `HandleCmdu`; any exception is caught
in the loop. `Start` never returns, so whoever sends does it on another thread;
the two share the socket (`m_iface_manager`), while `m_next_message_id` is the
sending thread's alone. `Parse` builds its result with
`Cmdu::AddTlv`. WSC messages travel in the value of a TLV. `LldpPdu` uses `Tlv`
for TLVs of another protocol, whose header is narrower.

What is hard here: the agreement of two loops of `Pack` on a size that nothing
checks afterwards; the lengths in a packet, which another device chose and which
decide how far `Parse` reads; padding after END_OF_MESSAGE; a receive buffer that
outlives the packet in it and that may be too short; a wire that loses, repeats
and reorders; exceptions between two steps of a change (`AddTlv`,
`SendTopologyDiscovery`) or in the middle of a packet; pointers into a vector
that grows; fragments, which nothing puts together; counters and lengths at their 8-, 9-, 16-bit limits. `PROJECT.json` lists these places as
hazards, each with the properties that would catch it going wrong. One has none:
a fragment goes to its handler as if it were the message (agent.cpp:141), and as
nothing in the repository says what should become of it, no property can call that
wrong.

## The modules

`Base`, in every module, is the number of values of a byte: 256 in the program.
Every field's width scales with it (a length is two bytes, `0 .. Base^2 - 1`), so
that TLC can take `Base = 2`, where a length still has a high byte and a buffer
of 17 bytes has few enough values to try them all. The proofs hold for every
`Base >= 2`.

* **Wire** is the vocabulary: bytes, 16-bit integers in network byte order, TLVs,
  headers, `AddTlv` and `FindTlv` as functions on lists, and how TLVs lie in a
  buffer.
  `LiesIn(buffer, tlvs, offsets)` says that the TLVs lie one after the other;
  `HoldsCmdu(buffer)` says, without following Parse's loop, that some set of
  positions is a chain of whole TLVs that ends in an END_OF_MESSAGE.
* **Parser** is `Parse`. Its variables are the function's locals and a history of
  the positions where TLVs started. One action for the header, one for a turn of
  the loop, one for each `throw`, one for the return.
* **Serializer** is `Pack`: a turn of the first loop, the closing TLV's size, the
  allocation, the header, a turn of the second loop, the closing TLV. A write
  outside the buffer is lost in the model; `WritesInBounds` says there is none.
* **Codec** composes the two: one CMDU is packed, the wire may pad the packet,
  the receive buffer may cut it, and it is parsed. It uses the two modules by
  `INSTANCE`, so their steps are the ones that the proofs are about.
* **CmduTransfer** is what the two functions promise their callers: the packet of
  a CMDU arrives whole or cut, and the CMDU is received as its message (the TLVs up
  to its first END_OF_MESSAGE, one added if it has none) or refused. `Codec` is
  shown to implement it (property `Transfers`): the refinement mapping takes
  the packet as whole when it reaches the end of the first END_OF_MESSAGE. That a
  packet arrives the two functions cannot promise; that one that has arrived is
  received or refused, they do.
* **Cmdu** is a `Cmdu` object and a caller who adds TLVs, some too long for a
  `Tlv`, looks one up at any time and keeps the pointer. The vector moves when it
  is full, to a capacity the library's implementation chooses (`Grown`).
  When `AddTlv` has taken END_OF_MESSAGE out and the vector cannot grow,
  `std::bad_alloc` leaves the list without it (cmdu.cpp:34): `AddTlvThrows`.
* **Agent** composes `Parse` and `Pack` with the loop of `Start` and with
  `SendTopologyDiscovery`, as two threads whose steps interleave in any order.
  The packets on the wire are a set from which any may be received any number of
  times (loss, repetition, reordering). `rx_buffer` keeps what a shorter packet
  does not overwrite. Memory may be short in either thread: `CatchBadAlloc` ends
  a turn of the loop after the copy of the packet or any number of its TLVs,
  `SendThrows` ends a call whose identifier is already taken. The parsed `Cmdu`
  lives until its handler returns. What `sendto()` and `recv()` do is not in the
  repository and is modelled from the stubs' comments and signatures, as external.
* **MessageService** is what the loop of `Start` promises whoever writes the
  handlers: every packet is taken by itself and makes one message, which goes to
  its handler once or, for a type without one, nowhere; only a packet that holds
  no message is refused, and only for want of memory is another one lost.
  `Agent` is shown to implement it (property `ServesMessages`): the refinement
  mapping shows of the receiving thread's state only the phase of the packet, the
  packet as it arrived, and from the return of `Parse` on the message. The
  service knows no fragments: neither does the code, so each is a message.
* **Wsc** is a `WscMessage` that is filled, turned into a TLV and read at the
  other end, or read from another device's TLV.
* **WscTransfer** takes a `WscMessage` all the way: `ToTlv`, `AddTlv` before,
  between or after other TLVs, `Codec`, `FindTlv` and the constructor from bytes.
  It extends `Codec`, whose CMDU is here the one the caller makes, and takes the
  message's steps from `Wsc` by `INSTANCE`; the order of the calls is the caller's
  and what wsc.h and cmdu.h describe.
* **Lldp** is an `LldpPdu` and its caller.
* **WireProofs, ParserProofs, SerializerProofs, CmduProofs, WscProofs, LldpProofs,
  AgentProofs** hold the proofs about the module of that name, **TransferProofs** those
  about `Codec` and `WscTransfer`.
* **MC...** modules give the constants their values for TLC.

Operators with a suffix (`AfterTlv_NoBreak`, `FitsTlvUnchecked`) are versions of
the definition that follows them with a plausible bug; no specification uses
them. They show that each property can fail: replacing the definition by its
faulty version makes TLC find the property violated.

## The runs

| run | question | bounds | states |
|---|---|---|---|
| parser | `TypeOK`, `ReturnsWhatTheBufferHolds`, `ThrowsOnlyWithoutCmdu`, `Terminates` | all buffers shorter than a header; two headers with every tail of up to 9 bits: up to three TLVs, every length a TLV can claim, cuts at every byte, padding of every content | 9084 |
| serializer | `TypeOK`, `WritesInBounds`, `PacketHoldsTheCmdu` | every list of up to 3 TLVs of any type, values of 0 to 3 bytes (all a length can say over bits) | 23950 |
| codec | `TypeOK`, `ReceivesWhatWasSent`, `ThrowsOnlyIfCut`, `Transfers` | every list of up to 3 TLVs, END_OF_MESSAGE anywhere or several times; up to 4 bytes of padding; a cut at every byte | 27403 |
| cmdu | `TypeOK`, `PayloadInOrder`, `OnlyFailuresLoseTheEnd`, `OneEndComesLast`, `HeldPointsAtFound`, `FoundStaysFound` | up to 4 calls of AddTlv, `FindTlv` any time, 2 types and END_OF_MESSAGE; every capacity the vector may choose; a fourth call is what it takes to add after an END_OF_MESSAGE that was moved twice, and calls that throw before, between and after | 139793 |
| cmdu_two_ends | `EndOfMessageMustBeLast`: violated | as cmdu | |
| agent | `TypeOK`, `NoStaleBytes`, `DiscoveryAsSent`, `KeepsReceiving`, `ServesMessages` | 256-valued bytes, two calls of `SendTopologyDiscovery`, either failing or not, two packets on the wire, eleven packets of other devices (one for each way through `Start`, `Parse` and `HandleCmdu`, and the two fragments of one message), a buffer of 20 bytes, which one of them and padded discoveries exceed | 343821 |
| agent_ids | `IdsReusedLast` | 16 identifiers and 18 calls, so the counter goes round; up to two of the calls fail, anywhere; nothing stays on the wire | 24204 |
| wsc | `TypeOK`, `ReadsWhatWasAdded`, `OwnMessagesAreRead`, `ReadsWhatTheBytesHold` | 3 calls, 3 codes, values that together fit a TLV of up to 15 bytes or exceed it; sequences of 3 foreign attributes, with repeated codes, cut at every byte | 2104 |
| wsc_transfer | `AttributesArrive`, `WscIsFound` | up to 2 attributes with codes of wsc.h, a CMDU of up to 3 TLVs: the message's own, another WSC message, a cut one, a vendor's TLV that looks like an attribute, END_OF_MESSAGE, in any order and number; padding that looks like a WSC TLV; a cut at 20 bytes | 67253 |
| wsc_names | `ReadsWhatWasAdded` with the codes of wsc.h: violated | | |
| lldp | `TypeOK`, `HeadersCanBePacked`, `SizeIsThatOfTheBytes` | 3 calls, types and lengths on both sides of each limit | 460 |
| lldp_end | `EndsWithEndOfLldpdu`: violated | | |

`cmdu`, `wsc`, `wsc_transfer` and `lldp` switch the deadlock check off because
their callers stop; `parser`, `serializer` and `codec` because the functions return. The agent
never stops, and its runs check for deadlock.

The receive buffer is 20 bytes in the agent's runs and not 2048: what
matters is whether a packet is longer or shorter than it and than the packet
before. `codec` tries every size.

**Fairness.** `Pack` and `Parse` run to their end (`WF_vars(Next)` in `Parser` and
`Serializer`, `WF_vars(Send)` and `WF_vars(Receive)` in `Codec`): they call
nothing that blocks. Delivery is not fair in `Codec`: the result of `SendPacket` is
ignored (agent.cpp:370) and the wire may lose the packet, so it may never come.
`Transfers` asks for progress only from the arrival on: `CmduTransfer` has no
fairness on `Arrive`, only on what follows it. In `Agent` only the steps of the receive thread after
`ReceivePacket` has returned are fair (`WF_vars(Working)`): nothing makes a packet
arrive, and nothing makes anyone send. `KeepsReceiving` needs no more: with
a thread that is waiting in `ReceivePacket` it holds. `MessageService` asks for the
same of its implementation (`Serves`: every packet comes to its end), and
`ServesMessages` shows it from this fairness.

### What the violations show

* `cmdu_two_ends`: cmdu.cpp:23 says that END_OF_MESSAGE must be the last TLV.
  After END_OF_MESSAGE, END_OF_MESSAGE and a third TLV it is not: the third goes
  between the two, `Pack` writes it, and a receiver never sees it.
  `OneEndComesLast` is what does hold.
* `wsc_names`: WSC_VERSION and WSC_STATE have the same code in wsc.h:30-31, so each
  overwrites the other. With distinct codes (run `wsc`) the property holds.
* `lldp_end`: lldp.h:52 says that the constructor adds END_OF_LLDPDU. It does not,
  and AddTlv refuses one; only `GetPackedSize` counts it.

## The proofs

For every `Base >= 2`, every set of buffers, CMDUs, types, attributes, values, paddings
and packets of other devices, every size of the receive buffer and any number of calls.
The only assumptions are the modules' ASSUMEs, and one hypothesis of two theorems:

* `Base` is a number above 1, bounds and buffer sizes are numbers;
* buffers, values, paddings and the packets of other devices consist of bytes;
* the codes of attributes fit 16 bits, and the type of a WSC TLV is a byte, in
  `WscTransfer` another one than END_OF_MESSAGE (17 and 0);
* the CMDUs that are packed, and the other TLVs that go with a WSC message, are made
  of TLVs that `Tlv` accepts (elsewhere they could not have been constructed), and
  the fields of a header have their widths;
* the address that `SendTopologyDiscovery` announces fits a TLV, as its six bytes
  do, and the type it announces it under is a byte (3, so in `Agent` `Base` is above 3);
* `DistinctCodes`, in `ReadsTheAdded` and `AttributesDoArrive` alone: no two names stand
  for one code. The names of wsc.h do not satisfy it, and `wsc_names` shows that the
  property then fails; any choice of them without one of WSC_VERSION and WSC_STATE does.

| theorem | says |
|---|---|
| `ParserProofs!TypeCorrect` | `Spec => []TypeOK`: the pointer of Parse stays in the buffer |
| `ParserProofs!ReturnsIt` | `Spec => []ReturnsWhatTheBufferHolds` |
| `ParserProofs!ThrowsIffNoCmdu` | `Spec => []ThrowsOnlyWithoutCmdu` |
| `SerializerProofs!TypeCorrect` | `Spec => []TypeOK` |
| `SerializerProofs!NoOverrun` | `Spec => []WritesInBounds` |
| `SerializerProofs!PacketIsTheCmdu` | `Spec => []PacketHoldsTheCmdu` |
| `CmduProofs!TypeCorrect` | `Spec => []TypeOK` |
| `CmduProofs!OneEndStaysLast` | `Spec => []OneEndComesLast` |
| `CmduProofs!OnlyFailuresLose` | `Spec => []OnlyFailuresLoseTheEnd` |
| `CmduProofs!FoundIsKept` | `Spec => FoundStaysFound` |
| `CmduProofs!HeldPointerIsGood` | `Spec => []HeldPointsAtFound` |
| `CmduProofs!OrderIsKept` | `Spec => []PayloadInOrder` |
| `WscProofs!TypeCorrect` | `Spec => []TypeOK` |
| `WscProofs!OwnAreRead` | `Spec => []OwnMessagesAreRead` |
| `WscProofs!ReadsTheBytes` | `Spec => []ReadsWhatTheBytesHold` |
| `WscProofs!ReadsTheAdded` | `Spec => []ReadsWhatWasAdded`, if no two names have one code |
| `LldpProofs!TypeCorrect` | `Spec => []TypeOK` |
| `LldpProofs!HeadersFit` | `Spec => []HeadersCanBePacked` |
| `LldpProofs!SizeIsRight` | `Spec => []SizeIsThatOfTheBytes` |
| `TransferProofs!TypeCorrect` | `Spec => []TypeOK` |
| `TransferProofs!ReceivesIt` | `Spec => []ReceivesWhatWasSent` |
| `TransferProofs!RefusesOnlyIfCut` | `Spec => []ThrowsOnlyIfCut` |
| `TransferProofs!TransfersSafely` | `Spec => Transfer!Safety`: `Codec` implements the safety half of `CmduTransfer` |
| `TransferProofs!WscSpecIInv` | `WscSpec => []WscIInv`: what is read is what was added, and how the three invariants fit together |
| `TransferProofs!AttributesDoArrive` | `WscSpec => []AttributesArrive`, if no two names have one code |
| `TransferProofs!FindsTheWsc` | `WscSpec => []WscIsFound` |
| `AgentProofs!TypeCorrect` | `Spec => []TypeOK` |
| `AgentProofs!HandlersSeeNoStaleBytes` | `Spec => []NoStaleBytes` |
| `AgentProofs!DiscoveriesArriveAsSent` | `Spec => []DiscoveryAsSent` |
| `AgentProofs!IdsComeAgainLast` | `Spec => []IdsReusedLast` |
| `AgentProofs!ServesSafely` | `Spec => Service!Safety`: `Agent` implements the safety half of `MessageService` |

**How proofs are used again.** `Codec` and `Agent` take the steps of `Parser` and
`Serializer` through `INSTANCE`, with their own variables in the place of the
locals. `TransferProofs` and `AgentProofs` instantiate `ParserProofs` and
`SerializerProofs` with the same substitution and cite their lemmas
(`Parsing!NextIInv`, `Packing!NextIInv`), so that what was proved of each function
alone holds of it inside the thread that runs it. `TransferProofs` does the same with
`WscProofs` (`Reading!NextIInv`, `Reading!OwnIsReadWhole`) for the message in
`WscTransfer`. The lemmas named `Same...` say that the operators reached in the two
ways are the same. What `AddTlv` makes of a list is `AddTlvList` (WireProofs), which
`CmduProofs` and `TransferProofs` share.

**Induction over numbers.** A recursive function or a loop over the TLVs of a list
needs induction. `AllNumbers` (WireProofs) is that induction stated with a set
instead of a predicate: a set that holds 0, and n + 1 with every number n, holds every number.
It follows from `HasLeast`, which follows from the library's theorem that `<` on the
numbers is well-founded. The set is then of those n for which the claim holds.

*Parser.* The properties speak of the last step only, so the inductive invariant
`IInv` says what holds in the loop: the TLVs read so far lie in the buffer at
`offsets`, the last offset is `ptr`, and none of them is an END_OF_MESSAGE except
the last once `at = "end"`. That no AddTlv reorders them follows from this last
part. `ThrowsOnlyWithoutCmdu` needs both directions between the loop and
`HoldsCmdu`: when Parse returns, its offsets are a chain; and when there is a
chain, every position the loop comes to is in it (so no check of the loop can
fail, and the end of the buffer is not reached), which `IInv` carries as
a statement about all chains.

*Serializer.* `IInv` relates the two passes: `offsets`, which the first pass
computed, are where the second pass writes; `ptr = offsets[i]`, the distance between
neighbours is the size of the TLV, and the TLVs before the i-th lie in the
buffer. That a later write leaves earlier TLVs alone follows from the offsets being
increasing, and `WritesInBounds` from the last offset being `total_size + 1`.

*Cmdu.* `OneEndComesLast` alone is not inductive: in a state where no END_OF_MESSAGE
has been counted one could already be at the end of the list, and the
next one would follow it. `NoneBeforeAdded` excludes that. `OnlyFailuresLoseTheEnd`
is inductive with `TypeOK`: a call that returns makes the list longer by the TLV it
took and leaves an END_OF_MESSAGE at the end where there was one, and one that throws
is counted in `failures`. With `PayloadInOrder` it says that what a failing call loses
is an END_OF_MESSAGE and nothing else. `FoundStaysFound`
needs no more than that each step goes on from the list it finds (`GoesOn`): only
an END_OF_MESSAGE at its end is replaced. `HeldPointsAtFound` follows from the
same, with the strengthening that no pointer's `home` is later than `allocation`
(`HeldInv`): otherwise a move of the vector could bring an old pointer back to life.
`PayloadInOrder` is inductive with `TypeOK`: `PayloadOfAppend` says, by induction
over the list, what one more TLV does to the payload, and `EndTakenOut` that both
outcomes of `AddTlv` put the TLV behind a list with the payload of the old one.

*Wsc.* `IInv` ties the stages together: the map holds what was added (`KeepsAdded`), the
TLV is the map, packed (`MadeIsPacked`), and a message that ToTlv made is read
attribute by attribute (`OwnIsRead`): after some number of turns `parsed` holds that
many of the map's attributes in its order, and `ptr` is where the next one starts.
`PackedLies` finds these places, by induction over the attributes: what is appended
later leaves the earlier ones where they are (`FlatGrows`). The map is walked in the
order of its keys; that every finite set of codes has such an order, and that it
comes by every key, is `NumbersHaveOrder` and `OrderOfKeys`, by induction over the
largest key and by counting. With a whole attribute at `ptr` no check of ParseAttributes
fails, which is what `OwnAreRead` says of the reader; at the end of the bytes all have been read, which gives
`ReadsTheAdded`. For a foreign message `ReadSoFar` says that the attributes read so
far lie one after the other up to `ptr`, and that of each code the last is in `parsed`.

*Lldp.* `IInv` keeps what the tests of AddTlv established for each TLV, and
`HeaderOfTested` derives from it that the type times 512 plus the length is below
65536 and at least 512. `SizeIsLength` is an induction over the turns of the loop of
`GetPackedSize`: the size so far is the number of bytes so far.

*Codec.* `IInv` says that the sender's half keeps the invariant of `Serializer`; that
nothing is parsed while the receiver waits; and after that, that `Pack` has
returned, the receiver's half keeps the invariant of `Parser`, and what it reads
agrees with the packet as far as both go (`IsOfPacket`). That the two functions agree
then takes `ReadsOneWay` (WireProofs): two sequences of TLVs that lie in one
buffer start at the same places and are the same for as long as both last, by
induction over them, because each TLV's length says where the next one starts.
One is what Pack wrote and the other what Parse read, both in the longer of the
packet and the buffer (`LiesInFront`); Parse ends at its first END_OF_MESSAGE, so
at that of the packet. For `ThrowsOnlyIfCut` the packet, when all of it up to the first
END_OF_MESSAGE is in the buffer, holds a CMDU (its offsets are a chain), so
by the invariant of `Parser` it cannot have thrown.
For `TransfersSafely`, the steps of `Pack`, and those of `Parse` up to its last, are
stutters of `CmduTransfer`; delivery, return and refusal are its three actions.

*WscTransfer.* Neither property says anything before the last step, so `WscIInv`
follows the message all the way. `Reading!IInv` is the invariant of `Wsc`: it holds
until a receiver finds no WSC TLV, after which nothing is read. `Holds(m_tlvs,
accepted)` says what the caller's list, in which `AddTlv` may have moved or dropped an
END_OF_MESSAGE, still tells of the TLVs that were added: the first WSC TLV of the one
is that of the other, one has a WSC TLV if the other has, and while no second
END_OF_MESSAGE was added none stands before the last place. That an END_OF_MESSAGE in
the list was added (`HasEnd`) is there because `NoneBeforeLast` alone is not
inductive: one at the end that nobody had added could be followed by another.
`OneMoreWsc` says what one more TLV does to the first WSC TLV, when nothing but
END_OF_MESSAGEs is behind its place. `ChannelInv` says that before `Pack` is called
nothing moves, and that from then on `IInv` of `Codec` holds of just this list. From
it `ReceivedOfCaller` concludes that the TLVs that Parse returned are the caller's, up
to an END_OF_MESSAGE: so what `FindTlv` finds was the first (`FoundIsFirst`), and if
it finds nothing, none was added or two END_OF_MESSAGEs were (`NoneIsFound`).
`FoundInv` carries both to the end of the reading, with the one fact that joins the
two halves: if the TLV that was found is one ToTlv made, `own` holds, and then
`OwnIsReadWhole` of `WscProofs` gives the attributes, and `OwnIsRead` that the message
is not refused.

*Agent.* `IInv` is `SendInv /\ ReceiveInv`, one for each thread; a step of one leaves
the other's variables alone. `SendInv` says: the identifier to come is the number
of calls so far plus 1, modulo `Base^2` (`NextIdIsFree`), whichever of them threw;
between calls Pack is at rest and in a call it packs the discovery of that call
(`PacksThisCall`, with the invariant of `Serializer`); the calls of the packets in
`sent` increase and each packet holds the discovery of its call (`SentInOrder`,
`SentAreDiscoveries`). `IdsReusedLast` is then arithmetic: two numbers less than
`Base^2` apart differ modulo `Base^2`.
`ReceiveInv` says: once a packet has come, the front of `rx_buffer` is what `RxSize`
leaves of it (`BufferIsFresh`), and from the copy on Parse works on just those bytes
(`ParsesThisPacket`, with the invariant of `Parser`). With `LiesInFront` that gives
`NoStaleBytes`; `DiscoveryAsSent` adds that the bytes of a packet of `sent`, at the
front of a buffer, determine the header and the two TLVs that Parse returns.
`ServesSafely` takes the receiving thread's steps one by one: a packet that comes,
the return of Parse, the call of a handler and its return, and an exception are actions
of the service; the other turns of Parse, and every step of the sending thread,
are stutters.

`WireProofs` holds the induction and the arithmetic: reading two bytes written high
byte first gives the number again; what a position in a buffer of bytes yields has
the type of its field; and TLVs that lie in a buffer lie in any that begins with it.

Every invariant and action property that a passing run checks is proved. Liveness is not
provable here and left to TLC: `Terminates`, `KeepsReceiving` and the fairness halves of
`Transfers` and `ServesMessages`. Where the prover has to look into a walk over
a list, it is written as a recursive function (`PayloadTlvs`, `SizeOfTlvs`) or by
what it has to be (`InOrder`): the prover cannot expand `SelectSeq`, `FoldLeft` and
`SetToSortSeq`, which take an operator.

## Not modelled

* `Logger`, which only writes, and `CmduTypeToString`, a table of names for it;
  the `Send` functions other than `SendTopologyDiscovery`, which only log; the
  bodies of the `Process` functions, which only log (one action, `Process`, stands
  for them); `simple_controller.cpp`, which calls `SendTopologyDiscovery` once.
* Opening and closing the socket; the code has none of it.
* Two threads that both send. `m_next_message_id` is a plain member; nothing in
  the repository sends from two threads and the class does not offer it.
* `std::bad_alloc` in `Codec`, `Wsc` and `WscTransfer`: there is nothing left of an
  operation that throws it, and what the agent does then is in `Agent`.
* The contents of foreign packets beyond the eleven in `agent`: `parser` takes all.
* Putting fragments together, or taking a CMDU apart into them: the code has neither.

## Plan

Done, in this order: `Wire`, `Parser`, `Serializer`, `Codec`, `Cmdu`, `Agent`, `Wsc`,
`Lldp`, with a run for each, `CmduTransfer`, the proofs for `Parser`, `Serializer`,
`Cmdu` and `Lldp`; then memory that runs out in both threads of `Agent`,
`MessageService`, the storage of `Cmdu`, and `WscTransfer`; then the proofs for `Codec`
and `Agent`, of the safety of both refinements, of the two properties by
induction over lists (`PayloadInOrder`, `SizeIsThatOfTheBytes`), and for `Wsc`; last the
proofs for `WscTransfer`, from the invariants of `Wsc` and `Codec` and the lemmas about
`AddTlv`.

Nothing of the plan is left. What could follow: more of the code when it exists, first
of all fragments put together and a socket behind `InterfaceManager`, each of which
would replace a part that is external here.
