---------------------------- MODULE IpAddrBlocks ----------------------------
(***************************************************************************)
(* RFC 3779 IPAddrBlocks: encode_ip_address_families,                      *)
(* encode_ip_address_choice and their decoders in extensions/ip_addr.rs,   *)
(* one action per step of their two nested loops.                          *)
(*                                                                         *)
(* A session alternates the two calls on one value without end, as in      *)
(* AsIdentifiers.  Octets, address widths and the integer form's limit are *)
(* parameters: the code has 8 bits, 4 and 16 octets, and 8 octets.         *)
(***************************************************************************)
EXTENDS DeltaChain, Cbor, FiniteSetsExt

CONSTANTS Bits,              \* bits of an octet
          Width,             \* address_width: AFI -> octets of an address
          MaxIntFormBytes,   \* MAX_INT_FORM_BYTES
          U16Max,            \* the largest u16
          Callers,           \* Vec<IpAddressFamily> values callers build
          Foreign            \* CBOR items received from peers

ASSUME WidthAssumption ==
  /\ Bits \in Nat \ {0} /\ MaxIntFormBytes \in Nat \ {0} /\ U16Max \in Nat
  /\ DOMAIN Width \subseteq 0 .. U16Max
  /\ \A afi \in DOMAIN Width : Width[afi] \in Nat

Base == OctetMax + 1
Fill == OctetMax              \* the octet 0xFF

\* b to the n-th.
Power(b, n) ==
  LET p[k \in Nat] == IF k = 0 THEN 1 ELSE b * p[k - 1] IN p[n]

ASSUME U64Assumption  == U64Max = Power(Base, MaxIntFormBytes) - 1
ASSUME BitsAssumption == Base = Power(2, Bits)

-----------------------------------------------------------------------------
(* Addresses, and the framing `unusedBits || value' of RFC 3779.           *)

\* Mistake: octets beyond the width of the family are not refused.
FitsFamilyAnyLength(afi, significant) == afi \in DOMAIN Width

FitsFamily(afi, significant) ==
  afi \in DOMAIN Width /\ Len(significant) <= Width[afi]

\* build_addr
BuildAddr(afi, significant, fill) ==
  significant \o [i \in 1 .. Width[afi] - Len(significant) |-> fill]

\* build_prefix; IpNet keeps the address as given, host bits included.
FormsPrefix(afi, significant, unused) ==
  FitsFamily(afi, significant) /\ unused <= Len(significant) * Bits
BuildPrefix(afi, significant, unused) ==
  [addr |-> BuildAddr(afi, significant, 0),
   prefixLen |-> Len(significant) * Bits - unused]

\* IpNet::network, of the external crate ipnet: bits after the prefix are 0.
Network(net) ==
  [i \in DOMAIN net.addr |->
     LET kept == Max({0, Min({Bits, net.prefixLen - Bits * (i - 1)})})
     IN  net.addr[i] - (net.addr[i] % Power(2, Bits - kept))]

\* Mistake: a prefix that ends on an octet boundary gets one octet too many.
PrefixToFramedPadded(net) ==
  LET sigLen == Min({net.prefixLen \div Bits + 1, Len(net.addr)})
  IN  [significant |-> SubSeq(Network(net), 1, sigLen),
       unused |-> (sigLen * Bits - net.prefixLen) % Bits]

PrefixToFramed(net) ==
  LET sigLen == (net.prefixLen + Bits - 1) \div Bits
  IN  [significant |-> SubSeq(Network(net), 1, sigLen),
       unused |-> sigLen * Bits - net.prefixLen]

AddrToFramedTrimmed(addr, fill) ==
  SubSeq(addr, 1, Max({0} \cup {i \in DOMAIN addr : addr[i] # fill}))

\* absolute_int_from_framed: the number of octets unused + 1, significant;
\* unless it is too long for the integer form.
FitsIntForm(significant, unused) ==
  Len(significant) + 1 <= MaxIntFormBytes /\ unused + 1 \in Octet
AbsoluteIntFromFramed(significant, unused) ==
  LET v[n \in 0 .. Len(significant)] ==
        IF n = 0 THEN unused + 1 ELSE v[n - 1] * Base + significant[n]
  IN  v[Len(significant)]

\* framed_from_absolute_int: the octets of abs, as of a u128, without leading
\* zeros, the first of them unused + 1.
U128Bytes == 2 * MaxIntFormBytes
ToBeBytes(n) == [i \in 1 .. U128Bytes |-> (n \div Power(Base, U128Bytes - i)) % Base]
WithoutLeadingZeros(b) == SubSeq(b, Min({Len(b)} \cup {i \in DOMAIN b : b[i] # 0}), Len(b))

Framed(abs)   == WithoutLeadingZeros(ToBeBytes(abs))
IsFramed(abs) == abs >= 0 /\ Head(Framed(abs)) >= 1
FramedFromAbsoluteInt(abs) ==
  [significant |-> Tail(Framed(abs)), unused |-> Head(Framed(abs)) - 1]

-----------------------------------------------------------------------------
(* IpAddressOrRange, IpAddressChoice, IpAddressFamily.                     *)

AddrPrefix(net)     == [kind |-> "prefix", net |-> net]
AddrRange(min, max) == [kind |-> "range", min |-> min, max |-> max]
Inherit             == [kind |-> "inherit"]
EntryList(entries)  == [kind |-> "prefixes", entries |-> entries]
NoSafi              == -1
Blocks(families)    == [kind |-> "blocks", families |-> families]
NoValue == [kind |-> "none"]     \* nothing decoded yet
NoWire  == [type |-> "none"]     \* nothing encoded yet

Address(afi)   == [1 .. Width[afi] -> Octet]
Net(afi)       == [addr : Address(afi), prefixLen : 0 .. Width[afi] * Bits]
AddrEntry(afi) == [kind : {"prefix"}, net : Net(afi)]
                    \cup [kind : {"range"}, min : Address(afi), max : Address(afi)]

\* No type ties the addresses of a family to its AFI, or those of a range to
\* each other.
AnyAddress == UNION {Address(afi) : afi \in DOMAIN Width}
AnyEntry   == [kind : {"prefix"}, net : UNION {Net(afi) : afi \in DOMAIN Width}]
                \cup [kind : {"range"}, min : AnyAddress, max : AnyAddress]

Safi     == 0 .. U16Max \cup {NoSafi}
IpFamily ==
  LET choice == [kind : {"inherit"}]
                  \cup [kind : {"prefixes"}, entries : Seq(AnyEntry)]
  IN  [afi : 0 .. U16Max, safi : Safi, choice : choice]

\* A family whose addresses, if it has any, are addresses of its AFI.
IsFit(family) ==
  family.choice.kind = "prefixes" =>
    \A i \in DOMAIN family.choice.entries :
      /\ family.afi \in DOMAIN Width
      /\ family.choice.entries[i] \in AddrEntry(family.afi)

Value == [kind : {"blocks"}, families : Seq(IpFamily)]

ASSUME CallersAssumption == Callers \subseteq Value
ASSUME ForeignAssumption == Foreign \subseteq Nested3

-----------------------------------------------------------------------------
VARIABLES
  pc,          \* the call in progress, or the one to make next
  value,       \* the value held by the caller
  wire,        \* the item that was encoded or received last
  out,         \* outer loop: items written, or families read
  inner,       \* inner loop: elements written, or entries read
  intForm,     \* use_int_form of the encoder, is_int_form of the decoder
  previous,    \* chain state of the family
  first
vars == <<pc, value, wire, out, inner, intForm, previous, first>>

held  == <<value, wire>>
chain == <<intForm, previous, first>>

Init ==
  /\ \/ pc = "encode" /\ value \in Callers /\ wire = NoWire
     \/ pc = "decode" /\ value = NoValue /\ wire \in Foreign
  /\ out = <<>> /\ inner = <<>>
  /\ intForm = FALSE /\ previous = 0 /\ first = TRUE

\* Mistake: the chain of a family goes on from the family before.
StartChainStale == first' = (Len(out) = 0) /\ previous' = previous

StartChain == previous' = 0 /\ first' = TRUE

-----------------------------------------------------------------------------
(* encode_ip_address_families and encode_ip_address_choice                 *)

EncodeBlocks ==
  /\ pc = "encode"
  /\ out' = <<>>
  /\ pc' = "encodingBlocks"
  /\ UNCHANGED <<held, inner, chain>>

Family == value.families[Len(out) \div 3 + 1]    \* the family written next

Head3 == <<IntItem(Family.afi),
           IF Family.safi = NoSafi THEN NullItem ELSE IntItem(Family.safi)>>

EncodingBlocks(kind) == /\ pc = "encodingBlocks"
                        /\ Len(out) < 3 * Len(value.families)
                        /\ Family.choice.kind = kind

EncodeInheritFamily ==
  /\ EncodingBlocks("inherit")
  /\ out' = out \o Append(Head3, NullItem)
  /\ UNCHANGED <<pc, held, inner, chain>>

\* ResolvedEntry: the framed significant octets of an entry.
Significant(entry) ==
  IF entry.kind = "prefix"
    THEN {PrefixToFramed(entry.net).significant}
    ELSE {AddrToFramedTrimmed(entry.min, 0), AddrToFramedTrimmed(entry.max, Fill)}

\* Mistake: the octet for unused + 1 is not counted.
UsesIntFormWide(entries) ==
  \A i \in DOMAIN entries : \A significant \in Significant(entries[i]) :
    Len(significant) <= MaxIntFormBytes

UsesIntForm(entries) ==
  \A i \in DOMAIN entries : \A significant \in Significant(entries[i]) :
    Len(significant) < MaxIntFormBytes

EncodeFamily ==
  /\ EncodingBlocks("prefixes")
  /\ out' = out \o Head3
  /\ inner' = <<>>
  /\ intForm' = UsesIntForm(Family.choice.entries)
  /\ StartChain
  /\ pc' = "encodingFamily"
  /\ UNCHANGED held

Entry == Family.choice.entries[Len(inner) + 1]   \* the entry written next

EncodingEntry(kind, form) ==
  /\ pc = "encodingFamily" /\ intForm = form
  /\ Len(inner) < Len(Family.choice.entries)
  /\ Entry.kind = kind

\* An address beyond the integer form, or a delta that is no CBOR integer,
\* is an error that ends in the `expect' of C509Certificate::encode.
WriteInts(fits, deltas, item, abs) ==
  /\ IF fits /\ deltas \subseteq CborInt
       THEN inner' = Append(inner, item) /\ pc' = pc
       ELSE inner' = inner /\ pc' = "panicked"
  /\ previous' = abs
  /\ first' = FALSE
  /\ UNCHANGED <<held, out, intForm>>

EncodeIntPrefix ==
  /\ EncodingEntry("prefix", TRUE)
  /\ LET framed == PrefixToFramed(Entry.net)
         abs    == AbsoluteIntFromFramed(framed.significant, framed.unused)
         delta  == NextDelta(previous, first, abs)
     IN  WriteInts(FitsIntForm(framed.significant, framed.unused),
                   {delta}, IntItem(delta), abs)

EncodeIntRange ==
  /\ EncodingEntry("range", TRUE)
  /\ LET min      == AddrToFramedTrimmed(Entry.min, 0)
         max      == AddrToFramedTrimmed(Entry.max, Fill)
         minAbs   == AbsoluteIntFromFramed(min, 0)
         maxAbs   == AbsoluteIntFromFramed(max, 0)
         minDelta == NextDelta(previous, first, minAbs)
         maxDelta == NextDelta(minAbs, FALSE, maxAbs)
     IN  WriteInts(FitsIntForm(min, 0) /\ FitsIntForm(max, 0),
                   {minDelta, maxDelta},
                   ArrayItem(<<IntItem(minDelta), IntItem(maxDelta)>>), maxAbs)

WriteBytes(item) == /\ inner' = Append(inner, item)
                    /\ UNCHANGED <<pc, held, out, chain>>

EncodeRawPrefix ==
  /\ EncodingEntry("prefix", FALSE)
  /\ LET framed == PrefixToFramed(Entry.net)
     IN  WriteBytes(BytesItem(<<framed.unused>> \o framed.significant))

EncodeRawRange ==
  /\ EncodingEntry("range", FALSE)
  /\ WriteBytes(ArrayItem(
       <<BytesItem(<<0>> \o AddrToFramedTrimmed(Entry.min, 0)),
         BytesItem(<<0>> \o AddrToFramedTrimmed(Entry.max, Fill))>>))

EncodeFamilyEnd ==
  /\ pc = "encodingFamily" /\ Len(inner) = Len(Family.choice.entries)
  /\ out' = Append(out, ArrayItem(inner))
  /\ pc' = "encodingBlocks"
  /\ UNCHANGED <<held, inner, chain>>

EncodeBlocksEnd ==
  /\ pc = "encodingBlocks" /\ Len(out) = 3 * Len(value.families)
  /\ wire' = ArrayItem(out)
  /\ pc' = "decode"
  /\ UNCHANGED <<value, out, inner, chain>>

-----------------------------------------------------------------------------
(* decode_ip_address_families and decode_ip_address_choice                 *)

Refuse == pc' = "refused" /\ UNCHANGED <<held, out, inner, chain>>

DecodeBlocks ==
  /\ pc = "decode" /\ wire.type = "array" /\ wire.len % 3 = 0
  /\ out' = <<>>
  /\ pc' = "decodingBlocks"
  /\ UNCHANGED <<held, inner, chain>>

DecodeRefuse ==
  /\ pc = "decode"
  /\ wire.type = "array" => wire.len % 3 # 0
  /\ Refuse

DecodingBlocks == pc = "decodingBlocks" /\ Len(out) < wire.len \div 3

\* The i-th of the three items of the family being read, and whether the
\* input reaches it.
Part(i)    == wire.items[3 * Len(out) + i]
HasPart(i) == HasElement(wire, 3 * Len(out) + i)

IsU16(item) == IsInt(item) /\ item.int \in 0 .. U16Max

ReadsHead == /\ HasPart(1) /\ IsU16(Part(1))
             /\ HasPart(2) /\ (IsNull(Part(2)) \/ IsU16(Part(2)))
             /\ HasPart(3)

Afi == Part(1).int

FamilyOf(choice) == [afi    |-> Afi,
                     safi   |-> IF IsNull(Part(2)) THEN NoSafi ELSE Part(2).int,
                     choice |-> choice]

PushFamily(choice) == /\ out' = Append(out, FamilyOf(choice))
                      /\ pc' = "decodingBlocks"
                      /\ UNCHANGED <<held, inner, chain>>

DecodeInheritFamily ==
  DecodingBlocks /\ ReadsHead /\ IsNull(Part(3)) /\ PushFamily(Inherit)

IsList(item) == item.type = "array"

DecodeEmptyFamily ==
  /\ DecodingBlocks /\ ReadsHead /\ IsList(Part(3)) /\ Part(3).len = 0
  /\ PushFamily(EntryList(<<>>))

\* The probe reads the type of the first number.  On an empty inner array it
\* would read past it; the loop then refuses that array anyway.
ProbeSucceeds(list) ==
  /\ HasElement(list, 1)
  /\ IsAnyArray(list.items[1]) =>
       IsList(list.items[1]) /\ HasElement(list.items[1], 1)

\* Mistake: only a bare number is recognised, not a range of numbers.
IsIntFormBare(list) == IsInt(list.items[1])

IsIntForm(list) == IF IsAnyArray(list.items[1])
                     THEN IsInt(list.items[1].items[1])
                     ELSE IsInt(list.items[1])

DecodeFamily ==
  /\ DecodingBlocks /\ ReadsHead /\ IsList(Part(3)) /\ Part(3).len > 0
  /\ ProbeSucceeds(Part(3))
  /\ intForm' = IsIntForm(Part(3))
  /\ inner' = <<>>
  /\ StartChain
  /\ pc' = "decodingFamily"
  /\ UNCHANGED <<held, out>>

RefuseFamily ==
  /\ DecodingBlocks
  /\ ReadsHead => /\ ~IsNull(Part(3))
                  /\ IsList(Part(3)) => /\ Part(3).len > 0
                                        /\ ~ProbeSucceeds(Part(3))
  /\ Refuse

Position == Len(inner) + 1
Current  == Part(3).items[Position]      \* the item the inner loop is at

HasCurrent == pc = "decodingFamily" /\ HasElement(Part(3), Position)

IsPair(item) == IsList(item) /\ item.len = 2 /\ Len(item.items) = 2

IsCborInt(item) == IsInt(item) /\ item.int \in CborInt

ReadsIntPrefix(item) ==
  /\ IsCborInt(item)
  /\ LET abs == NextAbsolute(previous, first, item.int)
     IN  /\ IsFramed(abs)
         /\ LET framed == FramedFromAbsoluteInt(abs)
            IN  FormsPrefix(Afi, framed.significant, framed.unused)

\* Mistake: the upper bound is taken relative to the entry before.
BoundsFromPrevious(item) ==
  [min |-> NextAbsolute(previous, first, item.items[1].int),
   max |-> NextAbsolute(previous, first, item.items[2].int)]

Bounds(item) ==
  LET min == NextAbsolute(previous, first, item.items[1].int)
  IN  [min |-> min, max |-> NextAbsolute(min, FALSE, item.items[2].int)]

\* A bound's unused bits are read and dropped, whatever they are.
ReadsIntRange(item) ==
  /\ IsPair(item) /\ IsCborInt(item.items[1]) /\ IsCborInt(item.items[2])
  /\ \A abs \in {Bounds(item).min, Bounds(item).max} :
       IsFramed(abs) /\ FitsFamily(Afi, FramedFromAbsoluteInt(abs).significant)

ReadsRawPrefix(item) ==
  /\ IsBytes(item) /\ item.bytes # <<>>
  /\ FormsPrefix(Afi, Tail(item.bytes), Head(item.bytes))

ReadsRawRange(item) ==
  /\ IsPair(item)
  /\ \A i \in 1 .. 2 : /\ IsBytes(item.items[i]) /\ item.items[i].bytes # <<>>
                       /\ Head(item.items[i].bytes) = 0
                       /\ FitsFamily(Afi, Tail(item.items[i].bytes))

PushInt(entry, abs) == /\ inner' = Append(inner, entry)
                       /\ previous' = abs /\ first' = FALSE
                       /\ UNCHANGED <<pc, held, out, intForm>>

PushRaw(entry) == /\ inner' = Append(inner, entry)
                  /\ UNCHANGED <<pc, held, out, chain>>

DecodeIntPrefix ==
  /\ HasCurrent /\ intForm /\ ReadsIntPrefix(Current)
  /\ LET abs    == NextAbsolute(previous, first, Current.int)
         framed == FramedFromAbsoluteInt(abs)
     IN  PushInt(AddrPrefix(BuildPrefix(Afi, framed.significant, framed.unused)),
                 abs)

DecodeIntRange ==
  /\ HasCurrent /\ intForm /\ ReadsIntRange(Current)
  /\ LET bounds == Bounds(Current)
         min    == FramedFromAbsoluteInt(bounds.min).significant
         max    == FramedFromAbsoluteInt(bounds.max).significant
     IN  PushInt(AddrRange(BuildAddr(Afi, min, 0), BuildAddr(Afi, max, Fill)),
                 bounds.max)

DecodeRawPrefix ==
  /\ HasCurrent /\ ~intForm /\ ReadsRawPrefix(Current)
  /\ PushRaw(AddrPrefix(BuildPrefix(Afi, Tail(Current.bytes), Head(Current.bytes))))

DecodeRawRange ==
  /\ HasCurrent /\ ~intForm /\ ReadsRawRange(Current)
  /\ PushRaw(AddrRange(BuildAddr(Afi, Tail(Current.items[1].bytes), 0),
                       BuildAddr(Afi, Tail(Current.items[2].bytes), Fill)))

RefuseEntry ==
  /\ pc = "decodingFamily" /\ Position <= Part(3).len
  /\ HasCurrent => IF intForm
                     THEN ~ReadsIntPrefix(Current) /\ ~ReadsIntRange(Current)
                     ELSE ~ReadsRawPrefix(Current) /\ ~ReadsRawRange(Current)
  /\ Refuse

\* Mistake: one element more than the header claims is waited for.
DecodeFamilyEndLate ==
  /\ pc = "decodingFamily" /\ Len(inner) > Part(3).len
  /\ PushFamily(EntryList(inner))

DecodeFamilyEnd ==
  /\ pc = "decodingFamily" /\ Len(inner) = Part(3).len
  /\ PushFamily(EntryList(inner))

DecodeBlocksEnd ==
  /\ pc = "decodingBlocks" /\ Len(out) = wire.len \div 3
  /\ value' = Blocks(out)
  /\ pc' = "encode"
  /\ UNCHANGED <<wire, out, inner, chain>>

-----------------------------------------------------------------------------
Encode == \/ EncodeBlocks \/ EncodeInheritFamily \/ EncodeFamily
          \/ EncodeIntPrefix \/ EncodeIntRange
          \/ EncodeRawPrefix \/ EncodeRawRange
          \/ EncodeFamilyEnd \/ EncodeBlocksEnd
Decode == \/ DecodeBlocks \/ DecodeRefuse
          \/ DecodeInheritFamily \/ DecodeEmptyFamily \/ DecodeFamily
          \/ RefuseFamily
          \/ DecodeIntPrefix \/ DecodeIntRange
          \/ DecodeRawPrefix \/ DecodeRawRange
          \/ RefuseEntry \/ DecodeFamilyEnd \/ DecodeBlocksEnd
Next == Encode \/ Decode

\* The calls are sequential code without blocking: a started call goes on.
Spec == Init /\ [][Next]_vars /\ WF_vars(Next)

-----------------------------------------------------------------------------
(* Properties                                                              *)

\* The value with the host bits of every prefix cleared.
MaskedEntry(entry) ==
  IF entry.kind = "prefix"
    THEN AddrPrefix([entry.net EXCEPT !.addr = Network(entry.net)])
    ELSE entry

MaskedFamily(family) ==
  IF family.choice.kind = "prefixes"
    THEN [family EXCEPT !.choice.entries =
            [i \in DOMAIN @ |-> MaskedEntry(@[i])]]
    ELSE family

Masked(v) ==
  IF v = NoValue THEN v
    ELSE Blocks([i \in DOMAIN v.families |-> MaskedFamily(v.families[i])])

AllFit(v) == v # NoValue => \A i \in DOMAIN v.families : IsFit(v.families[i])

\* Every variable keeps its type.  In a value that is read, every address has
\* the width of its family.
TypeOK ==
  /\ pc \in {"encode", "encodingBlocks", "encodingFamily", "decode",
             "decodingBlocks", "decodingFamily", "refused", "panicked"}
  /\ value \in Value \cup {NoValue}
  /\ wire \in Nested3 \cup {NoWire}
  /\ intForm \in BOOLEAN /\ previous \in Int /\ first \in BOOLEAN
  /\ pc \in {"encodingBlocks", "encodingFamily"} => out \in Seq(Nested2)
  /\ pc = "encodingFamily" => inner \in Seq(Nested1)
  /\ pc \in {"decodingBlocks", "decodingFamily"} =>
       out \in Seq(IpFamily) /\ \A i \in DOMAIN out : IsFit(out[i])
  /\ pc = "decodingFamily" =>
       \A i \in DOMAIN inner : inner[i] \in AddrEntry(Afi)

\* Where the encoder chooses the integer form, every address fits it and
\* every delta is a CBOR integer, also for values read from a peer.
EncodeNeverFails == pc # "panicked"

\* Any number of round trips return the value the caller holds, except that
\* the first one clears host bits a prefix had after it was built or read, and
\* that addresses under another AFI than theirs never come back as they were:
\* what is read in their place are addresses of that AFI.
LosslessUpToHostBits ==
  [][value # NoValue =>
       value' \in {value, Masked(value)} \/ (~AllFit(value) /\ AllFit(value'))]_vars

\* The promise of a codec, for values up to the host bits of their prefixes.
\* Addresses under another AFI promise no more than bytes of a peer.
Promise == INSTANCE RoundTrip
             WITH value  <- IF AllFit(value) THEN Masked(value) ELSE NoValue,
                  status <- CASE pc = "panicked" -> "panicked"
                              [] pc = "refused"  -> "refused"
                              [] value = NoValue \/ ~AllFit(value) -> "reading"
                              [] OTHER           -> "held"
KeepsPromise == Promise!Spec

\* Both loops end, also on headers that claim more than the input has.
CallsReturn == /\ (pc = "encodingBlocks") ~> (pc \in {"decode", "panicked"})
               /\ (pc = "decodingBlocks") ~> (pc \in {"encode", "refused"})

-----------------------------------------------------------------------------
(* What the source says and the code does not do.                          *)

\* Round trips return the very value: "Inverse of [`build_prefix`]", the
\* comment on prefix_to_framed.
Lossless == [][value # NoValue => value' = value]_vars

\* "which only support AFI 1 (IPv4) and 2 (IPv6); other families are rejected",
\* the module comment: no family of another AFI is read.
OnlySupportedFamilies ==
  pc = "decodingBlocks" => \A i \in DOMAIN out : out[i].afi \in DOMAIN Width
=============================================================================
