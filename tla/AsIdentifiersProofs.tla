------------------------ MODULE AsIdentifiersProofs ------------------------
(***************************************************************************)
(* Proofs about AsIdentifiers, for every u64 width, every caller's list    *)
(* and every item a peer sends.                                            *)
(*                                                                         *)
(* The argument: while the encoder runs, what it has written is the        *)
(* encoding of a prefix of the value; while the decoder runs, what it has  *)
(* read of the wire is the encoding of `ids', and `ids' is a prefix of the *)
(* value when one is held.  In both, the chain state is the last number of *)
(* that prefix, so the two chains are in step.                             *)
(***************************************************************************)
EXTENDS AsIdentifiers, SequenceTheorems, TLAPS

\* The number the chain state holds after an entry.
LastNumber(entry) == IF entry.kind = "id" THEN entry.as ELSE entry.max

\* The chain state in front of the k-th entry of s.
Before(s, k) == IF k = 1 THEN 0 ELSE LastNumber(s[k - 1])

\* The element written for the k-th entry of s.
EncodedEntry(s, k) ==
  IF s[k].kind = "id"
    THEN IntItem(NextDelta(Before(s, k), k = 1, s[k].as))
    ELSE ArrayItem(<<IntItem(NextDelta(Before(s, k), k = 1, s[k].min)),
                     IntItem(NextDelta(s[k].min, FALSE, s[k].max))>>)

EncodedItems(s) == [k \in 1 .. Len(s) |-> EncodedEntry(s, k)]

WireOf(v) == IF v.kind = "inherit" THEN NullItem
                                   ELSE ArrayItem(EncodedItems(v.ids))

EncoderInv ==
  pc = "encoding" =>
    /\ value.kind = "listed"
    /\ Len(items) <= Len(value.ids)
    /\ \A k \in 1 .. Len(items) : items[k] = EncodedEntry(value.ids, k)
    /\ previous = Before(value.ids, Len(items) + 1)
    /\ first = (Len(items) = 0)

DecoderInv ==
  pc = "decoding" =>
    /\ wire.type = "array"
    /\ Len(ids) <= Len(wire.items)
    /\ \A k \in 1 .. Len(ids) : wire.items[k] = EncodedEntry(ids, k)
    /\ previous = Before(ids, Len(ids) + 1)
    /\ first = (Len(ids) = 0)
    /\ value # NoValue => /\ value.kind = "listed"
                          /\ \A k \in 1 .. Len(ids) : ids[k] = value.ids[k]

HeldInv ==
  /\ value # NoValue => wire \in {NoWire, WireOf(value)}
  /\ pc \in {"encode", "encoding"} => value # NoValue
  /\ pc \in {"decode", "decoding"} => wire # NoWire
  /\ pc = "refused" => value = NoValue
  /\ pc # "panicked"

IInv == TypeOK /\ EncoderInv /\ DecoderInv /\ HeldInv

-----------------------------------------------------------------------------
\* Reading a delta undoes writing it, writing undoes reading, and a delta
\* between two u64 numbers is a CBOR integer: next_delta and next_absolute.
LEMMA DeltaChainInverse ==
  ASSUME NEW previous0 \in U64, NEW first0 \in BOOLEAN
  PROVE  /\ \A abs \in U64 :
              /\ NextDelta(previous0, first0, abs) \in CborInt
              /\ NextAbsolute(previous0, first0,
                              NextDelta(previous0, first0, abs)) = abs
         /\ \A raw \in Int :
              NextDelta(previous0, first0,
                        NextAbsolute(previous0, first0, raw)) = raw
BY U64MaxAssumption DEF NextDelta, NextAbsolute, U64, CborInt

\* An item of major type 0 or 1 is its integer and nothing else.
LEMMA IntShape ==
  ASSUME NEW item \in Nested1, IsInt(item)
  PROVE  item.int \in Int /\ item = IntItem(item.int)
BY DEF Nested1, Leaf, ArrayOf, IsInt, IntItem

\* A complete pair of integers is those two integers and nothing else.
LEMMA PairShape ==
  ASSUME NEW item \in Nested1, item.type = "array", item.len = 2,
         Len(item.items) = 2, IsInt(item.items[1]), IsInt(item.items[2])
  PROVE  /\ item.items[1].int \in Int /\ item.items[2].int \in Int
         /\ item = ArrayItem(<<IntItem(item.items[1].int),
                               IntItem(item.items[2].int)>>)
<1>1. /\ item \in [type : {"array"}, len : Nat, items : Seq(Leaf)]
      /\ item.items \in Seq(Leaf)
  BY DEF Nested1, Leaf, ArrayOf
<1>2. item.items[1] \in Leaf /\ item.items[2] \in Leaf
  BY <1>1
<1>3. /\ item.items[1].int \in Int /\ item.items[1] = IntItem(item.items[1].int)
      /\ item.items[2].int \in Int /\ item.items[2] = IntItem(item.items[2].int)
  BY <1>2, IntShape DEF Nested1
<1>4. item.items = <<item.items[1], item.items[2]>>
  BY <1>1
<1>. QED
  BY <1>1, <1>3, <1>4 DEF ArrayItem

\* A complete array of typed elements is a typed item.
LEMMA ArrayItemType ==
  ASSUME NEW S, NEW s \in Seq(S)
  PROVE  ArrayItem(s) \in ArrayOf(S)
<1>1. Len(s) \in Nat /\ Len(s) <= Len(s)
  OBVIOUS
<1>2. ArrayItem(s) \in [type : {"array"}, len : Nat, items : Seq(S)]
  BY <1>1 DEF ArrayItem
<1>3. ArrayItem(s).items = s /\ ArrayItem(s).len = Len(s)
  BY DEF ArrayItem
<1>4. Len(ArrayItem(s).items) <= ArrayItem(s).len
  BY <1>1, <1>3, Zenon
<1>. QED
  BY <1>2, <1>4 DEF ArrayOf

\* A pair of integers is a typed item.
LEMMA PairInNested1 ==
  ASSUME NEW m \in Int, NEW n \in Int
  PROVE  ArrayItem(<<IntItem(m), IntItem(n)>>) \in Nested1
<1>1. IntItem(m) \in Leaf /\ IntItem(n) \in Leaf
  BY DEF IntItem, Leaf
<1>2. <<IntItem(m), IntItem(n)>> \in Seq(Leaf)
  BY <1>1
<1>. QED
  BY <1>2, ArrayItemType DEF Nested1

\* The shapes of AsIdOrRange.
LEMMA EntryTypes ==
  ASSUME NEW entry \in AsIdOrRange
  PROVE  /\ entry.kind \in {"id", "range"}
         /\ entry.kind = "id" => entry.as \in U64 /\ entry = AsId(entry.as)
         /\ entry.kind = "range" => /\ entry.min \in U64 /\ entry.max \in U64
                                    /\ entry = AsRange(entry.min, entry.max)
         /\ LastNumber(entry) \in U64
BY DEF AsIdOrRange, AsId, AsRange, LastNumber

\* The shapes of Option<Vec<AsIdOrRange>>.
LEMMA ListTypes ==
  ASSUME NEW v \in Value
  PROVE  /\ v.kind \in {"inherit", "listed"}
         /\ v.kind = "inherit" => v = Inherit
         /\ v.kind = "listed" => v.ids \in Seq(AsIdOrRange) /\ v = Listed(v.ids)
         /\ v # NoValue
BY DEF Value, Inherit, Listed, NoValue

\* The chain state between two entries is a u64 number.
LEMMA BeforeType ==
  ASSUME NEW s \in Seq(AsIdOrRange), NEW k \in 1 .. (Len(s) + 1)
  PROVE  Before(s, k) \in U64
<1>1. CASE k = 1
  BY <1>1, U64MaxAssumption DEF Before, U64
<1>2. CASE k # 1
  <2>1. s[k - 1] \in AsIdOrRange
    BY <1>2
  <2>. QED
    BY <1>2, <2>1, EntryTypes DEF Before
<1>. QED
  BY <1>1, <1>2

\* The encoding of an entry depends on that entry and the one before it.
LEMMA EntryOfPrefix ==
  ASSUME NEW s, NEW t, NEW k \in Nat \ {0},
         s[k] = t[k], k # 1 => s[k - 1] = t[k - 1]
  PROVE  EncodedEntry(s, k) = EncodedEntry(t, k)
BY DEF EncodedEntry, Before

\* Appending an entry leaves the encodings of the entries before it alone.
LEMMA AppendEncoded ==
  ASSUME NEW s \in Seq(AsIdOrRange), NEW entry \in AsIdOrRange
  PROVE  /\ Append(s, entry) \in Seq(AsIdOrRange)
         /\ Len(Append(s, entry)) = Len(s) + 1
         /\ Append(s, entry)[Len(s) + 1] = entry
         /\ \A k \in 1 .. Len(s) : /\ Append(s, entry)[k] = s[k]
                                   /\ EncodedEntry(Append(s, entry), k)
                                        = EncodedEntry(s, k)
         /\ Before(Append(s, entry), Len(s) + 1) = Before(s, Len(s) + 1)
         /\ Before(Append(s, entry), Len(s) + 2) = LastNumber(entry)
<1>. DEFINE t == Append(s, entry)
<1>1. /\ t \in Seq(AsIdOrRange) /\ Len(t) = Len(s) + 1 /\ t[Len(s) + 1] = entry
      /\ \A k \in 1 .. Len(s) : t[k] = s[k]
  OBVIOUS
<1>2. ASSUME NEW k \in 1 .. Len(s) PROVE EncodedEntry(t, k) = EncodedEntry(s, k)
  <2>1. k \in Nat \ {0} /\ t[k] = s[k] /\ (k # 1 => t[k - 1] = s[k - 1])
    BY <1>1
  <2>. HIDE DEF t
  <2>. QED
    BY <2>1, EntryOfPrefix
<1>3. Before(t, Len(s) + 1) = Before(s, Len(s) + 1)
  <2>1. Len(s) + 1 # 1 => Len(s) \in 1 .. Len(s)
    OBVIOUS
  <2>. QED
    BY <1>1, <2>1 DEF Before
<1>4. Before(t, Len(s) + 2) = LastNumber(entry)
  BY <1>1 DEF Before
<1>. QED
  BY <1>1, <1>2, <1>3, <1>4

\* The decoder, in step with the encoder, reads from the element written for
\* an entry that very entry and refuses none: ReadsId, ReadsRange and
\* RangeBounds on an element of encode_as_identifiers.
LEMMA ReadsWhatWasWritten ==
  ASSUME NEW s \in Seq(AsIdOrRange), NEW k \in 1 .. Len(s),
         previous = Before(s, k), first = (k = 1)
  PROVE  LET item == EncodedEntry(s, k)
         IN  \/ /\ ReadsId(item) /\ item.type = "int"
                /\ s[k] = AsId(NextAbsolute(previous, first, item.int))
             \/ /\ ReadsRange(item) /\ item.type = "array"
                /\ s[k] = AsRange(RangeBounds(item).min, RangeBounds(item).max)
<1>. DEFINE item == EncodedEntry(s, k)
<1>1. /\ s[k] \in AsIdOrRange /\ Before(s, k) \in U64 /\ (k = 1) \in BOOLEAN
  BY BeforeType
<1>2. CASE s[k].kind = "id"
  <2>1. item = IntItem(NextDelta(previous, first, s[k].as))
    BY <1>2 DEF EncodedEntry
  <2>2. s[k].as \in U64 /\ s[k] = AsId(s[k].as)
    BY <1>1, <1>2, EntryTypes
  <2>3. /\ NextDelta(previous, first, s[k].as) \in CborInt
        /\ NextAbsolute(previous, first, NextDelta(previous, first, s[k].as))
              = s[k].as
    BY <1>1, <2>2, DeltaChainInverse
  <2>4. item.type = "int" /\ item.int = NextDelta(previous, first, s[k].as)
    BY <2>1 DEF IntItem
  <2>. QED
    BY <2>2, <2>3, <2>4 DEF ReadsId, IsInt
<1>3. CASE s[k].kind = "range"
  <2>. DEFINE d1 == NextDelta(previous, first, s[k].min)
              d2 == NextDelta(s[k].min, FALSE, s[k].max)
  <2>1. item = ArrayItem(<<IntItem(d1), IntItem(d2)>>)
    BY <1>3 DEF EncodedEntry
  <2>2. /\ s[k].min \in U64 /\ s[k].max \in U64
        /\ s[k] = AsRange(s[k].min, s[k].max)
    BY <1>1, <1>3, EntryTypes
  <2>3. /\ d1 \in CborInt /\ NextAbsolute(previous, first, d1) = s[k].min
        /\ d2 \in CborInt /\ NextAbsolute(s[k].min, FALSE, d2) = s[k].max
    BY <1>1, <2>2, DeltaChainInverse
  <2>. HIDE DEF d1, d2
  <2>4. /\ item.type = "array" /\ item.len = 2 /\ Len(item.items) = 2
        /\ item.items[1] = IntItem(d1) /\ item.items[2] = IntItem(d2)
    BY <2>1 DEF ArrayItem
  <2>5. /\ \A i \in 1 .. 2 : /\ IsInt(item.items[i])
                             /\ item.items[i].int \in CborInt
        /\ item.items[1].int = d1 /\ item.items[2].int = d2
    BY <2>3, <2>4 DEF IntItem, IsInt
  <2>6. RangeBounds(item) = [min |-> s[k].min, max |-> s[k].max]
    BY <2>3, <2>5 DEF RangeBounds
  <2>. QED
    BY <2>2, <2>4, <2>5, <2>6 DEF ReadsRange
<1>. QED
  BY <1>1, <1>2, <1>3, EntryTypes

-----------------------------------------------------------------------------
\* The invariant holds in both kinds of initial state.
LEMMA InitInv == Init => IInv
<1>. SUFFICES ASSUME Init PROVE IInv
  OBVIOUS
<1>1. TypeOK
  BY CallersAssumption, ForeignAssumption, U64MaxAssumption DEF Init, TypeOK, U64
<1>2. HeldInv
  <2>1. \A v \in Callers : v # NoValue
    BY CallersAssumption, ListTypes
  <2>2. \A w \in Foreign : w # NoWire
    BY ForeignAssumption DEF Nested2, ArrayOf, Leaf, NoWire
  <2>. QED
    BY <2>1, <2>2 DEF Init, HeldInv
<1>3. EncoderInv /\ DecoderInv
  BY DEF Init, EncoderInv, DecoderInv
<1>. QED
  BY <1>1, <1>2, <1>3 DEF IInv

-----------------------------------------------------------------------------
\* Steps of the encoder keep the invariant and the value, and write what
\* WireOf says.
LEMMA EncodeInvariant ==
  ASSUME IInv, Encode
  PROVE  IInv' /\ value' = value /\ (wire # NoWire => wire' = wire)
<1>. USE DEF IInv
<1>1. CASE EncodeInherit
  <2>1. value \in Value /\ WireOf(value) = NullItem
    BY <1>1 DEF EncodeInherit, HeldInv, TypeOK, WireOf
  <2>2. TypeOK'
    BY <1>1 DEF EncodeInherit, TypeOK, chain, Nested2, Leaf, NullItem
  <2>3. HeldInv' /\ wire' # NoWire
    BY <1>1, <2>1 DEF EncodeInherit, HeldInv, NullItem, NoWire, chain, WireOf
  <2>4. EncoderInv' /\ DecoderInv'
    BY <1>1 DEF EncodeInherit, EncoderInv, DecoderInv
  <2>. QED
    BY <1>1, <2>1, <2>2, <2>3, <2>4 DEF EncodeInherit, HeldInv
<1>2. CASE EncodeList
  <2>1. value \in Value /\ value.ids \in Seq(AsIdOrRange)
    BY <1>2, ListTypes DEF EncodeList, HeldInv, TypeOK
  <2>2. TypeOK'
    BY <1>2, U64MaxAssumption DEF EncodeList, StartChain, TypeOK, U64
  <2>3. HeldInv'
    BY <1>2 DEF EncodeList, HeldInv, WireOf
  <2>4. EncoderInv'
    <3>1. /\ value' = value /\ value.kind = "listed" /\ items' = <<>>
          /\ previous' = 0 /\ first' = TRUE
      BY <1>2 DEF EncodeList, StartChain
    <3>2. Len(items') = 0 /\ Len(value.ids) \in Nat /\ 1 .. Len(items') = {}
      BY <2>1, <3>1
    <3>3. Before(value'.ids, Len(items') + 1) = 0
      BY <3>1, <3>2 DEF Before
    <3>4. first' = (Len(items') = 0)
      BY <3>1, <3>2
    <3>5. Len(items') <= Len(value'.ids)
      BY <3>1, <3>2
    <3>6. \A k \in 1 .. Len(items') : items'[k] = EncodedEntry(value'.ids, k)
      BY <3>2
    <3>. QED
      BY <3>1, <3>3, <3>4, <3>5, <3>6 DEF EncoderInv
  <2>5. DecoderInv'
    BY <1>2 DEF EncodeList, DecoderInv
  <2>. QED
    BY <1>2, <2>2, <2>3, <2>4, <2>5 DEF EncodeList
<1>3. ASSUME EncodeId \/ EncodeRange
      PROVE  IInv' /\ value' = value /\ wire' = wire
  <2>. DEFINE k == Len(items) + 1
              item == EncodedEntry(value.ids, k)
  <2>1. /\ value \in Value /\ value.ids \in Seq(AsIdOrRange)
        /\ k \in 1 .. Len(value.ids) /\ value.ids[k] \in AsIdOrRange
        /\ previous = Before(value.ids, k) /\ first = (k = 1)
        /\ previous \in U64 /\ first \in BOOLEAN /\ Entry = value.ids[k]
        /\ pc = "encoding" /\ items \in Seq(Nested1)
    BY <1>3, ListTypes
    DEF EncodeId, EncodeRange, Encoding, Entry, HeldInv, TypeOK, EncoderInv
  <2>2. /\ pc' = pc /\ items' = Append(items, item) /\ item \in Nested1
        /\ previous' = LastNumber(value.ids[k]) /\ first' = FALSE
        /\ UNCHANGED <<value, wire, ids>>
    <3>1. CASE EncodeId
      <4>1. value.ids[k].kind = "id" /\ value.ids[k].as \in U64
        BY <2>1, <3>1, EntryTypes DEF EncodeId, Encoding
      <4>2. NextDelta(previous, first, value.ids[k].as) \in CborInt
        BY <2>1, <4>1, DeltaChainInverse
      <4>3. item = IntItem(NextDelta(previous, first, value.ids[k].as))
        BY <2>1, <4>1 DEF EncodedEntry
      <4>4. item \in Nested1
        BY <4>2, <4>3, U64MaxAssumption DEF CborInt, IntItem, Nested1, Leaf
      <4>. HIDE DEF item, k
      <4>. QED
        BY <2>1, <3>1, <4>1, <4>2, <4>3, <4>4 DEF EncodeId, Write, LastNumber
    <3>2. CASE EncodeRange
      <4>. DEFINE d1 == NextDelta(previous, first, value.ids[k].min)
                  d2 == NextDelta(value.ids[k].min, FALSE, value.ids[k].max)
      <4>1. /\ value.ids[k].kind = "range"
            /\ value.ids[k].min \in U64 /\ value.ids[k].max \in U64
        BY <2>1, <3>2, EntryTypes DEF EncodeRange, Encoding
      <4>2. d1 \in CborInt /\ d2 \in CborInt
        BY <2>1, <4>1, DeltaChainInverse
      <4>3. item = ArrayItem(<<IntItem(d1), IntItem(d2)>>)
        BY <2>1, <4>1 DEF EncodedEntry
      <4>4. item \in Nested1
        <5>1. d1 \in Int /\ d2 \in Int
          <6>. HIDE DEF d1, d2
          <6>. QED
            BY <4>2, U64MaxAssumption DEF CborInt
        <5>. QED
          BY <4>3, <5>1, PairInNested1
      <4>5. EncodeRange => Write({d1, d2}, item, value.ids[k].max)
        BY <2>1, <4>3 DEF EncodeRange
      <4>. HIDE DEF item, k, d1, d2
      <4>. QED
        BY <2>1, <3>2, <4>1, <4>2, <4>4, <4>5 DEF Write, LastNumber
    <3>. QED
      BY <1>3, <3>1, <3>2
  <2>. HIDE DEF item
  <2>3. /\ items' \in Seq(Nested1) /\ Len(items') = k
        /\ \A j \in 1 .. Len(items) : items'[j] = items[j]
        /\ items'[k] = item
    BY <2>1, <2>2
  <2>4. TypeOK'
    <3>1. LastNumber(value.ids[k]) \in U64
      BY <2>1, EntryTypes
    <3>. QED
      BY <2>2, <2>3, <3>1 DEF TypeOK
  <2>5. EncoderInv'
    <3>1. Before(value.ids, k + 1) = LastNumber(value.ids[k])
      BY <2>1 DEF Before
    <3>2. \A j \in 1 .. k : items'[j] = EncodedEntry(value.ids, j)
      BY <2>1, <2>3 DEF EncoderInv, item
    <3>3. /\ value' = value /\ value.kind = "listed"
          /\ k <= Len(value.ids) /\ Len(items') = k /\ k \in Nat \ {0}
          /\ previous' = Before(value.ids, k + 1) /\ first' = FALSE
      BY <2>1, <2>2, <2>3, <3>1 DEF EncoderInv
    <3>. HIDE DEF k
    <3>4. /\ \A j \in 1 .. Len(items') : items'[j] = EncodedEntry(value'.ids, j)
          /\ previous' = Before(value'.ids, Len(items') + 1)
          /\ Len(items') <= Len(value'.ids) /\ value'.kind = "listed"
      BY <3>2, <3>3
    <3>5. first' = (Len(items') = 0)
      BY <3>3
    <3>. QED
      BY <3>4, <3>5 DEF EncoderInv
  <2>6. HeldInv' /\ DecoderInv'
    BY <2>1, <2>2 DEF HeldInv, DecoderInv, WireOf
  <2>. QED
    BY <2>2, <2>4, <2>5, <2>6
<1>4. CASE EncodeEnd
  <2>1. /\ value \in Value /\ value.kind = "listed" /\ items \in Seq(Nested1)
        /\ Len(items) = Len(value.ids) /\ value # NoValue
        /\ value.ids \in Seq(AsIdOrRange)
        /\ \A j \in 1 .. Len(items) : items[j] = EncodedEntry(value.ids, j)
    BY <1>4, ListTypes DEF EncodeEnd, HeldInv, TypeOK, EncoderInv
  <2>2. items = EncodedItems(value.ids)
    BY <2>1 DEF EncodedItems
  <2>3. wire' = WireOf(value) /\ wire' # NoWire
    BY <1>4, <2>1, <2>2 DEF EncodeEnd, WireOf, ArrayItem, NoWire
  <2>4. wire' \in Nested2
    BY <1>4, <2>1 DEF EncodeEnd, ArrayItem, Nested2, ArrayOf
  <2>5. TypeOK'
    BY <1>4, <2>4 DEF EncodeEnd, TypeOK, chain
  <2>6. HeldInv' /\ EncoderInv' /\ DecoderInv'
    BY <1>4, <2>1, <2>3 DEF EncodeEnd, HeldInv, EncoderInv, DecoderInv, WireOf
  <2>. QED
    BY <1>4, <2>1, <2>3, <2>5, <2>6 DEF EncodeEnd, HeldInv
<1>. QED
  BY <1>1, <1>2, <1>3, <1>4 DEF Encode

-----------------------------------------------------------------------------
\* What the wire is while the decoder reads it.
LEMMA WireTypes ==
  ASSUME IInv, pc = "decoding"
  PROVE  /\ wire \in Nested2 /\ wire.type = "array" /\ wire.len \in Nat
         /\ wire.items \in Seq(Nested1) /\ Len(wire.items) <= wire.len
         /\ wire = [type |-> "array", len |-> wire.len, items |-> wire.items]
         /\ ids \in Seq(AsIdOrRange) /\ Len(ids) <= Len(wire.items)
<1>1. wire \in Nested2 /\ wire.type = "array"
  BY DEF IInv, HeldInv, DecoderInv, TypeOK
<1>2. wire \in {a \in [type : {"array"}, len : Nat, items : Seq(Nested1)] :
                 Len(a.items) <= a.len}
  BY <1>1 DEF Nested2, ArrayOf, Leaf
<1>. QED
  BY <1>1, <1>2 DEF IInv, DecoderInv, TypeOK

\* When a value is held, the decoder reads the wire written for it, and is in
\* step with the encoder that wrote it.
LEMMA InStep ==
  ASSUME IInv, pc = "decoding", value # NoValue
  PROVE  /\ value.ids \in Seq(AsIdOrRange) /\ value = Listed(value.ids)
         /\ wire.len = Len(value.ids) /\ Len(wire.items) = Len(value.ids)
         /\ \A k \in 1 .. Len(value.ids) : wire.items[k] = EncodedEntry(value.ids, k)
         /\ \A k \in 1 .. Len(ids) : ids[k] = value.ids[k]
         /\ Before(ids, Position) = Before(value.ids, Position)
<1>1. /\ value \in Value /\ value.kind = "listed" /\ wire = WireOf(value)
      /\ \A k \in 1 .. Len(ids) : ids[k] = value.ids[k]
  BY DEF IInv, HeldInv, DecoderInv, TypeOK
<1>2. value.ids \in Seq(AsIdOrRange) /\ value = Listed(value.ids)
  BY <1>1, ListTypes
<1>3. wire = ArrayItem(EncodedItems(value.ids))
  BY <1>1 DEF WireOf
<1>4. /\ Len(EncodedItems(value.ids)) = Len(value.ids)
      /\ \A k \in 1 .. Len(value.ids) :
            EncodedItems(value.ids)[k] = EncodedEntry(value.ids, k)
  BY <1>2 DEF EncodedItems
<1>5. wire.len = Len(value.ids) /\ wire.items = EncodedItems(value.ids)
  BY <1>3, <1>4 DEF ArrayItem
<1>6. Before(ids, Position) = Before(value.ids, Position)
  <2>1. ids \in Seq(AsIdOrRange)
    BY WireTypes
  <2>2. Len(ids) # 0 => ids[Len(ids)] = value.ids[Len(ids)]
    BY <1>1, <2>1
  <2>. QED
    BY <2>1, <2>2 DEF Before, Position
<1>. QED
  BY <1>1, <1>2, <1>4, <1>5, <1>6

\* With a value held, the element at the decoder's position reads as the
\* entry of the value at that position.
LEMMA ReadsHeldEntry ==
  ASSUME IInv, pc = "decoding", value # NoValue, Position <= wire.len
  PROVE  /\ HasElement(wire, Position)
         /\ \/ /\ ReadsId(Current) /\ Current.type = "int"
               /\ value.ids[Position]
                    = AsId(NextAbsolute(previous, first, Current.int))
            \/ /\ ReadsRange(Current) /\ Current.type = "array"
               /\ value.ids[Position]
                    = AsRange(RangeBounds(Current).min, RangeBounds(Current).max)
<1>1. /\ value.ids \in Seq(AsIdOrRange) /\ Position \in 1 .. Len(value.ids)
      /\ Current = EncodedEntry(value.ids, Position)
      /\ HasElement(wire, Position)
  BY WireTypes, InStep DEF Position, Current, HasElement
<1>2. previous = Before(value.ids, Position) /\ first = (Position = 1)
  BY WireTypes, InStep DEF IInv, DecoderInv, Position
<1>. QED
  BY <1>1, <1>2, ReadsWhatWasWritten

-----------------------------------------------------------------------------
\* Steps of the decoder keep the invariant, and keep a value that was held
\* already; a held value is never refused.
LEMMA DecodeInvariant ==
  ASSUME IInv, Decode
  PROVE  /\ IInv' /\ wire' = wire
         /\ value # NoValue => value' = value
<1>. USE DEF IInv
<1>1. CASE DecodeInherit
  <2>1. wire \in Nested2
    BY <1>1 DEF DecodeInherit, HeldInv, TypeOK
  <2>2. wire = NullItem /\ value' = Inherit /\ wire' = wire
    BY <1>1, <2>1 DEF DecodeInherit, IsNull, NullItem, Nested2, Leaf, ArrayOf
  <2>3. Inherit \in Value /\ WireOf(Inherit) = NullItem /\ Inherit # NoValue
    BY DEF Value, WireOf, Inherit, NoValue
  <2>4. value # NoValue => value = Inherit
    <3>1. value # NoValue => WireOf(value) = NullItem /\ value \in Value
      BY <1>1, <2>2 DEF DecodeInherit, HeldInv, TypeOK
    <3>. QED
      BY <3>1, ListTypes DEF WireOf, NullItem, ArrayItem
  <2>5. TypeOK'
    BY <1>1, <2>2, <2>3 DEF DecodeInherit, TypeOK, chain
  <2>6. HeldInv' /\ EncoderInv' /\ DecoderInv'
    BY <1>1, <2>2, <2>3 DEF DecodeInherit, HeldInv, EncoderInv, DecoderInv
  <2>. QED
    BY <2>2, <2>4, <2>5, <2>6
<1>2. CASE DecodeList
  <2>1. TypeOK'
    BY <1>2, U64MaxAssumption DEF DecodeList, StartChain, TypeOK, U64
  <2>2. HeldInv' /\ EncoderInv'
    BY <1>2 DEF DecodeList, HeldInv, EncoderInv, WireOf
  <2>3. DecoderInv'
    <3>1. wire \in Nested2 /\ wire.type = "array"
      BY <1>2 DEF DecodeList, HeldInv, TypeOK
    <3>2. Len(wire.items) \in Nat
      BY <3>1 DEF Nested2, ArrayOf, Leaf
    <3>3. value # NoValue => value.kind = "listed"
      BY <1>2, ListTypes
      DEF DecodeList, HeldInv, TypeOK, WireOf, NullItem, NoWire
    <3>4. /\ wire' = wire /\ value' = value /\ ids' = <<>>
          /\ previous' = 0 /\ first' = TRUE
      BY <1>2 DEF DecodeList, StartChain
    <3>5. Len(ids') = 0 /\ 1 .. Len(ids') = {} /\ Before(ids', Len(ids') + 1) = 0
      BY <3>4 DEF Before
    <3>6. /\ Len(ids') <= Len(wire'.items)
          /\ \A k \in 1 .. Len(ids') : wire'.items[k] = EncodedEntry(ids', k)
          /\ \A k \in 1 .. Len(ids') : ids'[k] = value'.ids[k]
          /\ previous' = Before(ids', Len(ids') + 1)
      BY <3>2, <3>4, <3>5
    <3>7. first' = (Len(ids') = 0)
      BY <3>4, <3>5, Zenon
    <3>. QED
      BY <3>1, <3>3, <3>4, <3>6, <3>7 DEF DecoderInv
  <2>. QED
    BY <1>2, <2>1, <2>2, <2>3 DEF DecodeList
<1>3. CASE DecodeRefuse
  <2>1. value = NoValue
    <3>1. value # NoValue => wire = WireOf(value) /\ value \in Value
      BY <1>3 DEF DecodeRefuse, HeldInv, TypeOK
    <3>. QED
      BY <1>3, <3>1 DEF DecodeRefuse, WireOf, NullItem, ArrayItem
  <2>2. IInv'
    BY <1>3, <2>1
    DEF DecodeRefuse, Refuse, chain, TypeOK, HeldInv, EncoderInv, DecoderInv
  <2>. QED
    BY <1>3, <2>1, <2>2 DEF DecodeRefuse, Refuse
<1>4. ASSUME DecodeId \/ DecodeRange
      PROVE  /\ IInv' /\ wire' = wire
             /\ value # NoValue => value' = value
  <2>1. /\ pc = "decoding" /\ HasElement(wire, Position)
        /\ ids \in Seq(AsIdOrRange) /\ Current \in Nested1
        /\ Position = Len(ids) + 1 /\ Position <= Len(wire.items)
        /\ previous = Before(ids, Position) /\ first = (Position = 1)
        /\ previous \in U64 /\ first \in BOOLEAN
    <3>1. pc = "decoding" /\ HasElement(wire, Position)
      BY <1>4 DEF DecodeId, DecodeRange
    <3>2. Position = Len(ids) + 1 /\ Position \in 1 .. Len(wire.items)
      BY <3>1, WireTypes DEF Position, HasElement
    <3>. QED
      BY <3>1, <3>2, WireTypes DEF Current, DecoderInv, TypeOK
  <2>2. \E entry \in AsIdOrRange :
          /\ ids' = Append(ids, entry)
          /\ previous' = LastNumber(entry) /\ first' = FALSE
          /\ UNCHANGED <<pc, value, wire, items>>
          /\ Current = EncodedEntry(ids', Position)
          /\ value # NoValue => entry = value.ids[Position]
    <3>1. CASE DecodeId
      <4>. DEFINE abs == NextAbsolute(previous, first, Current.int)
                  entry == AsId(abs)
      <4>1. abs \in U64 /\ Current.int \in Int /\ Current = IntItem(Current.int)
        BY <2>1, <3>1, IntShape DEF DecodeId, ReadsId
      <4>2. /\ entry \in AsIdOrRange /\ LastNumber(entry) = abs
            /\ entry.kind = "id" /\ entry.as = abs
        BY <4>1 DEF AsId, AsIdOrRange, LastNumber
      <4>3. Push(entry, abs)
        BY <3>1 DEF DecodeId
      <4>4. Current = EncodedEntry(Append(ids, entry), Position)
        <5>1. /\ Append(ids, entry)[Position] = entry
              /\ Before(Append(ids, entry), Position) = previous
          BY <2>1, <4>2, AppendEncoded
        <5>2. NextDelta(previous, first, abs) = Current.int
          BY <2>1, <4>1, DeltaChainInverse
        <5>. HIDE DEF abs, entry
        <5>. QED
          BY <2>1, <4>1, <4>2, <5>1, <5>2 DEF EncodedEntry
      <4>5. value # NoValue => entry = value.ids[Position]
        BY <2>1, <3>1, ReadsHeldEntry, WireTypes
        DEF DecodeId, ReadsId, IsInt, HasElement
      <4>. HIDE DEF abs, entry
      <4>. QED
        BY <4>2, <4>3, <4>4, <4>5 DEF Push
    <3>2. CASE DecodeRange
      <4>. DEFINE min == RangeBounds(Current).min
                  max == RangeBounds(Current).max
                  entry == AsRange(min, max)
      <4>1. /\ Current.items[1].int \in Int /\ Current.items[2].int \in Int
            /\ Current = ArrayItem(<<IntItem(Current.items[1].int),
                                     IntItem(Current.items[2].int)>>)
            /\ min \in U64 /\ max \in U64
        <5>1. /\ Current.type = "array" /\ Current.len = 2
              /\ Len(Current.items) = 2
              /\ IsInt(Current.items[1]) /\ IsInt(Current.items[2])
              /\ min \in U64 /\ max \in U64
          BY <3>2 DEF DecodeRange, ReadsRange
        <5>. QED
          BY <2>1, <5>1, PairShape
      <4>2. /\ min = NextAbsolute(previous, first, Current.items[1].int)
            /\ max = NextAbsolute(min, FALSE, Current.items[2].int)
        BY DEF RangeBounds
      <4>3. Push(entry, max)
        BY <3>2 DEF DecodeRange
      <4>. HIDE DEF min, max
      <4>4. /\ entry \in AsIdOrRange /\ LastNumber(entry) = max
            /\ entry.kind = "range" /\ entry.min = min /\ entry.max = max
        BY <4>1 DEF AsRange, AsIdOrRange, LastNumber
      <4>5. Current = EncodedEntry(Append(ids, entry), Position)
        <5>1. /\ Append(ids, entry)[Position] = entry
              /\ Before(Append(ids, entry), Position) = previous
          BY <2>1, <4>4, AppendEncoded
        <5>2. NextDelta(previous, first, min) = Current.items[1].int
          <6>1. \A raw \in Int : NextDelta(previous, first, NextAbsolute(previous, first, raw)) = raw
            BY <2>1, DeltaChainInverse
          <6>. QED
            BY <4>1, <4>2, <6>1
        <5>3. NextDelta(min, FALSE, max) = Current.items[2].int
          <6>1. \A raw \in Int : NextDelta(min, FALSE, NextAbsolute(min, FALSE, raw)) = raw
            BY <4>1, DeltaChainInverse
          <6>. QED
            BY <4>1, <4>2, <6>1
        <5>. HIDE DEF entry
        <5>. QED
          BY <2>1, <4>1, <4>4, <5>1, <5>2, <5>3 DEF EncodedEntry
      <4>6. value # NoValue => entry = value.ids[Position]
        <5>1. Current.type = "array"
          BY <3>2 DEF DecodeRange, ReadsRange
        <5>. QED
          BY <2>1, <5>1, ReadsHeldEntry, WireTypes DEF HasElement, min, max
      <4>. HIDE DEF entry
      <4>. QED
        BY <4>3, <4>4, <4>5, <4>6 DEF Push
    <3>. QED
      BY <1>4, <3>1, <3>2
  <2>3. PICK entry \in AsIdOrRange :
          /\ ids' = Append(ids, entry)
          /\ previous' = LastNumber(entry) /\ first' = FALSE
          /\ UNCHANGED <<pc, value, wire, items>>
          /\ Current = EncodedEntry(ids', Position)
          /\ value # NoValue => entry = value.ids[Position]
    BY <2>2
  <2>4. /\ ids' \in Seq(AsIdOrRange) /\ Len(ids') = Position
        /\ ids'[Position] = entry
        /\ \A k \in 1 .. Len(ids) : /\ ids'[k] = ids[k]
                                   /\ EncodedEntry(ids', k) = EncodedEntry(ids, k)
        /\ Before(ids', Position + 1) = LastNumber(entry)
    BY <2>1, <2>3, AppendEncoded
  <2>5. TypeOK'
    BY <2>3, <2>4, EntryTypes DEF TypeOK
  <2>6. HeldInv' /\ EncoderInv'
    BY <2>1, <2>3 DEF HeldInv, EncoderInv, WireOf
  <2>7. DecoderInv'
    <3>1. \A k \in 1 .. Position : wire.items[k] = EncodedEntry(ids', k)
      BY <2>1, <2>3, <2>4 DEF DecoderInv, Current
    <3>2. value # NoValue =>
            value.kind = "listed" /\ \A k \in 1 .. Position : ids'[k] = value.ids[k]
      BY <2>1, <2>3, <2>4 DEF DecoderInv
    <3>3. /\ wire' = wire /\ value' = value /\ wire.type = "array"
          /\ Len(ids') = Position /\ Position <= Len(wire.items)
          /\ Position \in Nat \ {0}
          /\ previous' = Before(ids', Position + 1) /\ first' = FALSE
      BY <2>1, <2>3, <2>4, WireTypes
    <3>. QED
      BY <3>1, <3>2, <3>3 DEF DecoderInv
  <2>. QED
    BY <2>3, <2>5, <2>6, <2>7
<1>5. CASE RefuseEntry
  <2>1. value = NoValue
    BY <1>5, ReadsHeldEntry DEF RefuseEntry
  <2>2. IInv'
    BY <1>5, <2>1
    DEF RefuseEntry, Refuse, chain, TypeOK, HeldInv, EncoderInv, DecoderInv
  <2>. QED
    BY <1>5, <2>1, <2>2 DEF RefuseEntry, Refuse
<1>6. CASE DecodeEnd
  <2>1. pc = "decoding" /\ Len(ids) = wire.len /\ ids \in Seq(AsIdOrRange)
    BY <1>6, WireTypes DEF DecodeEnd
  <2>2. Listed(ids) \in Value /\ Listed(ids) # NoValue
    BY <2>1 DEF Value, Listed, NoValue
  <2>3. value # NoValue => value = Listed(ids)
    BY <2>1, InStep
  <2>4. wire = WireOf(Listed(ids))
    <3>1. /\ Len(wire.items) = Len(ids) /\ wire.items \in Seq(Nested1)
          /\ wire = [type |-> "array", len |-> wire.len, items |-> wire.items]
      BY <2>1, WireTypes
    <3>2. wire.items = EncodedItems(ids)
      BY <2>1, <3>1 DEF EncodedItems, DecoderInv
    <3>3. WireOf(Listed(ids)) = ArrayItem(EncodedItems(ids))
      BY DEF WireOf, Listed
    <3>. QED
      BY <2>1, <3>1, <3>2, <3>3 DEF ArrayItem
  <2>5. /\ pc' = "encode" /\ value' = Listed(ids)
        /\ UNCHANGED <<wire, items, ids, previous, first>>
    BY <1>6 DEF DecodeEnd, chain
  <2>6. TypeOK'
    BY <2>2, <2>5 DEF TypeOK
  <2>7. HeldInv' /\ EncoderInv' /\ DecoderInv'
    BY <2>2, <2>4, <2>5 DEF HeldInv, EncoderInv, DecoderInv, WireOf
  <2>. QED
    BY <2>3, <2>5, <2>6, <2>7
<1>. HIDE DEF IInv
<1>. QED
  BY <1>1, <1>2, <1>3, <1>4, <1>5, <1>6 DEF Decode

-----------------------------------------------------------------------------
\* Every step keeps the invariant.
LEMMA StepInv == IInv /\ [Next]_vars => IInv'
<1>. SUFFICES ASSUME IInv, [Next]_vars PROVE IInv'
  OBVIOUS
<1>1. CASE Next
  BY <1>1, EncodeInvariant, DecodeInvariant DEF Next
<1>2. CASE UNCHANGED vars
  BY <1>2
  DEF vars, IInv, TypeOK, EncoderInv, DecoderInv, HeldInv, WireOf
<1>. QED
  BY <1>1, <1>2

\* The inductive invariant: encoder and decoder are in step everywhere.
THEOREM Invariance == Spec => []IInv
BY InitInv, StepInv, PTL DEF Spec

\* Every variable keeps its type; in particular the chain state never leaves
\* u64, whatever a peer sends (next_absolute and the u64::try_from after it).
THEOREM TypeCorrect == Spec => []TypeOK
BY Invariance, PTL DEF IInv

\* encode_delta is never asked for a delta that is no CBOR integer, also for
\* values read from a peer, so the `expect' of C509Certificate::encode does
\* not panic on an ASIdentifiers extension.
THEOREM NeverPanics == Spec => []EncodeNeverFails
<1>1. IInv => EncodeNeverFails
  BY DEF IInv, HeldInv, EncodeNeverFails
<1>. QED
  BY <1>1, Invariance, PTL

\* Encoding and decoding a list any number of times returns the same list.
THEOREM RoundTripsAreLossless == Spec => Lossless
<1>1. IInv /\ [Next]_vars => [value # NoValue => value' = value]_vars
  <2>. SUFFICES ASSUME IInv, Next PROVE value # NoValue => value' = value
    OBVIOUS
  <2>. QED
    BY EncodeInvariant, DecodeInvariant DEF Next
<1>. QED
  BY <1>1, Invariance, PTL DEF Spec, Lossless

\* Re-encoding a list that was read writes the item it was read from.
THEOREM WireIsStable == Spec => WireStable
<1>1. IInv /\ [Next]_vars => [wire # NoWire => wire' = wire]_vars
  <2>. SUFFICES ASSUME IInv, Next PROVE wire # NoWire => wire' = wire
    OBVIOUS
  <2>. QED
    BY EncodeInvariant, DecodeInvariant DEF Next
<1>. QED
  BY <1>1, Invariance, PTL DEF Spec, WireStable

\* The two functions implement the abstract codec of RoundTrip: once a value
\* is held it neither changes nor is refused, and encoding does not fail.
THEOREM Refinement == Spec => KeepsPromise
<1>. DEFINE status == CASE pc = "panicked"  -> "panicked"
                        [] pc = "refused"   -> "refused"
                        [] value = NoValue  -> "reading"
                        [] OTHER            -> "held"
<1>1. Init => Promise!Init
  BY CallersAssumption, ListTypes DEF Init, Promise!Init
<1>2. IInv /\ IInv' /\ [Next]_vars => [Promise!Next]_(Promise!vars)
  <2>. SUFFICES ASSUME IInv, IInv', [Next]_vars
                PROVE  Promise!Next \/ UNCHANGED Promise!vars
    BY DEF Promise!vars
  <2>1. CASE UNCHANGED vars
    BY <2>1 DEF vars, Promise!vars
  <2>2. CASE Encode
    <3>1. /\ pc \in {"encode", "encoding"} /\ value # NoValue
          /\ value' = value /\ pc' \notin {"panicked", "refused"}
      BY <2>2, EncodeInvariant
      DEF IInv, HeldInv, Encode, EncodeInherit, EncodeList, EncodeId,
          EncodeRange, EncodeEnd, Encoding
    <3>2. status = "held" /\ status' = "held"
      BY <3>1
    <3>. QED
      BY <3>1, <3>2 DEF Promise!vars
  <2>3. CASE Decode
    <3>1. pc \in {"decode", "decoding"} /\ pc' # "panicked"
      BY <2>3
      DEF IInv, HeldInv, Decode, DecodeInherit, DecodeList, DecodeRefuse,
          DecodeId, DecodeRange, RefuseEntry, DecodeEnd
    <3>2. value' \in Value \cup {NoValue} /\ (pc' = "refused" => value' = NoValue)
      BY DEF IInv, HeldInv, TypeOK
    <3>3. CASE value # NoValue
      BY <2>3, <3>1, <3>2, <3>3, DecodeInvariant DEF Promise!vars
    <3>4. CASE value = NoValue /\ value' # NoValue
      BY <3>1, <3>2, <3>4 DEF Promise!Next, Promise!Accept
    <3>5. CASE value = NoValue /\ value' = NoValue
      BY <3>1, <3>5 DEF Promise!Next, Promise!Refuse, Promise!vars
    <3>. QED
      BY <3>3, <3>4, <3>5
  <2>. QED
    BY <2>1, <2>2, <2>3 DEF Next
<1>. QED
  BY <1>1, <1>2, Invariance, PTL DEF Spec, KeepsPromise, Promise!Spec
=============================================================================
