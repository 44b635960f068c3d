---------------------------- MODULE AsIdentifiers ----------------------------
(***************************************************************************)
(* RFC 3779 ASIdentifiers: encode_as_identifiers and decode_as_identifiers *)
(* of extensions/ip_addr.rs, one action per step of their loops.           *)
(*                                                                         *)
(* A session alternates the two calls on one value without end.  It starts *)
(* at encode with a value a caller built (Callers), or at decode with an   *)
(* item a peer sent (Foreign), which the decoder may refuse.               *)
(***************************************************************************)
EXTENDS DeltaChain, Cbor

CONSTANTS Callers,     \* Option<Vec<AsIdOrRange>> values callers build
          Foreign      \* CBOR items received from peers

-----------------------------------------------------------------------------
(* AsIdOrRange, and Option<Vec<AsIdOrRange>>: None is "inherit".           *)

AsId(v)           == [kind |-> "id", as |-> v]
AsRange(min, max) == [kind |-> "range", min |-> min, max |-> max]
AsIdOrRange       == [kind : {"id"}, as : U64]
                       \cup [kind : {"range"}, min : U64, max : U64]

Inherit     == [kind |-> "inherit"]
Listed(ids) == [kind |-> "listed", ids |-> ids]
Value       == {Inherit} \cup [kind : {"listed"}, ids : Seq(AsIdOrRange)]

NoValue == [kind |-> "none"]     \* nothing decoded yet
NoWire  == [type |-> "none"]     \* nothing encoded yet

ASSUME CallersAssumption == Callers \subseteq Value
ASSUME ForeignAssumption == Foreign \subseteq Nested2

-----------------------------------------------------------------------------
VARIABLES
  pc,          \* the call in progress, or the one to make next
  value,       \* the value held by the caller
  wire,        \* the item that was encoded or received last
  items,       \* encoder: elements written so far
  ids,         \* decoder: `out'
  previous,    \* chain state, in either call
  first
vars == <<pc, value, wire, items, ids, previous, first>>

chain == <<previous, first>>

\* Mistake: the chain goes on from where the call before left it.
StartChainStale == first' = FALSE /\ UNCHANGED previous

StartChain == previous' = 0 /\ first' = TRUE

Init ==
  /\ \/ pc = "encode" /\ value \in Callers /\ wire = NoWire
     \/ pc = "decode" /\ value = NoValue /\ wire \in Foreign
  /\ items = <<>> /\ ids = <<>>
  /\ previous = 0 /\ first = TRUE

-----------------------------------------------------------------------------
(* encode_as_identifiers                                                   *)

EncodeInherit ==
  /\ pc = "encode" /\ value.kind = "inherit"
  /\ wire' = NullItem
  /\ pc' = "decode"
  /\ UNCHANGED <<value, items, ids, chain>>

EncodeList ==
  /\ pc = "encode" /\ value.kind = "listed"
  /\ items' = <<>>
  /\ StartChain
  /\ pc' = "encoding"
  /\ UNCHANGED <<value, wire, ids>>

Entry == value.ids[Len(items) + 1]       \* the entry the encoder is at

Encoding(kind) == /\ pc = "encoding"
                  /\ Len(items) < Len(value.ids)
                  /\ Entry.kind = kind

\* encode_delta fails on a delta that is no CBOR integer, and the error ends
\* in the `expect' of C509Certificate::encode.
Write(deltas, item, abs) ==
  /\ IF deltas \subseteq CborInt
       THEN items' = Append(items, item) /\ pc' = pc
       ELSE items' = items /\ pc' = "panicked"
  /\ previous' = abs
  /\ first' = FALSE
  /\ UNCHANGED <<value, wire, ids>>

EncodeId ==
  /\ Encoding("id")
  /\ LET delta == NextDelta(previous, first, Entry.as)
     IN  Write({delta}, IntItem(delta), Entry.as)

\* Mistake: the chain state is advanced by the lower bound only.
EncodeRangeKeepMin ==
  /\ Encoding("range")
  /\ LET minDelta == NextDelta(previous, first, Entry.min)
         maxDelta == NextDelta(Entry.min, FALSE, Entry.max)
     IN  Write({minDelta, maxDelta},
               ArrayItem(<<IntItem(minDelta), IntItem(maxDelta)>>),
               Entry.min)

EncodeRange ==
  /\ Encoding("range")
  /\ LET minDelta == NextDelta(previous, first, Entry.min)
         maxDelta == NextDelta(Entry.min, FALSE, Entry.max)
     IN  Write({minDelta, maxDelta},
               ArrayItem(<<IntItem(minDelta), IntItem(maxDelta)>>),
               Entry.max)

EncodeEnd ==
  /\ pc = "encoding" /\ Len(items) = Len(value.ids)
  /\ wire' = ArrayItem(items)
  /\ pc' = "decode"
  /\ UNCHANGED <<value, items, ids, chain>>

-----------------------------------------------------------------------------
(* decode_as_identifiers                                                   *)

DecodeInherit ==
  /\ pc = "decode" /\ IsNull(wire)
  /\ value' = Inherit
  /\ pc' = "encode"
  /\ UNCHANGED <<wire, items, ids, chain>>

DecodeList ==
  /\ pc = "decode" /\ wire.type = "array"
  /\ ids' = <<>>
  /\ StartChain
  /\ pc' = "decoding"
  /\ UNCHANGED <<value, wire, items>>

Refuse == pc' = "refused" /\ UNCHANGED <<value, wire, items, ids, chain>>

\* definite_array_len: not an array, or one of indefinite length.
DecodeRefuse == pc = "decode" /\ wire.type \notin {"null", "array"} /\ Refuse

Position == Len(ids) + 1
Current == wire.items[Position]            \* the item the decoder is at

\* Mistake: the sum is not converted to u64 with a check.
ReadsIdUnchecked(item) == IsInt(item) /\ item.int \in CborInt

\* The absolute values of the item are read and each converts to u64.
ReadsId(item) ==
  /\ IsInt(item) /\ item.int \in CborInt
  /\ NextAbsolute(previous, first, item.int) \in U64

\* Mistake: the upper bound is taken relative to the entry before.
RangeBoundsFromPrevious(item) ==
  [min |-> NextAbsolute(previous, first, item.items[1].int),
   max |-> NextAbsolute(previous, first, item.items[2].int)]

RangeBounds(item) ==
  LET min == NextAbsolute(previous, first, item.items[1].int)
  IN  [min |-> min, max |-> NextAbsolute(min, FALSE, item.items[2].int)]

ReadsRange(item) ==
  /\ item.type = "array" /\ item.len = 2 /\ Len(item.items) = 2
  /\ \A i \in 1 .. 2 : IsInt(item.items[i]) /\ item.items[i].int \in CborInt
  /\ RangeBounds(item).min \in U64 /\ RangeBounds(item).max \in U64

Push(entry, abs) ==
  /\ ids' = Append(ids, entry)
  /\ previous' = abs
  /\ first' = FALSE
  /\ UNCHANGED <<pc, value, wire, items>>

DecodeId ==
  /\ pc = "decoding" /\ HasElement(wire, Position) /\ ReadsId(Current)
  /\ LET abs == NextAbsolute(previous, first, Current.int)
     IN  Push(AsId(abs), abs)

DecodeRange ==
  /\ pc = "decoding" /\ HasElement(wire, Position) /\ ReadsRange(Current)
  /\ LET bounds == RangeBounds(Current)
     IN  Push(AsRange(bounds.min, bounds.max), bounds.max)

\* An error of minicbor, a range that is not a pair, or a value beyond u64.
RefuseEntry ==
  /\ pc = "decoding" /\ Position <= wire.len
  /\ HasElement(wire, Position)
       => ~ReadsId(Current) /\ ~ReadsRange(Current)
  /\ Refuse

\* Mistake: one entry more than the header claims is waited for.
DecodeEndLate ==
  /\ pc = "decoding" /\ Len(ids) > wire.len
  /\ value' = Listed(ids)
  /\ pc' = "encode"
  /\ UNCHANGED <<wire, items, ids, chain>>

DecodeEnd ==
  /\ pc = "decoding" /\ Len(ids) = wire.len
  /\ value' = Listed(ids)
  /\ pc' = "encode"
  /\ UNCHANGED <<wire, items, ids, chain>>

-----------------------------------------------------------------------------
Encode == \/ EncodeInherit \/ EncodeList \/ EncodeId \/ EncodeRange
          \/ EncodeEnd
Decode == \/ DecodeInherit \/ DecodeList \/ DecodeRefuse
          \/ DecodeId \/ DecodeRange \/ RefuseEntry \/ DecodeEnd
Next == Encode \/ Decode

\* The calls are sequential code without blocking: a started call goes on.
Spec == Init /\ [][Next]_vars /\ WF_vars(Next)

-----------------------------------------------------------------------------
(* Properties                                                              *)

\* Every variable keeps its type; a chain value read from a peer stays in
\* u64, so the i128 arithmetic of next_absolute cannot overflow.
TypeOK ==
  /\ pc \in {"encode", "encoding", "decode", "decoding", "refused", "panicked"}
  /\ value \in Value \cup {NoValue}
  /\ wire \in Nested2 \cup {NoWire}
  /\ items \in Seq(Nested1)
  /\ ids \in Seq(AsIdOrRange)
  /\ previous \in U64
  /\ first \in BOOLEAN

\* Every delta between two u64 numbers is a CBOR integer, also for values
\* decoded from a peer: encode_delta never fails.
EncodeNeverFails == pc # "panicked"

\* However often a value is encoded and decoded, the decoder returns it
\* entry for entry: the two chains stay in step.
Lossless == [][value # NoValue => value' = value]_vars

\* Whatever item a value was read from, encoding the value writes the same
\* item again: the bytes a certificate's signature covers are reproduced.
WireStable == [][wire # NoWire => wire' = wire]_vars

\* The promise of a codec, with the steps inside a call hidden.
Promise == INSTANCE RoundTrip
             WITH status <- CASE pc = "panicked"  -> "panicked"
                              [] pc = "refused"   -> "refused"
                              [] value = NoValue  -> "reading"
                              [] OTHER            -> "held"
KeepsPromise == Promise!Spec

\* Every call returns, also on a header that claims more than the input has.
CallsReturn == /\ (pc = "encoding") ~> (pc # "encoding")
               /\ (pc = "decoding") ~> (pc # "decoding")
==============================================================================
