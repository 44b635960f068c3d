---------------------------- MODULE GeneralNames ----------------------------
(***************************************************************************)
(* GeneralName (extensions/general_name.rs) and the lists of pairs that    *)
(* several extension values are, as sets, encoders and decoders in the     *)
(* manner of Common.                                                       *)
(***************************************************************************)
EXTENDS Common

CONSTANT NameContents      \* what a Name, a codec of its own, holds

\* The registry's own kinds fit, whatever the width.
ASSUME KindAssumption == I32Max >= 8

-----------------------------------------------------------------------------
(* Lists.  A decoder takes whole arrays only.                              *)

IsFixed(item, n) == IsWhole(item) /\ item.len = n

Elements(item) == {item.items[i] : i \in DOMAIN item.items}

\* Flat pairs: what is accepted as the second item depends on the first.
IsPairs(item) == IsWhole(item) /\ item.len % 2 = 0

Pairs(item) ==
  [i \in 1 .. item.len \div 2 |-> <<item.items[2 * i - 1], item.items[2 * i]>>]

PairSet(item) == {Pairs(item)[i] : i \in 1 .. item.len \div 2}

PairsItem(pairs) ==
  ArrayItem([i \in 1 .. 2 * Len(pairs) |->
               pairs[(i + 1) \div 2][IF i % 2 = 1 THEN 1 ELSE 2]])

-----------------------------------------------------------------------------
(* GeneralNameValue: its variant, by its number in the registry, and its   *)
(* content.  The number of Raw is in no registry.                          *)

DnsName    == 2
RawVariant == -(I32Max + 1)

TextVariants  == {-2, 1, 2, 6}     \* SmtpUtf8Mailbox, Rfc822Name, DnsName, Uri
OtherVariants == {-1, 0}           \* HardwareModuleName, OtherName
Variants == TextVariants \cup OtherVariants \cup {-3, 4, 7, 8, RawVariant}

\* GeneralNameKind::from_repr, with its catch-all arm.
VariantOf(kind) == IF kind \in Variants THEN kind ELSE RawVariant

\* Items with opaque names in them, by the depth of their arrays.
Plain == Leaf \cup [type : {"opaque"}, codec : {"name"}, content : NameContents]
Item1 == Plain \cup ArrayOf(Plain)
Item2 == Plain \cup ArrayOf(Item1)
Item3 == Plain \cup ArrayOf(Item2)
Item4 == Plain \cup ArrayOf(Item3)

\* Items of two levels that are all there: the input ends in none of them.
CompleteOf(S) == {a \in ArrayOf(S) : IsComplete(a)}
Complete == Plain \cup CompleteOf(Plain \cup CompleteOf(Plain))

\* Nothing relates the kind of a caller's name to its variant.
GeneralName ==
  [kind : I32, variant : TextVariants, content : [text : STRING]]
    \cup [kind : I32, variant : OtherVariants, content : [oid : Oids, bytes : Seq(Octet)]]
    \cup [kind : I32, variant : {-3}, content : [mac : MacAddr]]
    \cup [kind : I32, variant : {4}, content : [name : NameContents]]
    \cup [kind : I32, variant : {7}, content : [bytes : Seq(Octet)]]
    \cup [kind : I32, variant : {8}, content : [oid : Oids]]
    \cup [kind : I32, variant : {RawVariant}, content : [cbor : Complete]]

ContentItem(name) ==
  LET c == name.content
  IN  CASE name.variant \in TextVariants  -> TextItem(c.text)
        [] name.variant \in OtherVariants -> ArrayItem(<<BytesItem(c.oid), BytesItem(c.bytes)>>)
        [] name.variant = -3              -> BytesItem(c.mac)
        [] name.variant = 4               -> OpaqueItem("name", c.name)
        [] name.variant = 7               -> BytesItem(c.bytes)
        [] name.variant = 8               -> BytesItem(c.oid)
        [] name.variant = RawVariant      -> c.cbor

\* Mistake: the array around an otherName may be of any length.
ReadsContentLong(variant, item) ==
  /\ variant \in TextVariants  => ReadsText(item)
  /\ variant \in OtherVariants => /\ item.type = "array" /\ HasElement(item, 2)
                                  /\ ReadsOid(item.items[1]) /\ IsBytes(item.items[2])
  /\ variant = -3              => IsBytes(item) /\ Len(item.bytes) \in MacLengths
  /\ variant = 4               => IsOpaque(item, "name")
  /\ variant = 7               => IsBytes(item)
  /\ variant = 8               => ReadsOid(item)
  /\ variant = RawVariant      => item \in Complete

ReadsContent(variant, item) ==
  /\ variant \in TextVariants  => ReadsText(item)
  /\ variant \in OtherVariants => /\ IsFixed(item, 2)
                                  /\ ReadsOid(item.items[1]) /\ IsBytes(item.items[2])
  /\ variant = -3              => IsBytes(item) /\ Len(item.bytes) \in MacLengths
  /\ variant = 4               => IsOpaque(item, "name")
  /\ variant = 7               => IsBytes(item)
  /\ variant = 8               => ReadsOid(item)
  /\ variant = RawVariant      => item \in Complete

ContentRead(variant, item) ==
  CASE variant \in TextVariants  -> [text |-> item.text]
    [] variant \in OtherVariants -> [oid |-> item.items[1].bytes, bytes |-> item.items[2].bytes]
    [] variant = -3              -> [mac |-> item.bytes]
    [] variant = 4               -> [name |-> item.content]
    [] variant = 7               -> [bytes |-> item.bytes]
    [] variant = 8               -> [oid |-> item.bytes]
    [] variant = RawVariant      -> [cbor |-> item]

\* decode_general_names, encode_general_names
ReadsGeneralName(pair) ==
  ReadsI32(pair[1]) /\ ReadsContent(VariantOf(pair[1].int), pair[2])
GeneralNameRead(pair) ==
  LET kind == pair[1].int
  IN  [kind |-> kind, variant |-> VariantOf(kind),
       content |-> ContentRead(VariantOf(kind), pair[2])]
GeneralNameItems(name) == <<IntItem(name.kind), ContentItem(name)>>

ReadsGeneralNames(item) == IsPairs(item) /\ \A pair \in PairSet(item) : ReadsGeneralName(pair)
GeneralNamesRead(item)  == [i \in DOMAIN Pairs(item) |-> GeneralNameRead(Pairs(item)[i])]
GeneralNamesItem(names) == PairsItem([i \in DOMAIN names |-> GeneralNameItems(names[i])])

\* decode_alt_name, encode_alt_name: a single dNSName is its bare text.
IsSingleDnsName(names) ==
  Len(names) = 1 /\ names[1].kind = DnsName /\ names[1].variant = DnsName

ReadsAltName(item) == ReadsText(item) \/ ReadsGeneralNames(item)
AltNameRead(item) ==
  IF ReadsText(item)
    THEN <<[kind |-> DnsName, variant |-> DnsName, content |-> [text |-> item.text]]>>
    ELSE GeneralNamesRead(item)
AltNameItem(names) == IF IsSingleDnsName(names) THEN TextItem(names[1].content.text)
                                                ELSE GeneralNamesItem(names)

\* decode_opt_general_subtree, encode_opt_general_subtree
ReadsSubtree(item) == IsNull(item) \/ ReadsGeneralNames(item)
SubtreeRead(item)  == IF IsNull(item) THEN None ELSE Some(GeneralNamesRead(item))
SubtreeItem(names) == IF names = None THEN NullItem ELSE GeneralNamesItem(names.some)
=============================================================================
