------------------------ MODULE ExtensionValuesProofs ------------------------
(***************************************************************************)
(* Every codec of ExtensionValues undoes itself: what is written is read   *)
(* as it was (the ...Written lemmas), and what is read is written as it    *)
(* was unless it came in a long form (the ...Taken lemmas).  First the     *)
(* building blocks of GeneralNames that the codecs share, lists of pairs,  *)
(* identifiers, optional numbers and general names.  The theorems          *)
(* about the session follow from an invariant that says what the value and *)
(* the item have to do with each other.                                    *)
(***************************************************************************)
EXTENDS ExtensionValues, CommonProofs

-----------------------------------------------------------------------------
(* Items                                                                   *)

\* An item is what its type says and nothing else.
LEMMA ItemShape ==
  ASSUME NEW S, NEW item \in Plain \cup ArrayOf(S)
  PROVE  /\ item.type \in {"int", "bytes", "text", "tag", "null", "opaque", "array", "array_indef"}
         /\ item.type = "int"   => item.int \in Int /\ item = IntItem(item.int)
         /\ item.type = "bytes" => item.bytes \in Seq(Octet) /\ item = BytesItem(item.bytes)
         /\ item.type = "text"  => item.text \in STRING /\ item = TextItem(item.text)
         /\ item.type = "tag"   => /\ item.tag \in Nat /\ item.bytes \in Seq(Octet)
                                   /\ item = TagItem(item.tag, item.bytes)
         /\ item.type = "null"  => item = NullItem
         /\ item.type = "opaque" =>
              item.content \in NameContents /\ item = OpaqueItem("name", item.content)
         /\ item.type = "array" =>
              /\ item.len \in Nat /\ item.items \in Seq(S)
              /\ item = [type |-> "array", len |-> item.len, items |-> item.items]
         /\ item.type = "array_indef" => item.items \in Seq(S)
<1>1. CASE item \in Leaf
  BY <1>1, LeafShape
<1>2. CASE item \in [type : {"opaque"}, codec : {"name"}, content : NameContents]
  BY <1>2 DEF OpaqueItem
<1>3. CASE item \in ArrayOf(S)
  BY <1>3, ArrayShape
<1>. QED
  BY <1>1, <1>2, <1>3 DEF Plain

\* A whole array is the item that its elements make.
LEMMA WholeShape ==
  ASSUME NEW S, NEW item \in Plain \cup ArrayOf(S), IsWhole(item)
  PROVE  /\ item.items \in Seq(S) /\ item.len = Len(item.items)
         /\ item = ArrayItem(item.items)
         /\ \A i \in 1 .. item.len : item.items[i] \in S /\ item.items[i] \in Elements(item)
<1>1. /\ item.items \in Seq(S) /\ item.len = Len(item.items)
      /\ item = [type |-> "array", len |-> item.len, items |-> item.items]
  BY ItemShape DEF IsWhole
<1>2. item = ArrayItem(item.items)
  BY <1>1 DEF ArrayItem
<1>. QED
  BY <1>1, <1>2 DEF Elements

\* Arrays of more items are more arrays.
LEMMA ArrayOfMonotone ==
  ASSUME NEW S, NEW T, S \subseteq T
  PROVE  ArrayOf(S) \subseteq ArrayOf(T)
<1>1. Seq(S) \subseteq Seq(T)
  OBVIOUS
<1>. QED
  BY <1>1 DEF ArrayOf

\* The levels are nested, and a complete item has two.
LEMMA Depths ==
  /\ Leaf \subseteq Plain /\ NullItem \in Leaf
  /\ Plain \subseteq Item1 /\ Item1 \subseteq Item2
  /\ Item2 \subseteq Item3 /\ Item3 \subseteq Item4
  /\ Complete \subseteq Item2
<1>1. Leaf \subseteq Plain /\ NullItem \in Leaf
  BY DEF Plain, Leaf, NullItem
<1>2. Plain \subseteq Item1
  BY DEF Item1
<1>3. Item1 \subseteq Item2
  BY <1>2, ArrayOfMonotone DEF Item1, Item2
<1>4. Item2 \subseteq Item3
  BY <1>3, ArrayOfMonotone DEF Item2, Item3
<1>5. Item3 \subseteq Item4
  BY <1>4, ArrayOfMonotone DEF Item3, Item4
<1>6. Plain \cup CompleteOf(Plain) \subseteq Item1
  BY DEF CompleteOf, Item1
<1>7. CompleteOf(Plain \cup CompleteOf(Plain)) \subseteq ArrayOf(Item1)
  BY <1>6, ArrayOfMonotone DEF CompleteOf
<1>8. Complete \subseteq Item2
  BY <1>7 DEF Complete, Item2
<1>. QED
  BY <1>1, <1>2, <1>3, <1>4, <1>5, <1>8

-----------------------------------------------------------------------------
(* Lists of pairs                                                          *)

\* The flat list of pairs is a whole array of an even length, and its pairs
\* are the ones it was made of.
LEMMA PairsWritten ==
  ASSUME NEW S, NEW pairs \in Seq(S \X S)
  PROVE  LET item == PairsItem(pairs)
         IN  /\ item \in ArrayOf(S) /\ IsPairs(item) /\ item.type = "array"
             /\ item.len = 2 * Len(pairs)
             /\ Pairs(item) = pairs
             /\ \A pair \in PairSet(item) : \E i \in DOMAIN pairs : pair = pairs[i]
             /\ Len(pairs) > 0 => item.items[1] = pairs[1][1]
<1>. DEFINE n == Len(pairs)
            flat == [i \in 1 .. 2 * n |-> pairs[(i + 1) \div 2][IF i % 2 = 1 THEN 1 ELSE 2]]
<1>1. n \in Nat /\ \A i \in 1 .. n : pairs[i] \in S \X S
  OBVIOUS
<1>2. \A i \in 1 .. 2 * n : (i + 1) \div 2 \in 1 .. n
  BY <1>1
<1>3. \A i \in 1 .. 2 * n : flat[i] \in S
  <2>. TAKE i \in 1 .. 2 * n
  <2>1. pairs[(i + 1) \div 2] \in S \X S
    BY <1>1, <1>2
  <2>. QED
    BY <2>1
<1>4. flat \in Seq(S) /\ Len(flat) = 2 * n
  BY <1>1, <1>3
<1>5. PairsItem(pairs) = ArrayItem(flat)
  BY DEF PairsItem
<1>6. \A i \in 1 .. n : flat[2 * i - 1] = pairs[i][1] /\ flat[2 * i] = pairs[i][2]
  <2>. TAKE i \in 1 .. n
  <2>1. /\ 2 * i - 1 \in 1 .. 2 * n /\ 2 * i \in 1 .. 2 * n
        /\ (2 * i - 1 + 1) \div 2 = i /\ (2 * i + 1) \div 2 = i
        /\ (2 * i - 1) % 2 = 1 /\ (2 * i) % 2 = 0
    BY <1>1
  <2>. QED
    BY <2>1
<1>7. \A i \in 1 .. n : <<flat[2 * i - 1], flat[2 * i]>> = pairs[i]
  BY <1>1, <1>6
<1>8. (2 * n) \div 2 = n /\ (2 * n) % 2 = 0
  BY <1>1
<1>. HIDE DEF flat
<1>9. ArrayItem(flat) \in ArrayOf(S)
  BY <1>4, ArrayItemTyped
<1>10. Pairs(ArrayItem(flat)) = [i \in 1 .. n |-> <<flat[2 * i - 1], flat[2 * i]>>]
  BY <1>4, <1>8 DEF Pairs, ArrayItem
<1>11. Pairs(ArrayItem(flat)) = pairs
  BY <1>1, <1>7, <1>10
<1>12. IsPairs(ArrayItem(flat))
  BY <1>4, <1>8 DEF IsPairs, IsWhole, ArrayItem
<1>13. \A pair \in PairSet(ArrayItem(flat)) : \E i \in DOMAIN pairs : pair = pairs[i]
  <2>1. ArrayItem(flat).len \div 2 = n /\ DOMAIN pairs = 1 .. n
    BY <1>4, <1>8 DEF ArrayItem
  <2>. QED
    BY <1>11, <2>1 DEF PairSet
<1>14. n > 0 => ArrayItem(flat).items[1] = pairs[1][1]
  BY <1>1, <1>6 DEF ArrayItem
<1>. QED
  BY <1>4, <1>5, <1>9, <1>11, <1>12, <1>13, <1>14 DEF ArrayItem

\* The pairs of an array of an even length make it up.
LEMMA PairsTaken ==
  ASSUME NEW S, NEW item \in Plain \cup ArrayOf(S), IsPairs(item)
  PROVE  /\ Pairs(item) \in Seq(S \X S)
         /\ \A i \in DOMAIN Pairs(item) : Pairs(item)[i] \in PairSet(item)
         /\ PairsItem(Pairs(item)) = item
         /\ item.len = 2 * Len(Pairs(item)) /\ item.type = "array"
         /\ Len(Pairs(item)) > 0 => item.items[1] = Pairs(item)[1][1]
<1>. DEFINE n == item.len \div 2
            pairs == Pairs(item)
<1>1. /\ item.items \in Seq(S) /\ item.len = Len(item.items) /\ item.len % 2 = 0
      /\ item = ArrayItem(item.items) /\ \A i \in 1 .. item.len : item.items[i] \in S
  BY WholeShape DEF IsPairs
<1>2. n \in Nat /\ item.len = 2 * n
  <2>1. item.len \in Nat
    BY <1>1
  <2>2. \A k \in Nat : k % 2 = 0 => k \div 2 \in Nat /\ k = 2 * (k \div 2)
    OBVIOUS
  <2>. QED
    BY <1>1, <2>1, <2>2
<1>3. \A i \in 1 .. n : 2 * i - 1 \in 1 .. item.len /\ 2 * i \in 1 .. item.len
  BY <1>2
<1>4. pairs = [i \in 1 .. n |-> <<item.items[2 * i - 1], item.items[2 * i]>>]
  BY DEF Pairs
<1>5. pairs \in Seq(S \X S) /\ Len(pairs) = n
  <2>1. \A i \in 1 .. n : <<item.items[2 * i - 1], item.items[2 * i]>> \in S \X S
    BY <1>1, <1>3
  <2>. HIDE DEF n, pairs
  <2>. QED
    BY <1>2, <1>4, <2>1
<1>6. \A i \in 1 .. 2 * n : pairs[(i + 1) \div 2][IF i % 2 = 1 THEN 1 ELSE 2] = item.items[i]
  <2>. TAKE i \in 1 .. 2 * n
  <2>. DEFINE k == (i + 1) \div 2
  <2>1. k \in 1 .. n /\ (i % 2 = 1 => i = 2 * k - 1) /\ (i % 2 # 1 => i = 2 * k)
    BY <1>2
  <2>. HIDE DEF k
  <2>2. pairs[k] = <<item.items[2 * k - 1], item.items[2 * k]>>
    BY <1>4, <2>1
  <2>. QED
    BY <2>1, <2>2 DEF k
<1>7. \A i \in 1 .. n : pairs[i] \in PairSet(item)
  BY DEF PairSet
<1>8. n > 0 => item.items[1] = pairs[1][1]
  BY <1>2, <1>4
<1>. HIDE DEF pairs, n
<1>9. PairsItem(pairs) = ArrayItem([i \in 1 .. 2 * n |-> item.items[i]])
  BY <1>5, <1>6 DEF PairsItem
<1>10. [i \in 1 .. 2 * n |-> item.items[i]] = item.items
  <2>1. item.items = [i \in 1 .. Len(item.items) |-> item.items[i]]
    BY <1>1
  <2>2. 2 * n = Len(item.items)
    BY <1>1, <1>2
  <2>. QED
    BY <2>1, <2>2
<1>11. item.type = "array"
  BY DEF IsPairs, IsWhole
<1>. QED
  BY <1>1, <1>2, <1>5, <1>7, <1>8, <1>9, <1>10, <1>11 DEF pairs

-----------------------------------------------------------------------------
(* Identifiers and optional numbers                                        *)

\* IntOrOid::decode undoes encode, and what encode writes is no array.
LEMMA IdWritten ==
  ASSUME NEW id \in IntOrOid
  PROVE  /\ IntOrOidItem(id) \in Leaf /\ ReadsIntOrOid(IntOrOidItem(id))
         /\ IntOrOidRead(IntOrOidItem(id)) = id
         /\ ~IsAnyArray(IntOrOidItem(id))
<1>1. CASE id \in [form : {"int"}, int : I32]
  <2>1. /\ id.int \in I32 /\ id.int \in Int /\ id = IntId(id.int)
        /\ IntOrOidItem(id) = IntItem(id.int)
    BY <1>1, IntAssumption DEF IntOrOidItem, IntId, I32
  <2>. QED
    BY <2>1 DEF IntItem, Leaf, ReadsIntOrOid, ReadsI32, IsInt, IntOrOidRead, IsAnyArray
<1>2. CASE id \in [form : {"oid"}, oid : Oids]
  <2>1. /\ id.oid \in Oids /\ id.oid \in Seq(Octet) /\ id = OidId(id.oid)
        /\ IntOrOidItem(id) = BytesItem(id.oid)
    BY <1>2, OidsAssumption DEF IntOrOidItem, OidId
  <2>. QED
    BY <2>1 DEF BytesItem, Leaf, ReadsIntOrOid, ReadsOid, IsBytes, IsInt, IntOrOidRead, IsAnyArray
<1>. QED
  BY <1>1, <1>2 DEF IntOrOid

\* An identifier is written again as it was read.
LEMMA IdTaken ==
  ASSUME NEW S, NEW item \in Plain \cup ArrayOf(S), ReadsIntOrOid(item)
  PROVE  /\ IntOrOidRead(item) \in IntOrOid
         /\ IntOrOidItem(IntOrOidRead(item)) = item
         /\ ~IsAnyArray(item)
<1>1. CASE IsInt(item)
  <2>1. item.int \in I32 /\ item = IntItem(item.int) /\ item.type = "int"
    BY <1>1, ItemShape DEF IsInt, ReadsIntOrOid, ReadsI32, ReadsOid, IsBytes
  <2>. QED
    BY <1>1, <2>1 DEF IntOrOidRead, IntId, IntOrOid, IntOrOidItem, IsAnyArray
<1>2. CASE ~IsInt(item)
  <2>1. item.bytes \in Oids /\ item = BytesItem(item.bytes) /\ item.type = "bytes"
    BY <1>2, ItemShape DEF ReadsIntOrOid, ReadsI32, ReadsOid, IsBytes
  <2>. QED
    BY <1>2, <2>1 DEF IntOrOidRead, OidId, IntOrOid, IntOrOidItem, IsAnyArray
<1>. QED
  BY <1>1, <1>2

\* decode_opt_uint undoes encode_opt_uint.
LEMMA OptUintWritten ==
  ASSUME NEW v \in Option(U32)
  PROVE  /\ OptUintItem(v) \in Leaf /\ ReadsOptUint(OptUintItem(v))
         /\ OptUintRead(OptUintItem(v)) = v
<1>1. CASE v = None
  BY <1>1 DEF OptUintItem, NullItem, Leaf, ReadsOptUint, IsNull, OptUintRead
<1>2. CASE v \in [kind : {"some"}, some : U32]
  <2>1. /\ v.some \in U32 /\ v.some \in Int /\ v = Some(v.some)
        /\ OptUintItem(v) = IntItem(v.some)
    BY <1>2, IntAssumption DEF OptUintItem, None, Some, U32
  <2>. QED
    BY <2>1 DEF IntItem, Leaf, ReadsOptUint, IsNull, ReadsU32, IsInt, OptUintRead
<1>. QED
  BY <1>1, <1>2 DEF Option

\* An optional number is written again as it was read.
LEMMA OptUintTaken ==
  ASSUME NEW S, NEW item \in Plain \cup ArrayOf(S), ReadsOptUint(item)
  PROVE  /\ OptUintRead(item) \in Option(U32)
         /\ OptUintItem(OptUintRead(item)) = item
<1>1. CASE IsNull(item)
  BY <1>1, ItemShape DEF IsNull, OptUintRead, OptUintItem, Option
<1>2. CASE ~IsNull(item)
  <2>1. /\ item.int \in U32 /\ item = IntItem(item.int)
        /\ OptUintRead(item) = Some(item.int)
    BY <1>2, ItemShape DEF IsInt, ReadsOptUint, ReadsU32, OptUintRead
  <2>. QED
    BY <2>1 DEF Some, None, Option, OptUintItem
<1>. QED
  BY <1>1, <1>2

-----------------------------------------------------------------------------
(* General names                                                           *)

\* The number of Raw is none of the registry's.
LEMMA VariantFacts ==
  /\ RawVariant \in Int /\ RawVariant < -3 /\ RawVariant \in I32
  /\ {-3, -2, -1, 0, 1, 2, 4, 6, 7, 8} \subseteq I32
  /\ Variants = {-3, -2, -1, 0, 1, 2, 4, 6, 7, 8, RawVariant}
  /\ \A kind : VariantOf(kind) \in Variants
BY IntAssumption, KindAssumption
   DEF RawVariant, I32, Variants, TextVariants, OtherVariants, VariantOf

\* The content of every variant is written as an item that is read as it.
LEMMA ContentWritten ==
  ASSUME NEW name \in GeneralName
  PROVE  /\ name.variant \in Variants /\ name.kind \in I32
         /\ name = [kind |-> name.kind, variant |-> name.variant, content |-> name.content]
         /\ ContentItem(name) \in Item2
         /\ ReadsContent(name.variant, ContentItem(name))
         /\ ContentRead(name.variant, ContentItem(name)) = name.content
<1>. DEFINE c == name.content
            item == ContentItem(name)
<1>0. /\ name.variant \in Variants /\ name.kind \in I32
      /\ name = [kind |-> name.kind, variant |-> name.variant, content |-> name.content]
  BY DEF GeneralName, Variants
<1>1. CASE name.variant \in TextVariants
  <2>1. c.text \in STRING /\ c = [text |-> c.text] /\ item = TextItem(c.text)
    BY <1>1, VariantFacts DEF GeneralName, ContentItem, TextVariants, OtherVariants
  <2>. HIDE DEF c, item
  <2>2. item \in Item2 /\ ReadsText(item) /\ item.text = c.text
    BY <2>1, Depths DEF TextItem, Leaf, ReadsText
  <2>3. ReadsContent(name.variant, item)
    BY <1>1, <2>2, VariantFacts DEF ReadsContent, TextVariants, OtherVariants
  <2>4. ContentRead(name.variant, item) = c
    BY <1>1, <2>1, <2>2, VariantFacts DEF ContentRead, TextVariants, OtherVariants
  <2>. QED
    BY <1>0, <2>2, <2>3, <2>4 DEF c, item
<1>2. CASE name.variant \in OtherVariants
  <2>1. /\ c.oid \in Oids /\ c.bytes \in Seq(Octet) /\ c = [oid |-> c.oid, bytes |-> c.bytes]
        /\ item = ArrayItem(<<BytesItem(c.oid), BytesItem(c.bytes)>>)
        /\ name.variant \notin TextVariants
    BY <1>2, VariantFacts DEF GeneralName, ContentItem, TextVariants, OtherVariants
  <2>. HIDE DEF c, item
  <2>. DEFINE s == <<BytesItem(c.oid), BytesItem(c.bytes)>>
  <2>2. BytesItem(c.oid) \in Leaf /\ BytesItem(c.bytes) \in Leaf
    BY <2>1, OidsAssumption DEF BytesItem, Leaf
  <2>3. s \in Seq(Item1) /\ Len(s) = 2
    BY <2>2, Depths
  <2>4. item \in Item2
    BY <2>1, <2>3, ArrayItemTyped DEF Item2
  <2>5. IsFixed(item, 2) /\ item.items[1] = BytesItem(c.oid) /\ item.items[2] = BytesItem(c.bytes)
    BY <2>1 DEF IsFixed, IsWhole, ArrayItem
  <2>6. ReadsOid(BytesItem(c.oid)) /\ IsBytes(BytesItem(c.bytes))
    BY <2>1 DEF BytesItem, ReadsOid, IsBytes
  <2>7. ReadsContent(name.variant, item)
    BY <1>2, <2>5, <2>6, VariantFacts DEF ReadsContent, TextVariants, OtherVariants
  <2>8. BytesItem(c.oid).bytes = c.oid /\ BytesItem(c.bytes).bytes = c.bytes
    BY DEF BytesItem
  <2>9. ContentRead(name.variant, item) = c
    BY <1>2, <2>1, <2>5, <2>8, VariantFacts DEF ContentRead, TextVariants, OtherVariants
  <2>. QED
    BY <1>0, <2>4, <2>7, <2>9 DEF c, item
<1>3. CASE name.variant = -3
  <2>1. /\ c.mac \in MacAddr /\ c = [mac |-> c.mac] /\ item = BytesItem(c.mac)
    BY <1>3, VariantFacts DEF GeneralName, ContentItem, TextVariants, OtherVariants
  <2>. HIDE DEF c, item
  <2>. QED
    BY <1>0, <1>3, <2>1, Depths, VariantFacts
       DEF BytesItem, Leaf, ReadsContent, IsBytes, MacAddr, ContentRead, TextVariants,
           OtherVariants, c, item
<1>4. CASE name.variant = 4
  <2>1. /\ c.name \in NameContents /\ c = [name |-> c.name] /\ item = OpaqueItem("name", c.name)
    BY <1>4, VariantFacts DEF GeneralName, ContentItem, TextVariants, OtherVariants
  <2>. HIDE DEF c, item
  <2>2. item \in Plain
    BY <2>1 DEF OpaqueItem, Plain
  <2>. QED
    BY <1>0, <1>4, <2>1, <2>2, Depths, VariantFacts
       DEF OpaqueItem, ReadsContent, IsOpaque, ContentRead, TextVariants,
           OtherVariants, c, item
<1>5. CASE name.variant = 7
  <2>1. /\ c.bytes \in Seq(Octet) /\ c = [bytes |-> c.bytes] /\ item = BytesItem(c.bytes)
    BY <1>5, VariantFacts DEF GeneralName, ContentItem, TextVariants, OtherVariants
  <2>. HIDE DEF c, item
  <2>. QED
    BY <1>0, <1>5, <2>1, Depths, VariantFacts
       DEF BytesItem, Leaf, ReadsContent, IsBytes, ContentRead, TextVariants,
           OtherVariants, c, item
<1>6. CASE name.variant = 8
  <2>1. /\ c.oid \in Oids /\ c.oid \in Seq(Octet) /\ c = [oid |-> c.oid] /\ item = BytesItem(c.oid)
    BY <1>6, VariantFacts, OidsAssumption
       DEF GeneralName, ContentItem, TextVariants, OtherVariants
  <2>. HIDE DEF c, item
  <2>. QED
    BY <1>0, <1>6, <2>1, Depths, VariantFacts
       DEF BytesItem, Leaf, ReadsContent, ReadsOid, IsBytes, ContentRead, TextVariants,
           OtherVariants, c, item
<1>7. CASE name.variant = RawVariant
  <2>1. /\ c.cbor \in Complete /\ c = [cbor |-> c.cbor] /\ item = c.cbor
    BY <1>7, VariantFacts DEF GeneralName, ContentItem, TextVariants, OtherVariants
  <2>. HIDE DEF c, item
  <2>. QED
    BY <1>0, <1>7, <2>1, Depths, VariantFacts
       DEF ReadsContent, ContentRead, TextVariants, OtherVariants, c, item
<1>. QED
  BY <1>0, <1>1, <1>2, <1>3, <1>4, <1>5, <1>6, <1>7 DEF Variants

\* An item that is read as the content of a variant is a content of it, and
\* is written as it was.
LEMMA ContentTaken ==
  ASSUME NEW S, NEW item \in Plain \cup ArrayOf(S), NEW kind \in I32,
         NEW variant \in Variants, ReadsContent(variant, item),
         S \subseteq Plain \cup ArrayOf(S)
  PROVE  LET name == [kind |-> kind, variant |-> variant, content |-> ContentRead(variant, item)]
         IN  name \in GeneralName /\ ContentItem(name) = item
<1>. DEFINE c == ContentRead(variant, item)
            name == [kind |-> kind, variant |-> variant, content |-> c]
<1>0. name.kind = kind /\ name.variant = variant /\ name.content = c
  OBVIOUS
<1>1. CASE variant \in TextVariants
  <2>1. item.text \in STRING /\ item = TextItem(item.text)
    BY <1>1, ItemShape DEF ReadsContent, ReadsText
  <2>2. c = [text |-> item.text]
    BY <1>1, VariantFacts DEF ContentRead, TextVariants, OtherVariants
  <2>. HIDE DEF c
  <2>3. ContentItem(name) = item
    BY <1>1, <2>1, <2>2, VariantFacts DEF ContentItem, TextVariants, OtherVariants
  <2>. QED
    BY <1>1, <2>1, <2>2, <2>3 DEF GeneralName, c
<1>2. CASE variant \in OtherVariants
  <2>1. IsWhole(item) /\ item.len = 2 /\ ReadsOid(item.items[1]) /\ IsBytes(item.items[2])
    BY <1>2, VariantFacts DEF ReadsContent, IsFixed, TextVariants, OtherVariants
  <2>2. item.items \in Seq(S) /\ Len(item.items) = 2 /\ item = ArrayItem(item.items)
    BY <2>1, WholeShape
  <2>. DEFINE a == item.items[1]
              b == item.items[2]
  <2>3. a \in S /\ b \in S /\ item = ArrayItem(<<a, b>>)
    BY <2>2
  <2>4. a \in Plain \cup ArrayOf(S) /\ b \in Plain \cup ArrayOf(S)
    BY <2>3
  <2>5. a.bytes \in Oids /\ a = BytesItem(a.bytes)
    BY <2>1, <2>4, ItemShape DEF ReadsOid, IsBytes
  <2>6. b.bytes \in Seq(Octet) /\ b = BytesItem(b.bytes)
    BY <2>1, <2>4, ItemShape DEF IsBytes
  <2>. HIDE DEF a, b
  <2>7. c = [oid |-> a.bytes, bytes |-> b.bytes]
    BY <1>2, VariantFacts DEF ContentRead, TextVariants, OtherVariants, a, b
  <2>8. name \in GeneralName
    BY <1>2, <2>5, <2>6, <2>7 DEF GeneralName
  <2>9. ContentItem(name) = ArrayItem(<<BytesItem(a.bytes), BytesItem(b.bytes)>>)
    BY <1>2, <2>7, VariantFacts DEF ContentItem, TextVariants, OtherVariants
  <2>. QED
    BY <2>3, <2>5, <2>6, <2>8, <2>9
<1>3. CASE variant = -3
  <2>1. c = [mac |-> item.bytes] /\ item.bytes \in MacAddr /\ item = BytesItem(item.bytes)
    BY <1>3, ItemShape, VariantFacts
       DEF ReadsContent, IsBytes, MacAddr, ContentRead, TextVariants, OtherVariants
  <2>. HIDE DEF c
  <2>2. ContentItem(name) = item
    BY <1>3, <2>1, VariantFacts DEF ContentItem, TextVariants, OtherVariants
  <2>. QED
    BY <1>3, <2>1, <2>2 DEF GeneralName, c
<1>4. CASE variant = 4
  <2>1. /\ c = [name |-> item.content] /\ item.content \in NameContents
        /\ item = OpaqueItem("name", item.content)
    BY <1>4, ItemShape, VariantFacts
       DEF ReadsContent, IsOpaque, ContentRead, TextVariants, OtherVariants
  <2>. HIDE DEF c
  <2>2. ContentItem(name) = item
    BY <1>4, <2>1, VariantFacts DEF ContentItem, TextVariants, OtherVariants
  <2>. QED
    BY <1>4, <2>1, <2>2 DEF GeneralName, c
<1>5. CASE variant = 7
  <2>1. c = [bytes |-> item.bytes] /\ item.bytes \in Seq(Octet) /\ item = BytesItem(item.bytes)
    BY <1>5, ItemShape, VariantFacts
       DEF ReadsContent, IsBytes, ContentRead, TextVariants, OtherVariants
  <2>. HIDE DEF c
  <2>2. ContentItem(name) = item
    BY <1>5, <2>1, VariantFacts DEF ContentItem, TextVariants, OtherVariants
  <2>. QED
    BY <1>5, <2>1, <2>2 DEF GeneralName, c
<1>6. CASE variant = 8
  <2>1. c = [oid |-> item.bytes] /\ item.bytes \in Oids /\ item = BytesItem(item.bytes)
    BY <1>6, ItemShape, VariantFacts
       DEF ReadsContent, ReadsOid, IsBytes, ContentRead, TextVariants, OtherVariants
  <2>. HIDE DEF c
  <2>2. ContentItem(name) = item
    BY <1>6, <2>1, VariantFacts DEF ContentItem, TextVariants, OtherVariants
  <2>. QED
    BY <1>6, <2>1, <2>2 DEF GeneralName, c
<1>7. CASE variant = RawVariant
  <2>1. c = [cbor |-> item] /\ item \in Complete
    BY <1>7, VariantFacts DEF ReadsContent, ContentRead, TextVariants, OtherVariants
  <2>2. ContentItem(name) = item
    BY <1>7, <2>1, VariantFacts DEF ContentItem, TextVariants, OtherVariants
  <2>. QED
    BY <1>7, <2>1, <2>2 DEF GeneralName
<1>. QED
  BY <1>1, <1>2, <1>3, <1>4, <1>5, <1>6, <1>7 DEF Variants

\* A general name is read as it was if its kind is that of its variant.
LEMMA GeneralNameWritten ==
  ASSUME NEW name \in GeneralName
  PROVE  LET pair == GeneralNameItems(name)
         IN  /\ pair \in Item2 \X Item2 /\ pair[1] = IntItem(name.kind)
             /\ name.variant = VariantOf(name.kind) =>
                  ReadsGeneralName(pair) /\ GeneralNameRead(pair) = name
<1>. DEFINE item == ContentItem(name)
            first == IntItem(name.kind)
<1>1. /\ name.kind \in I32 /\ name.kind \in Int
      /\ name = [kind |-> name.kind, variant |-> name.variant, content |-> name.content]
      /\ item \in Item2
      /\ ReadsContent(name.variant, item)
      /\ ContentRead(name.variant, item) = name.content
  BY ContentWritten, IntAssumption DEF I32
<1>2. first \in Item2 /\ first.int = name.kind /\ ReadsI32(first)
  BY <1>1, Depths DEF IntItem, Leaf, ReadsI32, IsInt
<1>3. GeneralNameItems(name) = <<first, item>>
  BY DEF GeneralNameItems
<1>. HIDE DEF item, first
<1>4. ASSUME name.variant = VariantOf(name.kind)
      PROVE  ReadsGeneralName(<<first, item>>) /\ GeneralNameRead(<<first, item>>) = name
  BY <1>1, <1>2, <1>4 DEF ReadsGeneralName, GeneralNameRead
<1>. QED
  BY <1>1, <1>2, <1>3, <1>4 DEF first

\* A general name that was read has the kind of its variant, and is written
\* again as it was.
LEMMA GeneralNameTaken ==
  ASSUME NEW S, S \subseteq Plain \cup ArrayOf(S), NEW pair \in S \X S, ReadsGeneralName(pair)
  PROVE  LET name == GeneralNameRead(pair)
         IN  /\ name \in GeneralName /\ name.variant = VariantOf(name.kind)
             /\ GeneralNameItems(name) = pair
<1>. DEFINE a == pair[1]
            b == pair[2]
            variant == VariantOf(a.int)
            name == [kind |-> a.int, variant |-> variant, content |-> ContentRead(variant, b)]
<1>1. a \in Plain \cup ArrayOf(S) /\ b \in Plain \cup ArrayOf(S) /\ pair = <<a, b>>
  OBVIOUS
<1>2. a.int \in I32 /\ a = IntItem(a.int) /\ ReadsContent(variant, b) /\ variant \in Variants
  BY <1>1, ItemShape, VariantFacts DEF ReadsGeneralName, ReadsI32, IsInt
<1>3. GeneralNameRead(pair) = name
  BY DEF GeneralNameRead
<1>. HIDE DEF a, b
<1>4. name \in GeneralName /\ ContentItem(name) = b
  <2>. HIDE DEF variant
  <2>. QED
    BY <1>1, <1>2, ContentTaken
<1>5. name.kind = a.int /\ name.variant = variant
  OBVIOUS
<1>. HIDE DEF name
<1>. QED
  BY <1>1, <1>2, <1>3, <1>4, <1>5 DEF GeneralNameItems

\* A list of general names is written as an array of their pairs, which is
\* read as the list if each kind is that of its variant.
LEMMA NamesWritten ==
  ASSUME NEW names \in Seq(GeneralName)
  PROVE  LET item == GeneralNamesItem(names)
         IN  /\ item \in ArrayOf(Item2) /\ item.type = "array" /\ item.len = 2 * Len(names)
             /\ Len(names) > 0 => item.items[1] = IntItem(names[1].kind)
             /\ (\A i \in DOMAIN names : names[i].variant = VariantOf(names[i].kind)) =>
                  ReadsGeneralNames(item) /\ GeneralNamesRead(item) = names
<1>. DEFINE pairs == [i \in DOMAIN names |-> GeneralNameItems(names[i])]
            item == GeneralNamesItem(names)
<1>1. /\ DOMAIN names = 1 .. Len(names) /\ Len(names) \in Nat
      /\ \A i \in DOMAIN names : names[i] \in GeneralName
  OBVIOUS
<1>2. \A i \in DOMAIN names :
        /\ GeneralNameItems(names[i]) \in Item2 \X Item2
        /\ GeneralNameItems(names[i])[1] = IntItem(names[i].kind)
        /\ names[i].variant = VariantOf(names[i].kind) =>
             /\ ReadsGeneralName(GeneralNameItems(names[i]))
             /\ GeneralNameRead(GeneralNameItems(names[i])) = names[i]
  BY <1>1, GeneralNameWritten
<1>3. pairs \in Seq(Item2 \X Item2) /\ Len(pairs) = Len(names) /\ DOMAIN pairs = DOMAIN names
  BY <1>1, <1>2
<1>4. item = PairsItem(pairs)
  BY DEF GeneralNamesItem
<1>5. \A i \in DOMAIN names : pairs[i] = GeneralNameItems(names[i])
  OBVIOUS
<1>. HIDE DEF pairs, item
<1>6. /\ item \in ArrayOf(Item2) /\ IsPairs(item) /\ item.type = "array"
      /\ item.len = 2 * Len(names) /\ Pairs(item) = pairs
      /\ \A pair \in PairSet(item) : \E i \in DOMAIN pairs : pair = pairs[i]
      /\ Len(names) > 0 => item.items[1] = pairs[1][1]
  BY <1>3, <1>4, PairsWritten
<1>7. Len(names) > 0 => item.items[1] = IntItem(names[1].kind)
  BY <1>1, <1>2, <1>5, <1>6
<1>8. ASSUME \A i \in DOMAIN names : names[i].variant = VariantOf(names[i].kind)
      PROVE  ReadsGeneralNames(item) /\ GeneralNamesRead(item) = names
  <2>1. ReadsGeneralNames(item)
    BY <1>2, <1>3, <1>5, <1>6, <1>8 DEF ReadsGeneralNames
  <2>2. GeneralNamesRead(item) = [i \in DOMAIN names |-> GeneralNameRead(pairs[i])]
    BY <1>3, <1>6 DEF GeneralNamesRead
  <2>3. \A i \in DOMAIN names : GeneralNameRead(pairs[i]) = names[i]
    BY <1>2, <1>5, <1>8
  <2>4. names = [i \in DOMAIN names |-> names[i]]
    BY <1>1
  <2>. QED
    BY <2>1, <2>2, <2>3, <2>4
<1>. QED
  BY <1>6, <1>7, <1>8 DEF item

\* A list of general names is written again as it was read.
LEMMA NamesTaken ==
  ASSUME NEW S, S \subseteq Plain \cup ArrayOf(S), NEW item \in Plain \cup ArrayOf(S),
         ReadsGeneralNames(item)
  PROVE  LET names == GeneralNamesRead(item)
         IN  /\ names \in Seq(GeneralName)
             /\ \A i \in DOMAIN names : names[i].variant = VariantOf(names[i].kind)
             /\ GeneralNamesItem(names) = item
             /\ item.type = "array" /\ item.len = 2 * Len(names)
             /\ Len(names) > 0 => item.items[1] = IntItem(names[1].kind)
<1>. DEFINE pairs == Pairs(item)
            names == GeneralNamesRead(item)
<1>1. /\ pairs \in Seq(S \X S) /\ \A i \in DOMAIN pairs : pairs[i] \in PairSet(item)
      /\ PairsItem(pairs) = item
      /\ item.len = 2 * Len(pairs) /\ item.type = "array"
      /\ Len(pairs) > 0 => item.items[1] = pairs[1][1]
  BY PairsTaken DEF ReadsGeneralNames
<1>2. names = [i \in DOMAIN pairs |-> GeneralNameRead(pairs[i])]
  BY DEF GeneralNamesRead
<1>3. \A i \in DOMAIN pairs : ReadsGeneralName(pairs[i]) /\ pairs[i] \in S \X S
  BY <1>1 DEF ReadsGeneralNames
<1>. HIDE DEF pairs, names
<1>4. \A i \in DOMAIN pairs :
        /\ GeneralNameRead(pairs[i]) \in GeneralName
        /\ GeneralNameRead(pairs[i]).variant = VariantOf(GeneralNameRead(pairs[i]).kind)
        /\ GeneralNameItems(GeneralNameRead(pairs[i])) = pairs[i]
  BY <1>3, GeneralNameTaken
<1>5. DOMAIN pairs = 1 .. Len(pairs) /\ Len(pairs) \in Nat
  BY <1>1
<1>6. names \in Seq(GeneralName) /\ DOMAIN names = DOMAIN pairs /\ Len(names) = Len(pairs)
  BY <1>2, <1>4, <1>5
<1>7. \A i \in DOMAIN names : names[i] = GeneralNameRead(pairs[i])
  BY <1>2
<1>8. GeneralNamesItem(names) = item
  <2>1. [i \in DOMAIN names |-> GeneralNameItems(names[i])] = [i \in DOMAIN pairs |-> pairs[i]]
    BY <1>4, <1>6, <1>7
  <2>2. [i \in DOMAIN pairs |-> pairs[i]] = pairs
    BY <1>1
  <2>. QED
    BY <1>1, <2>1, <2>2 DEF GeneralNamesItem
<1>9. Len(names) > 0 => item.items[1] = IntItem(names[1].kind)
  <2>. SUFFICES ASSUME Len(names) > 0 PROVE item.items[1] = IntItem(names[1].kind)
    OBVIOUS
  <2>1. 1 \in DOMAIN pairs
    BY <1>5, <1>6
  <2>2. GeneralNameItems(names[1])[1] = IntItem(names[1].kind)
    BY DEF GeneralNameItems
  <2>. QED
    BY <1>1, <1>4, <1>6, <1>7, <2>1, <2>2
<1>. QED
  BY <1>1, <1>4, <1>6, <1>7, <1>8, <1>9 DEF names

\* decode_opt_general_subtree undoes encode_opt_general_subtree.
LEMMA SubtreeWritten ==
  ASSUME NEW names \in Option(Seq(GeneralName))
  PROVE  /\ SubtreeItem(names) \in Item3
         /\ (names # None =>
               \A i \in DOMAIN names.some :
                 names.some[i].variant = VariantOf(names.some[i].kind)) =>
              ReadsSubtree(SubtreeItem(names)) /\ SubtreeRead(SubtreeItem(names)) = names
<1>1. CASE names = None
  BY <1>1, Depths DEF SubtreeItem, ReadsSubtree, SubtreeRead, IsNull, NullItem
<1>2. CASE names \in [kind : {"some"}, some : Seq(GeneralName)]
  <2>1. /\ names # None /\ names = Some(names.some) /\ names.some \in Seq(GeneralName)
        /\ SubtreeItem(names) = GeneralNamesItem(names.some)
    BY <1>2 DEF None, Some, SubtreeItem
  <2>2. GeneralNamesItem(names.some) \in Item3 /\ ~IsNull(GeneralNamesItem(names.some))
    BY <2>1, NamesWritten DEF Item3, IsNull
  <2>. QED
    BY <2>1, <2>2, NamesWritten DEF ReadsSubtree, SubtreeRead
<1>. QED
  BY <1>1, <1>2 DEF Option

\* A subtree is written again as it was read.
LEMMA SubtreeTaken ==
  ASSUME NEW S, S \subseteq Plain \cup ArrayOf(S), NEW item \in Plain \cup ArrayOf(S),
         ReadsSubtree(item)
  PROVE  LET names == SubtreeRead(item)
         IN  /\ names \in Option(Seq(GeneralName))
             /\ names # None => \A i \in DOMAIN names.some :
                                  names.some[i].variant = VariantOf(names.some[i].kind)
             /\ SubtreeItem(names) = item
<1>1. CASE IsNull(item)
  BY <1>1, ItemShape DEF IsNull, SubtreeRead, Option, SubtreeItem
<1>2. CASE ~IsNull(item)
  <2>1. ReadsGeneralNames(item) /\ SubtreeRead(item) = Some(GeneralNamesRead(item))
    BY <1>2 DEF ReadsSubtree, SubtreeRead
  <2>. DEFINE names == GeneralNamesRead(item)
  <2>2. /\ names \in Seq(GeneralName)
        /\ \A i \in DOMAIN names : names[i].variant = VariantOf(names[i].kind)
        /\ GeneralNamesItem(names) = item
    BY <2>1, NamesTaken
  <2>. HIDE DEF names
  <2>3. Some(names) # None /\ Some(names).some = names /\ Some(names) \in Option(Seq(GeneralName))
    BY <2>2 DEF Some, None, Option
  <2>. QED
    BY <2>1, <2>2, <2>3 DEF SubtreeItem, names
<1>. QED
  BY <1>1, <1>2

-----------------------------------------------------------------------------
(* Depths and lengths                                                      *)

\* An item is of any depth from its own on.
LEMMA Shallow ==
  /\ Item2 \subseteq Plain \cup ArrayOf(Item2)
  /\ Item3 \subseteq Plain \cup ArrayOf(Item3)
  /\ Item3 = Plain \cup ArrayOf(Item2)
  /\ Item4 = Plain \cup ArrayOf(Item3)
  /\ Leaf \subseteq Item1 /\ Leaf \subseteq Item2 /\ Leaf \subseteq Item3 /\ Leaf \subseteq Item4
BY Depths DEF Item2, Item3, Item4

\* The elements of an array of a fixed length.
LEMMA FixedShape ==
  ASSUME NEW S, NEW item \in Plain \cup ArrayOf(S), NEW n \in Nat, IsFixed(item, n)
  PROVE  /\ item.items \in Seq(S) /\ Len(item.items) = n /\ item = ArrayItem(item.items)
         /\ \A i \in 1 .. n : item.items[i] \in S
         /\ item.type = "array"
BY WholeShape DEF IsFixed, IsWhole

\* A byte string is written as one.
LEMMA BytesTyped ==
  ASSUME NEW b \in Seq(Octet)
  PROVE  BytesItem(b) \in Leaf /\ IsBytes(BytesItem(b)) /\ BytesItem(b).bytes = b
BY DEF BytesItem, Leaf, IsBytes

-----------------------------------------------------------------------------
(* Basic constraints                                                       *)

\* decode undoes encode: a path length that encodes is none of the two negative
\* numbers that stand for its absence.
LEMMA BasicConstraintsWritten ==
  ASSUME NEW v \in BasicConstraints, CanWrite("BasicConstraints", v)
  PROVE  LET item == BasicConstraintsItem(v)
         IN  /\ item \in Item3
             /\ ReadsBasicConstraints(item) /\ BasicConstraintsRead(item) = v
<1>1. \A n \in Int : IntItem(n) \in Item3 /\ IntItem(n).int = n /\ IsInt(IntItem(n))
  BY Shallow DEF IntItem, Leaf, IsInt
<1>2. -2 \in I32 /\ -1 \in I32
  BY KindAssumption, IntAssumption DEF I32
<1>3. CASE v = NotCa
  <2>1. BasicConstraintsItem(v) = IntItem(-2)
    BY <1>3 DEF BasicConstraintsItem, NotCa, Ca
  <2>. QED
    BY <1>1, <1>2, <1>3, <2>1 DEF ReadsBasicConstraints, ReadsI32, BasicConstraintsRead
<1>4. CASE v = Ca(None)
  <2>1. BasicConstraintsItem(v) = IntItem(-1)
    BY <1>4 DEF BasicConstraintsItem, NotCa, Ca
  <2>. QED
    BY <1>1, <1>2, <1>4, <2>1 DEF ReadsBasicConstraints, ReadsI32, BasicConstraintsRead
<1>5. CASE v # NotCa /\ v # Ca(None)
  <2>1. v \in [kind : {"ca"}, path_len : [kind : {"some"}, some : U32]]
    BY <1>5 DEF BasicConstraints, Option, Ca
  <2>2. v.path_len.some \in I32 /\ v.path_len.some \in U32 /\ v = Ca(Some(v.path_len.some))
    BY <1>5, <2>1 DEF CanWrite, None, Some, Ca
  <2>. DEFINE n == v.path_len.some
  <2>3. BasicConstraintsItem(v) = IntItem(n)
    BY <1>5 DEF BasicConstraintsItem
  <2>4. n \in Int /\ n >= 0
    BY <2>2, IntAssumption DEF U32
  <2>. HIDE DEF n
  <2>5. BasicConstraintsRead(IntItem(n)) = Ca(Some(n))
    BY <1>1, <2>4 DEF BasicConstraintsRead
  <2>. QED
    BY <1>1, <2>2, <2>3, <2>4, <2>5 DEF ReadsBasicConstraints, ReadsI32, n
<1>. QED
  BY <1>3, <1>4, <1>5

\* What decode returns encodes, to the number it was read from.
LEMMA BasicConstraintsTaken ==
  ASSUME NEW item \in Item3, ReadsBasicConstraints(item)
  PROVE  LET v == BasicConstraintsRead(item)
         IN  /\ v \in BasicConstraints /\ CanWrite("BasicConstraints", v)
             /\ BasicConstraintsItem(v) = item
<1>1. item.int \in I32 /\ item.int \in Int /\ item.int >= -2 /\ item = IntItem(item.int)
  BY Shallow, ItemShape, IntAssumption DEF ReadsBasicConstraints, ReadsI32, IsInt, I32
<1>2. CASE item.int = -2
  BY <1>1, <1>2
     DEF BasicConstraintsRead, BasicConstraints, CanWrite, BasicConstraintsItem, NotCa, Ca
<1>3. CASE item.int = -1
  <2>1. BasicConstraintsRead(item) = Ca(None)
    BY <1>3 DEF BasicConstraintsRead
  <2>2. Ca(None) # NotCa /\ Ca(None) \in BasicConstraints /\ Ca(None).path_len = None
    BY DEF Ca, NotCa, BasicConstraints, Option
  <2>. QED
    BY <1>1, <1>3, <2>1, <2>2 DEF CanWrite, BasicConstraintsItem
<1>4. CASE item.int # -2 /\ item.int # -1
  <2>. DEFINE n == item.int
  <2>1. n \in U32 /\ n \in I32
    BY <1>1, <1>4, IntAssumption DEF U32, I32
  <2>2. BasicConstraintsRead(item) = Ca(Some(n))
    BY <1>4 DEF BasicConstraintsRead
  <2>. HIDE DEF n
  <2>3. /\ Ca(Some(n)) # NotCa /\ Ca(Some(n)) # Ca(None) /\ Ca(Some(n)) \in BasicConstraints
        /\ Ca(Some(n)).path_len.some = n
    BY <2>1 DEF Ca, NotCa, Some, None, BasicConstraints, Option
  <2>4. BasicConstraintsItem(Ca(Some(n))) = IntItem(n)
    BY <2>3 DEF BasicConstraintsItem
  <2>5. CanWrite("BasicConstraints", Ca(Some(n)))
    BY <2>1, <2>3 DEF CanWrite
  <2>. QED
    BY <1>1, <2>2, <2>3, <2>4, <2>5 DEF n
<1>. QED
  BY <1>2, <1>3, <1>4

-----------------------------------------------------------------------------
(* Alternative names                                                       *)

\* The single dNSName has a short form; a list in the long form of it is the
\* one that is written otherwise than it was read.
LEMMA AltNameWritten ==
  ASSUME NEW names \in Seq(GeneralName)
  PROVE  LET item == AltNameItem(names)
         IN  /\ item \in Item3
             /\ ConsistentNames(names) => ReadsAltName(item) /\ AltNameRead(item) = names
<1>1. CASE IsSingleDnsName(names)
  <2>1. /\ names \in Seq(GeneralName) /\ Len(names) = 1 /\ names[1] \in GeneralName
        /\ names[1].kind = DnsName /\ names[1].variant = DnsName
        /\ AltNameItem(names) = TextItem(names[1].content.text)
    BY <1>1 DEF IsSingleDnsName, AltNameItem
  <2>2. names[1].content \in [text : STRING]
    BY <2>1, VariantFacts DEF GeneralName, DnsName, TextVariants, OtherVariants
  <2>. DEFINE text == names[1].content.text
  <2>3. names[1] = [kind |-> DnsName, variant |-> DnsName, content |-> [text |-> text]]
    <3>1. names[1] = [kind |-> names[1].kind, variant |-> names[1].variant,
                      content |-> names[1].content]
      BY <2>1, ContentWritten
    <3>. QED
      BY <2>1, <2>2, <3>1
  <2>4. text \in STRING /\ names = <<names[1]>>
    BY <2>1, <2>2
  <2>. HIDE DEF text
  <2>5. TextItem(text) \in Item3 /\ ReadsText(TextItem(text)) /\ TextItem(text).text = text
    BY <2>4, Shallow DEF TextItem, Leaf, ReadsText
  <2>. QED
    BY <2>1, <2>3, <2>4, <2>5 DEF ReadsAltName, AltNameRead, text
<1>2. CASE ~IsSingleDnsName(names)
  <2>1. AltNameItem(names) = GeneralNamesItem(names)
    BY <1>2 DEF AltNameItem
  <2>2. GeneralNamesItem(names) \in Item3 /\ ~ReadsText(GeneralNamesItem(names))
    BY NamesWritten DEF Item3, ReadsText
  <2>. QED
    BY <2>1, <2>2, NamesWritten DEF ReadsAltName, AltNameRead, ConsistentNames
<1>. QED
  BY <1>1, <1>2

\* A list that was read is written again as it was, but for a single dNSName
\* that came as a list.
LEMMA AltNameTaken ==
  ASSUME NEW item \in Item3, ReadsAltName(item)
  PROVE  LET names == AltNameRead(item)
         IN  /\ names \in Seq(GeneralName) /\ ConsistentNames(names)
             /\ IsLongForm("SubjectAltName", item) \/ AltNameItem(names) = item
             /\ ~IsLongForm("SubjectAltName", AltNameItem(names))
<1>1. CASE ReadsText(item)
  <2>1. item.text \in STRING /\ item = TextItem(item.text)
    BY <1>1, Shallow, ItemShape DEF ReadsText
  <2>. DEFINE name == [kind |-> DnsName, variant |-> DnsName, content |-> [text |-> item.text]]
  <2>2. AltNameRead(item) = <<name>>
    BY <1>1 DEF AltNameRead
  <2>3. DnsName \in I32 /\ DnsName \in TextVariants /\ VariantOf(DnsName) = DnsName
    BY VariantFacts DEF DnsName, TextVariants, VariantOf
  <2>4. /\ name \in GeneralName /\ name.kind = DnsName /\ name.variant = DnsName
        /\ name.content.text = item.text
    BY <2>1, <2>3 DEF GeneralName
  <2>. HIDE DEF name
  <2>5. ConsistentNames(<<name>>) /\ <<name>> \in Seq(GeneralName) /\ AltNameItem(<<name>>) = item
    BY <2>1, <2>3, <2>4 DEF ConsistentNames, AltNameItem, IsSingleDnsName
  <2>6. ~IsLongForm("SubjectAltName", item)
    BY <1>1 DEF IsLongForm, ReadsText
  <2>. QED
    BY <2>2, <2>5, <2>6
<1>2. CASE ~ReadsText(item)
  <2>. DEFINE names == GeneralNamesRead(item)
  <2>1. AltNameRead(item) = names /\ ReadsGeneralNames(item)
    BY <1>2 DEF ReadsAltName, AltNameRead
  <2>2. /\ names \in Seq(GeneralName) /\ GeneralNamesItem(names) = item
        /\ \A i \in DOMAIN names : names[i].variant = VariantOf(names[i].kind)
        /\ item.type = "array" /\ item.len = 2 * Len(names)
        /\ Len(names) > 0 => item.items[1] = IntItem(names[1].kind)
    BY <2>1, NamesTaken, Shallow
  <2>. HIDE DEF names
  <2>3. CASE IsSingleDnsName(names)
    <3>1. AltNameItem(names).type = "text"
      BY <2>3 DEF AltNameItem, TextItem
    <3>2. item.len = 2 /\ item.items[1] = IntItem(DnsName)
      BY <2>2, <2>3 DEF IsSingleDnsName
    <3>. QED
      BY <2>1, <2>2, <3>1, <3>2 DEF IsLongForm, ConsistentNames
  <2>4. CASE ~IsSingleDnsName(names)
    <3>1. AltNameItem(names) = item
      BY <2>2, <2>4 DEF AltNameItem
    <3>2. ASSUME item.len = 2, item.items[1] = IntItem(DnsName)
          PROVE  FALSE
      <4>1. Len(names) = 1 /\ names[1].kind = DnsName
        <5>1. Len(names) \in Nat /\ 2 * Len(names) = 2
          BY <2>2, <3>2
        <5>2. Len(names) = 1
          <6>1. \A k \in Nat : 2 * k = 2 => k = 1
            OBVIOUS
          <6>. QED
            BY <5>1, <6>1
        <5>3. IntItem(names[1].kind).int = names[1].kind /\ IntItem(DnsName).int = DnsName
          BY DEF IntItem
        <5>. QED
          BY <2>2, <3>2, <5>2, <5>3
      <4>2. names[1].variant = DnsName
        BY <2>2, <4>1, VariantFacts DEF VariantOf, DnsName
      <4>. QED
        BY <2>4, <4>1, <4>2 DEF IsSingleDnsName
    <3>3. ~IsLongForm("SubjectAltName", item)
      BY <3>2 DEF IsLongForm
    <3>. QED
      BY <2>1, <2>2, <3>1, <3>3 DEF ConsistentNames
  <2>. QED
    BY <2>3, <2>4
<1>. QED
  BY <1>1, <1>2

-----------------------------------------------------------------------------
(* Authority key identifier and name constraints                           *)

\* decode undoes encode, in the short form and in the long one.
LEMMA AuthorityKeyIdentifierWritten ==
  ASSUME NEW v \in AuthorityKeyIdentifier, CanWrite("AuthorityKeyIdentifier", v)
  PROVE  LET item == AuthorityKeyIdentifierItem(v)
         IN  /\ item \in Item4
             /\ (v.cert_issuer # None => ConsistentNames(v.cert_issuer.some)) =>
                  /\ ReadsAuthorityKeyIdentifier(item)
                  /\ AuthorityKeyIdentifierRead(item) = v
<1>1. /\ v = [key_identifier |-> v.key_identifier, cert_issuer |-> v.cert_issuer,
              cert_serial |-> v.cert_serial]
      /\ v.key_identifier \in Seq(Octet)
      /\ v.cert_issuer \in Option(Seq(GeneralName)) /\ v.cert_serial \in Option(BigUint)
      /\ v.cert_issuer = None <=> v.cert_serial = None
  BY DEF AuthorityKeyIdentifier, CanWrite
<1>2. BytesItem(v.key_identifier) \in Item3
  BY <1>1, BytesTyped, Shallow
<1>3. CASE v.cert_issuer = None
  <2>1. AuthorityKeyIdentifierItem(v) = BytesItem(v.key_identifier)
    BY <1>3 DEF AuthorityKeyIdentifierItem
  <2>2. /\ BytesItem(v.key_identifier) \in Item4 /\ IsBytes(BytesItem(v.key_identifier))
        /\ BytesItem(v.key_identifier).bytes = v.key_identifier
    BY <1>1, BytesTyped, Shallow
  <2>. QED
    BY <1>1, <1>3, <2>1, <2>2 DEF ReadsAuthorityKeyIdentifier, AuthorityKeyIdentifierRead
<1>4. CASE v.cert_issuer # None
  <2>. DEFINE names == v.cert_issuer.some
              n == v.cert_serial.some
              k == BytesItem(v.key_identifier)
              g == GeneralNamesItem(names)
              b == BytesItem(ToBytesBe(n))
              item == ArrayItem(<<k, g, b>>)
  <2>1. /\ names \in Seq(GeneralName) /\ v.cert_issuer = Some(names)
        /\ n \in BigUint /\ v.cert_serial = Some(n)
    BY <1>1, <1>4 DEF Option, Some
  <2>2. AuthorityKeyIdentifierItem(v) = item
    BY <1>4 DEF AuthorityKeyIdentifierItem
  <2>3. /\ k \in Leaf /\ IsBytes(k) /\ k.bytes = v.key_identifier
    BY <1>1, BytesTyped
  <2>4. b \in Leaf /\ IsBytes(b) /\ FromBytesBe(b.bytes) = n
    BY <2>1, BigUintFacts, BytesTyped
  <2>5. /\ g \in ArrayOf(Item2)
        /\ ConsistentNames(names) => ReadsGeneralNames(g) /\ GeneralNamesRead(g) = names
    BY <2>1, NamesWritten DEF ConsistentNames
  <2>. HIDE DEF names, n, k, g, b
  <2>6. <<k, g, b>> \in Seq(Item3)
    BY <2>3, <2>4, <2>5, Shallow
  <2>7. item \in Item4
    BY <2>6, ArrayItemTyped, Shallow
  <2>8. /\ IsFixed(item, 3) /\ ~IsBytes(item)
        /\ item.items[1] = k /\ item.items[2] = g /\ item.items[3] = b
    BY DEF IsFixed, IsWhole, ArrayItem, IsBytes
  <2>. HIDE DEF item
  <2>9. ASSUME ConsistentNames(names)
        PROVE  ReadsAuthorityKeyIdentifier(item) /\ AuthorityKeyIdentifierRead(item) = v
    <3>1. ReadsAuthorityKeyIdentifier(item)
      BY <2>3, <2>4, <2>5, <2>8, <2>9 DEF ReadsAuthorityKeyIdentifier
    <3>2. AuthorityKeyIdentifierRead(item) =
            [key_identifier |-> k.bytes, cert_issuer |-> Some(GeneralNamesRead(g)),
             cert_serial |-> Some(FromBytesBe(b.bytes))]
      BY <2>8 DEF AuthorityKeyIdentifierRead
    <3>. QED
      BY <1>1, <2>1, <2>3, <2>4, <2>5, <2>9, <3>1, <3>2
  <2>. QED
    BY <1>4, <2>2, <2>7, <2>9 DEF names
<1>. QED
  BY <1>3, <1>4

\* The serial number loses the zeros in front of it.
LEMMA AuthorityKeyIdentifierTaken ==
  ASSUME NEW item \in Item4, ReadsAuthorityKeyIdentifier(item)
  PROVE  LET v == AuthorityKeyIdentifierRead(item)
             again == AuthorityKeyIdentifierItem(v)
         IN  /\ v \in AuthorityKeyIdentifier /\ CanWrite("AuthorityKeyIdentifier", v)
             /\ v.cert_issuer # None => ConsistentNames(v.cert_issuer.some)
             /\ IsLongForm("AuthorityKeyIdentifier", item) \/ again = item
             /\ ~IsLongForm("AuthorityKeyIdentifier", again)
<1>1. CASE IsBytes(item)
  <2>1. item.bytes \in Seq(Octet) /\ item = BytesItem(item.bytes) /\ item.type = "bytes"
    BY <1>1, Shallow, ItemShape DEF IsBytes
  <2>. DEFINE v == [key_identifier |-> item.bytes, cert_issuer |-> None, cert_serial |-> None]
  <2>2. AuthorityKeyIdentifierRead(item) = v
    BY <1>1 DEF AuthorityKeyIdentifierRead
  <2>3. /\ v \in AuthorityKeyIdentifier /\ v.key_identifier = item.bytes
        /\ v.cert_issuer = None /\ v.cert_serial = None
    BY <2>1 DEF AuthorityKeyIdentifier, Option
  <2>. HIDE DEF v
  <2>4. CanWrite("AuthorityKeyIdentifier", v)
    BY <2>3 DEF CanWrite
  <2>5. AuthorityKeyIdentifierItem(v) = item
    BY <2>1, <2>3 DEF AuthorityKeyIdentifierItem
  <2>6. ~IsLongForm("AuthorityKeyIdentifier", item)
    BY <2>1 DEF IsLongForm
  <2>. QED
    BY <2>2, <2>3, <2>4, <2>5, <2>6
<1>2. CASE ~IsBytes(item)
  <2>. DEFINE k == item.items[1]
              g == item.items[2]
              b == item.items[3]
              names == GeneralNamesRead(g)
              n == FromBytesBe(b.bytes)
              v == [key_identifier |-> k.bytes, cert_issuer |-> Some(names),
                    cert_serial |-> Some(n)]
  <2>1. IsFixed(item, 3) /\ IsBytes(k) /\ ReadsGeneralNames(g) /\ IsBytes(b)
    BY <1>2 DEF ReadsAuthorityKeyIdentifier
  <2>2. /\ k \in Item3 /\ g \in Item3 /\ b \in Item3
        /\ item = ArrayItem(<<k, g, b>>) /\ item.type = "array"
    <3>1. /\ item.items \in Seq(Item3) /\ Len(item.items) = 3 /\ item = ArrayItem(item.items)
          /\ item.type = "array" /\ \A i \in 1 .. 3 : item.items[i] \in Item3
      BY <2>1, FixedShape, Shallow
    <3>2. item.items = <<item.items[1], item.items[2], item.items[3]>>
      BY <3>1
    <3>. QED
      BY <3>1, <3>2
  <2>3. AuthorityKeyIdentifierRead(item) = v
    BY <1>2 DEF AuthorityKeyIdentifierRead
  <2>4. k.bytes \in Seq(Octet) /\ k = BytesItem(k.bytes)
    BY <2>1, <2>2, Shallow, ItemShape DEF IsBytes
  <2>5. b.bytes \in Seq(Octet) /\ b = BytesItem(b.bytes)
    BY <2>1, <2>2, Shallow, ItemShape DEF IsBytes
  <2>6. names \in Seq(GeneralName) /\ ConsistentNames(names) /\ GeneralNamesItem(names) = g
    BY <2>1, <2>2, Shallow, NamesTaken DEF ConsistentNames
  <2>7. n \in BigUint /\ ToBytesBe(n) \in Seq(Octet) /\ FromBytesBe(ToBytesBe(n)) = n
    BY <2>5, BigUintFacts
  <2>8. IsLongForm("AuthorityKeyIdentifier", item) <=> ToBytesBe(n) # b.bytes
    BY <2>2 DEF IsLongForm
  <2>. HIDE DEF k, g, b, names, n
  <2>9. /\ v \in AuthorityKeyIdentifier
        /\ v.key_identifier = k.bytes /\ v.cert_issuer = Some(names) /\ v.cert_serial = Some(n)
    BY <2>4, <2>6, <2>7 DEF AuthorityKeyIdentifier, Option, Some
  <2>10. /\ v.cert_issuer # None /\ v.cert_issuer.some = names
         /\ v.cert_serial # None /\ v.cert_serial.some = n
    BY <2>9 DEF Some, None
  <2>. HIDE DEF v
  <2>11. CanWrite("AuthorityKeyIdentifier", v)
    BY <2>10 DEF CanWrite
  <2>12. AuthorityKeyIdentifierItem(v) = ArrayItem(<<k, g, BytesItem(ToBytesBe(n))>>)
    BY <2>4, <2>6, <2>9, <2>10 DEF AuthorityKeyIdentifierItem
  <2>13. IsLongForm("AuthorityKeyIdentifier", item) \/ AuthorityKeyIdentifierItem(v) = item
    BY <2>2, <2>5, <2>8, <2>12
  <2>14. ~IsLongForm("AuthorityKeyIdentifier", AuthorityKeyIdentifierItem(v))
    <3>1. ArrayItem(<<k, g, BytesItem(ToBytesBe(n))>>).items[3].bytes = ToBytesBe(n)
      BY DEF ArrayItem, BytesItem
    <3>. QED
      BY <2>7, <2>12, <3>1 DEF IsLongForm
  <2>. QED
    BY <2>3, <2>6, <2>9, <2>10, <2>11, <2>13, <2>14
<1>. QED
  BY <1>1, <1>2

\* decode undoes encode of each optional subtree.
LEMMA NameConstraintsWritten ==
  ASSUME NEW v \in NameConstraints
  PROVE  LET item == NameConstraintsItem(v)
         IN  /\ item \in Item4
             /\ /\ v.permitted # None => ConsistentNames(v.permitted.some)
                /\ v.excluded # None => ConsistentNames(v.excluded.some)
                => ReadsNameConstraints(item) /\ NameConstraintsRead(item) = v
<1>. DEFINE a == SubtreeItem(v.permitted)
            b == SubtreeItem(v.excluded)
            item == ArrayItem(<<a, b>>)
<1>1. /\ v = [permitted |-> v.permitted, excluded |-> v.excluded]
      /\ v.permitted \in Option(Seq(GeneralName)) /\ v.excluded \in Option(Seq(GeneralName))
  BY DEF NameConstraints
<1>2. a \in Item3 /\ b \in Item3
  BY <1>1, SubtreeWritten
<1>3. NameConstraintsItem(v) = item
  BY DEF NameConstraintsItem
<1>4. ASSUME v.permitted # None => ConsistentNames(v.permitted.some),
             v.excluded # None => ConsistentNames(v.excluded.some)
      PROVE  /\ ReadsSubtree(a) /\ SubtreeRead(a) = v.permitted
             /\ ReadsSubtree(b) /\ SubtreeRead(b) = v.excluded
  BY <1>1, <1>4, SubtreeWritten DEF ConsistentNames
<1>. HIDE DEF a, b
<1>5. item \in Item4
  <2>1. <<a, b>> \in Seq(Item3)
    BY <1>2
  <2>. QED
    BY <2>1, ArrayItemTyped, Shallow
<1>6. IsFixed(item, 2) /\ item.items[1] = a /\ item.items[2] = b
  BY DEF IsFixed, IsWhole, ArrayItem
<1>. HIDE DEF item
<1>. QED
  BY <1>1, <1>3, <1>4, <1>5, <1>6 DEF ReadsNameConstraints, NameConstraintsRead

\* Both subtrees are written again as they were read.
LEMMA NameConstraintsTaken ==
  ASSUME NEW item \in Item4, ReadsNameConstraints(item)
  PROVE  LET v == NameConstraintsRead(item)
         IN  /\ v \in NameConstraints
             /\ v.permitted # None => ConsistentNames(v.permitted.some)
             /\ v.excluded # None => ConsistentNames(v.excluded.some)
             /\ NameConstraintsItem(v) = item
<1>. DEFINE a == item.items[1]
            b == item.items[2]
            p == SubtreeRead(a)
            e == SubtreeRead(b)
            v == [permitted |-> p, excluded |-> e]
<1>1. IsFixed(item, 2) /\ ReadsSubtree(a) /\ ReadsSubtree(b)
  BY DEF ReadsNameConstraints
<1>2. a \in Item3 /\ b \in Item3 /\ item = ArrayItem(<<a, b>>)
  <2>1. /\ item.items \in Seq(Item3) /\ Len(item.items) = 2 /\ item = ArrayItem(item.items)
        /\ \A i \in 1 .. 2 : item.items[i] \in Item3
    BY <1>1, FixedShape, Shallow
  <2>2. item.items = <<item.items[1], item.items[2]>>
    BY <2>1
  <2>. QED
    BY <2>1, <2>2
<1>3. NameConstraintsRead(item) = v
  BY DEF NameConstraintsRead
<1>4. /\ p \in Option(Seq(GeneralName))
      /\ p # None => ConsistentNames(p.some)
      /\ SubtreeItem(p) = a
  BY <1>1, <1>2, Shallow, SubtreeTaken DEF ConsistentNames
<1>5. /\ e \in Option(Seq(GeneralName))
      /\ e # None => ConsistentNames(e.some)
      /\ SubtreeItem(e) = b
  BY <1>1, <1>2, Shallow, SubtreeTaken DEF ConsistentNames
<1>. HIDE DEF a, b, p, e
<1>6. v \in NameConstraints /\ v.permitted = p /\ v.excluded = e
  BY <1>4, <1>5 DEF NameConstraints
<1>. HIDE DEF v
<1>. QED
  BY <1>2, <1>3, <1>4, <1>5, <1>6 DEF NameConstraintsItem

-----------------------------------------------------------------------------
(* Policy constraints                                                      *)

\* decode undoes encode of both optional numbers.
LEMMA PolicyConstraintsWritten ==
  ASSUME NEW v \in PolicyConstraints
  PROVE  LET item == PolicyConstraintsItem(v)
         IN  /\ item \in Item3
             /\ ReadsPolicyConstraints(item) /\ PolicyConstraintsRead(item) = v
<1>. DEFINE a == OptUintItem(v.require_explicit_policy)
            b == OptUintItem(v.inhibit_policy_mapping)
            item == ArrayItem(<<a, b>>)
<1>1. /\ v = [require_explicit_policy |-> v.require_explicit_policy,
              inhibit_policy_mapping |-> v.inhibit_policy_mapping]
      /\ v.require_explicit_policy \in Option(U32) /\ v.inhibit_policy_mapping \in Option(U32)
  BY DEF PolicyConstraints
<1>2. /\ a \in Leaf /\ ReadsOptUint(a) /\ OptUintRead(a) = v.require_explicit_policy
      /\ b \in Leaf /\ ReadsOptUint(b) /\ OptUintRead(b) = v.inhibit_policy_mapping
  BY <1>1, OptUintWritten
<1>3. PolicyConstraintsItem(v) = item
  BY DEF PolicyConstraintsItem
<1>. HIDE DEF a, b
<1>4. item \in Item3
  <2>1. <<a, b>> \in Seq(Item2)
    BY <1>2, Shallow
  <2>. QED
    BY <2>1, ArrayItemTyped, Shallow
<1>5. IsFixed(item, 2) /\ item.items[1] = a /\ item.items[2] = b
  BY DEF IsFixed, IsWhole, ArrayItem
<1>. HIDE DEF item
<1>. QED
  BY <1>1, <1>2, <1>3, <1>4, <1>5 DEF ReadsPolicyConstraints, PolicyConstraintsRead

\* Both numbers are written again as they were read.
LEMMA PolicyConstraintsTaken ==
  ASSUME NEW item \in Item3, ReadsPolicyConstraints(item)
  PROVE  LET v == PolicyConstraintsRead(item)
         IN  v \in PolicyConstraints /\ PolicyConstraintsItem(v) = item
<1>. DEFINE a == item.items[1]
            b == item.items[2]
            p == OptUintRead(a)
            e == OptUintRead(b)
            v == [require_explicit_policy |-> p, inhibit_policy_mapping |-> e]
<1>1. IsFixed(item, 2) /\ ReadsOptUint(a) /\ ReadsOptUint(b)
  BY DEF ReadsPolicyConstraints
<1>2. a \in Item2 /\ b \in Item2 /\ item = ArrayItem(<<a, b>>)
  <2>1. /\ item.items \in Seq(Item2) /\ Len(item.items) = 2 /\ item = ArrayItem(item.items)
        /\ \A i \in 1 .. 2 : item.items[i] \in Item2
    BY <1>1, FixedShape, Shallow
  <2>2. item.items = <<item.items[1], item.items[2]>>
    BY <2>1
  <2>. QED
    BY <2>1, <2>2
<1>3. PolicyConstraintsRead(item) = v
  BY DEF PolicyConstraintsRead
<1>4. p \in Option(U32) /\ OptUintItem(p) = a
  BY <1>1, <1>2, Shallow, OptUintTaken
<1>5. e \in Option(U32) /\ OptUintItem(e) = b
  BY <1>1, <1>2, Shallow, OptUintTaken
<1>. HIDE DEF a, b, p, e
<1>. QED
  BY <1>2, <1>3, <1>4, <1>5 DEF PolicyConstraints, PolicyConstraintsItem

-----------------------------------------------------------------------------
(* Distribution points                                                     *)

\* A list is written as an array that has all its elements.
LEMMA ListShape ==
  ASSUME NEW S, NEW s \in Seq(S)
  PROVE  LET item == ArrayItem(s)
         IN  /\ item \in ArrayOf(S) /\ IsWhole(item)
             /\ item.type = "array" /\ item.len = Len(s) /\ item.items = s
             /\ Elements(item) = {s[i] : i \in DOMAIN s}
<1>1. /\ ArrayItem(s).type = "array" /\ ArrayItem(s).len = Len(s)
      /\ ArrayItem(s).items = s
  BY DEF ArrayItem
<1>. QED
  BY <1>1, ArrayItemTyped DEF IsWhole, Elements

\* decode undoes encode of the texts of a point; one text is no array.
LEMMA FullNameWritten ==
  ASSUME NEW texts \in Seq(STRING)
  PROVE  LET item == FullNameItem(texts)
         IN  /\ item \in Item1 /\ ReadsFullName(item) /\ FullNameRead(item) = texts
             /\ ~(item.type = "array" /\ item.len = 1)
<1>1. \A t \in STRING : TextItem(t) \in Plain /\ TextItem(t).type = "text" /\ TextItem(t).text = t
  BY Depths DEF TextItem, Leaf
<1>2. CASE Len(texts) = 1
  <2>1. FullNameItem(texts) = TextItem(texts[1]) /\ texts[1] \in STRING /\ texts = <<texts[1]>>
    BY <1>2 DEF FullNameItem
  <2>2. TextItem(texts[1]) \in Item1
    BY <1>1, <2>1, Depths
  <2>. QED
    BY <1>1, <2>1, <2>2 DEF ReadsFullName, ReadsText, FullNameRead
<1>3. CASE Len(texts) # 1
  <2>. DEFINE s == [i \in DOMAIN texts |-> TextItem(texts[i])]
              item == ArrayItem(s)
  <2>1. \A i \in DOMAIN texts : texts[i] \in STRING
    OBVIOUS
  <2>2. s \in Seq(Plain) /\ Len(s) = Len(texts) /\ DOMAIN s = DOMAIN texts
    <3>1. \A i \in DOMAIN texts : TextItem(texts[i]) \in Plain
      BY <1>1, <2>1
    <3>2. DOMAIN texts = 1 .. Len(texts) /\ Len(texts) \in Nat
      OBVIOUS
    <3>. QED
      BY <3>1, <3>2
  <2>3. \A i \in DOMAIN texts : s[i].type = "text" /\ s[i].text = texts[i]
    BY <1>1, <2>1
  <2>4. FullNameItem(texts) = item
    BY <1>3 DEF FullNameItem
  <2>. HIDE DEF s
  <2>5. /\ item \in ArrayOf(Plain) /\ IsWhole(item) /\ item.type = "array"
        /\ item.len = Len(texts) /\ item.items = s
        /\ Elements(item) = {s[i] : i \in DOMAIN s}
    BY <2>2, ListShape
  <2>. HIDE DEF item
  <2>6. ~ReadsText(item) /\ ReadsFullName(item)
    BY <2>2, <2>3, <2>5 DEF ReadsFullName, ReadsText
  <2>7. FullNameRead(item) = [i \in DOMAIN texts |-> texts[i]]
    BY <2>2, <2>3, <2>5, <2>6 DEF FullNameRead
  <2>8. texts = [i \in DOMAIN texts |-> texts[i]]
    OBVIOUS
  <2>. QED
    BY <1>3, <2>4, <2>5, <2>6, <2>7, <2>8 DEF Item1
<1>. QED
  BY <1>2, <1>3

\* An array of one text is the form that is not written.
LEMMA FullNameTaken ==
  ASSUME NEW item \in Item2, ReadsFullName(item)
  PROVE  LET texts == FullNameRead(item)
         IN  /\ texts \in Seq(STRING)
             /\ (item.type = "array" /\ item.len = 1) \/ FullNameItem(texts) = item
<1>1. CASE ReadsText(item)
  <2>1. item.text \in STRING /\ item = TextItem(item.text)
    BY <1>1, Shallow, ItemShape DEF ReadsText
  <2>2. FullNameRead(item) = <<item.text>>
    BY <1>1 DEF FullNameRead
  <2>. QED
    BY <2>1, <2>2 DEF FullNameItem
<1>2. CASE ~ReadsText(item)
  <2>. DEFINE s == item.items
              texts == [i \in DOMAIN s |-> s[i].text]
  <2>1. IsWhole(item) /\ \A x \in Elements(item) : ReadsText(x)
    BY <1>2 DEF ReadsFullName
  <2>2. /\ s \in Seq(Item2) /\ item.len = Len(s) /\ item = ArrayItem(s) /\ item.type = "array"
        /\ \A i \in 1 .. item.len : s[i] \in Item2 /\ s[i] \in Elements(item)
    BY <2>1, Shallow, WholeShape DEF IsWhole
  <2>3. DOMAIN s = 1 .. Len(s) /\ Len(s) \in Nat
    BY <2>2
  <2>4. \A i \in DOMAIN s : s[i].text \in STRING /\ s[i] = TextItem(s[i].text)
    BY <2>1, <2>2, <2>3, Shallow, ItemShape DEF ReadsText
  <2>5. FullNameRead(item) = texts
    BY <1>2 DEF FullNameRead
  <2>. HIDE DEF s
  <2>6. texts \in Seq(STRING) /\ Len(texts) = Len(s) /\ DOMAIN texts = DOMAIN s
    BY <2>3, <2>4
  <2>7. Len(texts) # 1 => FullNameItem(texts) = item
    <3>1. \A i \in DOMAIN s : texts[i] = s[i].text
      OBVIOUS
    <3>. HIDE DEF texts
    <3>2. [i \in DOMAIN texts |-> TextItem(texts[i])] = [i \in DOMAIN s |-> s[i]]
      BY <2>4, <2>6, <3>1
    <3>3. [i \in DOMAIN s |-> s[i]] = s
      BY <2>2
    <3>. QED
      BY <2>2, <3>2, <3>3 DEF FullNameItem
  <2>. HIDE DEF texts
  <2>. QED
    BY <2>2, <2>5, <2>6, <2>7
<1>. QED
  BY <1>1, <1>2

\* A name that may be absent.
LEMMA IssuerWritten ==
  ASSUME NEW issuer \in Option(NameContents)
  PROVE  LET item == IF issuer = None THEN NullItem ELSE OpaqueItem("name", issuer.some)
         IN  /\ item \in Plain
             /\ IsNull(item) \/ IsOpaque(item, "name")
             /\ (IF IsNull(item) THEN None ELSE Some(item.content)) = issuer
<1>1. CASE issuer = None
  BY <1>1, Depths DEF IsNull, NullItem
<1>2. CASE issuer \in [kind : {"some"}, some : NameContents]
  <2>1. issuer # None /\ issuer = Some(issuer.some) /\ issuer.some \in NameContents
    BY <1>2 DEF None, Some
  <2>. QED
    BY <2>1 DEF OpaqueItem, Plain, IsNull, IsOpaque
<1>. QED
  BY <1>1, <1>2 DEF Option

\* decode undoes encode of a point.
LEMMA PointWritten ==
  ASSUME NEW p \in DistributionPointName
  PROVE  LET item == PointItem(p)
         IN  /\ item \in Item2 /\ ReadsPoint(item) /\ PointRead(item) = p
             /\ ~IsRepeatedPoint(item)
<1>. DEFINE a == FullNameItem(p.full_name)
            b == OptUintItem(p.reasons)
            c == IF p.crl_issuer = None THEN NullItem ELSE OpaqueItem("name", p.crl_issuer.some)
            item == ArrayItem(<<a, b, c>>)
<1>1. /\ p = [full_name |-> p.full_name, reasons |-> p.reasons, crl_issuer |-> p.crl_issuer]
      /\ p.full_name \in Seq(STRING) /\ p.reasons \in Option(U32)
      /\ p.crl_issuer \in Option(NameContents)
  BY DEF DistributionPointName
<1>2. /\ a \in Item1 /\ ReadsFullName(a) /\ FullNameRead(a) = p.full_name
      /\ ~(a.type = "array" /\ a.len = 1)
  BY <1>1, FullNameWritten
<1>3. b \in Leaf /\ ReadsOptUint(b) /\ OptUintRead(b) = p.reasons
  BY <1>1, OptUintWritten
<1>4. /\ c \in Plain /\ (IsNull(c) \/ IsOpaque(c, "name"))
      /\ (IF IsNull(c) THEN None ELSE Some(c.content)) = p.crl_issuer
  BY <1>1, IssuerWritten
<1>5. PointItem(p) = item
  BY DEF PointItem
<1>. HIDE DEF a, b, c
<1>6. item \in Item2
  <2>1. <<a, b, c>> \in Seq(Item1)
    BY <1>2, <1>3, <1>4, Shallow, Depths
  <2>. QED
    BY <2>1, ArrayItemTyped DEF Item2
<1>7. IsFixed(item, 3) /\ item.items[1] = a /\ item.items[2] = b /\ item.items[3] = c
  BY DEF IsFixed, IsWhole, ArrayItem
<1>. HIDE DEF item
<1>8. ReadsPoint(item)
  BY <1>2, <1>3, <1>4, <1>7 DEF ReadsPoint
<1>9. PointRead(item) = p
  BY <1>1, <1>2, <1>3, <1>4, <1>7 DEF PointRead
<1>. QED
  BY <1>2, <1>5, <1>6, <1>7, <1>8, <1>9 DEF IsRepeatedPoint

\* A point is written again as it was, but for an array of one text.
LEMMA PointTaken ==
  ASSUME NEW item \in Item2, ReadsPoint(item)
  PROVE  /\ PointRead(item) \in DistributionPointName
         /\ IsRepeatedPoint(item) \/ PointItem(PointRead(item)) = item
<1>. DEFINE a == item.items[1]
            b == item.items[2]
            c == item.items[3]
            f == FullNameRead(a)
            r == OptUintRead(b)
            i == IF IsNull(c) THEN None ELSE Some(c.content)
            p == [full_name |-> f, reasons |-> r, crl_issuer |-> i]
<1>1. /\ IsFixed(item, 3) /\ ReadsFullName(a) /\ ReadsOptUint(b)
      /\ IsNull(c) \/ IsOpaque(c, "name")
  BY DEF ReadsPoint
<1>2. a \in Item1 /\ b \in Item1 /\ c \in Item1 /\ item = ArrayItem(<<a, b, c>>)
  <2>1. item \in Plain \cup ArrayOf(Item1)
    BY DEF Item2
  <2>2. /\ item.items \in Seq(Item1) /\ Len(item.items) = 3 /\ item = ArrayItem(item.items)
        /\ \A n \in 1 .. 3 : item.items[n] \in Item1
    BY <1>1, <2>1, FixedShape
  <2>3. item.items = <<item.items[1], item.items[2], item.items[3]>>
    BY <2>2
  <2>. QED
    BY <2>2, <2>3
<1>3. PointRead(item) = p
  BY DEF PointRead
<1>4. f \in Seq(STRING) /\ (IsRepeatedPoint(item) \/ FullNameItem(f) = a)
  BY <1>1, <1>2, Depths, FullNameTaken DEF IsRepeatedPoint
<1>5. r \in Option(U32) /\ OptUintItem(r) = b
  BY <1>1, <1>2, OptUintTaken DEF Item1
<1>6. /\ i \in Option(NameContents)
      /\ (IF i = None THEN NullItem ELSE OpaqueItem("name", i.some)) = c
  <2>1. CASE IsNull(c)
    BY <1>2, <2>1, ItemShape DEF Item1, IsNull, Option
  <2>2. CASE ~IsNull(c)
    <3>1. c.content \in NameContents /\ c = OpaqueItem("name", c.content)
      BY <1>1, <1>2, <2>2, ItemShape DEF Item1, IsOpaque
    <3>. QED
      BY <2>2, <3>1 DEF Some, None, Option
  <2>. QED
    BY <2>1, <2>2
<1>. HIDE DEF a, b, c, f, r, i
<1>7. p \in DistributionPointName
  BY <1>4, <1>5, <1>6 DEF DistributionPointName
<1>8. PointItem(p) = ArrayItem(<<FullNameItem(f), b, c>>)
  BY <1>5, <1>6 DEF PointItem
<1>. QED
  BY <1>2, <1>3, <1>4, <1>7, <1>8

\* The single plain point has a short form, which its encoder prefers.
LEMMA PointsWritten ==
  ASSUME NEW points \in Seq(DistributionPointName)
  PROVE  LET item == PointsItem(points)
         IN  /\ item \in Item3 /\ ReadsPoints(item) /\ PointsRead(item) = points
             /\ ~IsLongForm("CrlDistributionPoints", item)
<1>1. CASE IsPlainPoint(points)
  <2>. DEFINE text == points[1].full_name[1]
  <2>1. /\ PointsItem(points) = TextItem(text)
        /\ Len(points) = 1 /\ Len(points[1].full_name) = 1
        /\ points[1].reasons = None /\ points[1].crl_issuer = None
    BY <1>1 DEF PointsItem, IsPlainPoint
  <2>2. points[1] \in DistributionPointName /\ points = <<points[1]>>
    BY <2>1
  <2>3. points[1].full_name \in Seq(STRING)
    BY <2>2 DEF DistributionPointName
  <2>4. text \in STRING /\ points[1].full_name = <<text>>
    BY <2>1, <2>3
  <2>. HIDE DEF text
  <2>5. points[1] = PlainPoint(text)
    BY <2>1, <2>2, <2>4 DEF DistributionPointName, PlainPoint
  <2>6. TextItem(text) \in Item3 /\ ReadsText(TextItem(text)) /\ TextItem(text).text = text
    BY <2>4, Shallow DEF TextItem, Leaf, ReadsText
  <2>7. ~IsLongForm("CrlDistributionPoints", TextItem(text))
    BY DEF IsLongForm, TextItem
  <2>. QED
    BY <2>1, <2>2, <2>5, <2>6, <2>7 DEF ReadsPoints, PointsRead
<1>2. CASE ~IsPlainPoint(points)
  <2>. DEFINE s == [i \in DOMAIN points |-> PointItem(points[i])]
              item == ArrayItem(s)
  <2>1. PointsItem(points) = item
    BY <1>2 DEF PointsItem
  <2>2. \A i \in DOMAIN points :
          /\ PointItem(points[i]) \in Item2 /\ ReadsPoint(PointItem(points[i]))
          /\ PointRead(PointItem(points[i])) = points[i]
          /\ ~IsRepeatedPoint(PointItem(points[i]))
    <3>1. \A i \in DOMAIN points : points[i] \in DistributionPointName
      OBVIOUS
    <3>. QED
      BY <3>1, PointWritten
  <2>3. DOMAIN points = 1 .. Len(points) /\ Len(points) \in Nat
    OBVIOUS
  <2>4. s \in Seq(Item2) /\ Len(s) = Len(points) /\ DOMAIN s = DOMAIN points
    BY <2>2, <2>3
  <2>5. \A i \in DOMAIN points : s[i] = PointItem(points[i])
    OBVIOUS
  <2>. HIDE DEF s
  <2>6. /\ item \in ArrayOf(Item2) /\ IsWhole(item) /\ item.type = "array"
        /\ item.items = s /\ Elements(item) = {s[i] : i \in DOMAIN s}
    BY <2>4, ListShape
  <2>. HIDE DEF item
  <2>7. ~ReadsText(item) /\ ReadsPoints(item)
    BY <2>2, <2>4, <2>5, <2>6 DEF ReadsPoints, ReadsText
  <2>8. PointsRead(item) = points
    <3>1. PointsRead(item) = [i \in DOMAIN points |-> points[i]]
      BY <2>2, <2>4, <2>5, <2>6, <2>7 DEF PointsRead
    <3>2. [i \in DOMAIN points |-> points[i]] = points
      OBVIOUS
    <3>. QED
      BY <3>1, <3>2
  <2>9. ~IsLongForm("CrlDistributionPoints", item)
    BY <1>2, <2>2, <2>4, <2>5, <2>6, <2>8 DEF IsLongForm
  <2>. QED
    BY <2>1, <2>6, <2>7, <2>8, <2>9, Shallow
<1>. QED
  BY <1>1, <1>2

\* The points are written again as they were, but for the long forms.
LEMMA PointsTaken ==
  ASSUME NEW item \in Item3, ReadsPoints(item)
  PROVE  LET points == PointsRead(item)
         IN  /\ points \in Seq(DistributionPointName)
             /\ IsLongForm("CrlDistributionPoints", item) \/ PointsItem(points) = item
<1>1. CASE ReadsText(item)
  <2>1. item.text \in STRING /\ item = TextItem(item.text)
    BY <1>1, Shallow, ItemShape DEF ReadsText
  <2>2. PointsRead(item) = <<PlainPoint(item.text)>>
    BY <1>1 DEF PointsRead
  <2>. DEFINE point == PlainPoint(item.text)
  <2>3. /\ point \in DistributionPointName /\ point.full_name = <<item.text>>
        /\ point.reasons = None /\ point.crl_issuer = None
    BY <2>1 DEF PlainPoint, DistributionPointName, Option
  <2>. HIDE DEF point
  <2>4. PointsItem(<<point>>) = TextItem(item.text)
    BY <2>1, <2>3 DEF PointsItem, IsPlainPoint
  <2>5. <<point>> \in Seq(DistributionPointName)
    BY <2>3
  <2>. QED
    BY <2>1, <2>2, <2>4, <2>5 DEF point
<1>2. CASE ~ReadsText(item)
  <2>. DEFINE s == item.items
              points == [i \in DOMAIN s |-> PointRead(s[i])]
  <2>1. IsWhole(item) /\ \A x \in Elements(item) : ReadsPoint(x)
    BY <1>2 DEF ReadsPoints
  <2>2. /\ s \in Seq(Item2) /\ item.len = Len(s) /\ item = ArrayItem(s) /\ item.type = "array"
        /\ \A i \in 1 .. item.len : s[i] \in Item2 /\ s[i] \in Elements(item)
    BY <2>1, Shallow, WholeShape DEF IsWhole
  <2>3. DOMAIN s = 1 .. Len(s) /\ Len(s) \in Nat
    BY <2>2
  <2>4. \A i \in DOMAIN s :
          /\ PointRead(s[i]) \in DistributionPointName
          /\ IsRepeatedPoint(s[i]) \/ PointItem(PointRead(s[i])) = s[i]
    BY <2>1, <2>2, <2>3, PointTaken
  <2>5. PointsRead(item) = points
    BY <1>2 DEF PointsRead
  <2>6. points \in Seq(DistributionPointName) /\ Len(points) = Len(s) /\ DOMAIN points = DOMAIN s
    BY <2>3, <2>4
  <2>7. ASSUME ~IsLongForm("CrlDistributionPoints", item)
        PROVE  PointsItem(points) = item
    <3>1. \A i \in DOMAIN s : ~IsRepeatedPoint(s[i])
      BY <2>2, <2>7 DEF IsLongForm
    <3>2. ~IsPlainPoint(points)
      <4>1. IsPlainPoint(points) => Len(points) = 1
        BY DEF IsPlainPoint
      <4>. QED
        BY <2>2, <2>5, <2>6, <2>7, <4>1 DEF IsLongForm
    <3>3. \A i \in DOMAIN s : points[i] = PointRead(s[i])
      OBVIOUS
    <3>. HIDE DEF points, s
    <3>4. [i \in DOMAIN points |-> PointItem(points[i])] = [i \in DOMAIN s |-> s[i]]
      BY <2>4, <2>6, <3>1, <3>3
    <3>5. [i \in DOMAIN s |-> s[i]] = s
      BY <2>2
    <3>. QED
      BY <2>2, <3>2, <3>4, <3>5 DEF PointsItem
  <2>. HIDE DEF points
  <2>. QED
    BY <2>5, <2>6, <2>7
<1>. QED
  BY <1>1, <1>2

-----------------------------------------------------------------------------
(* Identifiers with a text: access descriptions and policy qualifiers      *)

\* decode undoes encode of one description or qualifier.
LEMMA IdTextWritten ==
  ASSUME NEW v \in IdText
  PROVE  LET pair == IdTextItems(v)
         IN  pair \in Plain \X Plain /\ ReadsIdText(pair) /\ IdTextRead(pair) = v
<1>. DEFINE a == IntOrOidItem(v.id)
            b == TextItem(v.text)
<1>1. v = [id |-> v.id, text |-> v.text] /\ v.id \in IntOrOid /\ v.text \in STRING
  BY DEF IdText
<1>2. a \in Plain /\ ReadsIntOrOid(a) /\ IntOrOidRead(a) = v.id
  BY <1>1, IdWritten, Depths
<1>3. b \in Plain /\ ReadsText(b) /\ b.text = v.text
  BY <1>1, Depths DEF TextItem, Leaf, ReadsText
<1>4. IdTextItems(v) = <<a, b>>
  BY DEF IdTextItems
<1>. HIDE DEF a, b
<1>. QED
  BY <1>1, <1>2, <1>3, <1>4 DEF ReadsIdText, IdTextRead

\* One description or qualifier is written again as it was read.
LEMMA IdTextTaken ==
  ASSUME NEW S, S \subseteq Plain \cup ArrayOf(S), NEW pair \in S \X S, ReadsIdText(pair)
  PROVE  IdTextRead(pair) \in IdText /\ IdTextItems(IdTextRead(pair)) = pair
<1>. DEFINE a == pair[1]
            b == pair[2]
<1>1. a \in Plain \cup ArrayOf(S) /\ b \in Plain \cup ArrayOf(S) /\ pair = <<a, b>>
  OBVIOUS
<1>2. /\ ReadsIntOrOid(a) /\ ReadsText(b)
      /\ IdTextRead(pair) = [id |-> IntOrOidRead(a), text |-> b.text]
  BY DEF ReadsIdText, IdTextRead
<1>. HIDE DEF a, b
<1>3. IntOrOidRead(a) \in IntOrOid /\ IntOrOidItem(IntOrOidRead(a)) = a
  BY <1>1, <1>2, IdTaken
<1>4. b.text \in STRING /\ b = TextItem(b.text)
  BY <1>1, <1>2, ItemShape DEF ReadsText
<1>. QED
  BY <1>1, <1>2, <1>3, <1>4 DEF IdText, IdTextItems

\* decode undoes encode of the list.
LEMMA IdTextsWritten ==
  ASSUME NEW list \in Seq(IdText)
  PROVE  LET item == IdTextsItem(list)
         IN  item \in Item1 /\ ReadsIdTexts(item) /\ IdTextsRead(item) = list
<1>. DEFINE pairs == [i \in DOMAIN list |-> IdTextItems(list[i])]
            item == IdTextsItem(list)
<1>1. DOMAIN list = 1 .. Len(list) /\ Len(list) \in Nat /\ \A i \in DOMAIN list : list[i] \in IdText
  OBVIOUS
<1>2. \A i \in DOMAIN list :
        /\ IdTextItems(list[i]) \in Plain \X Plain
        /\ ReadsIdText(IdTextItems(list[i])) /\ IdTextRead(IdTextItems(list[i])) = list[i]
  BY <1>1, IdTextWritten
<1>3. pairs \in Seq(Plain \X Plain) /\ DOMAIN pairs = DOMAIN list
  BY <1>1, <1>2
<1>4. item = PairsItem(pairs)
  BY DEF IdTextsItem
<1>5. \A i \in DOMAIN list : pairs[i] = IdTextItems(list[i])
  OBVIOUS
<1>. HIDE DEF pairs, item
<1>6. /\ item \in ArrayOf(Plain) /\ IsPairs(item) /\ Pairs(item) = pairs
      /\ \A pair \in PairSet(item) : \E i \in DOMAIN pairs : pair = pairs[i]
  BY <1>3, <1>4, PairsWritten
<1>7. ReadsIdTexts(item)
  BY <1>2, <1>3, <1>5, <1>6 DEF ReadsIdTexts
<1>8. IdTextsRead(item) = [i \in DOMAIN list |-> list[i]]
  BY <1>2, <1>3, <1>5, <1>6 DEF IdTextsRead
<1>9. [i \in DOMAIN list |-> list[i]] = list
  BY <1>1
<1>. QED
  BY <1>6, <1>7, <1>8, <1>9 DEF item, Item1

\* The list is written again as it was read.
LEMMA IdTextsTaken ==
  ASSUME NEW S, S \subseteq Plain \cup ArrayOf(S), NEW item \in Plain \cup ArrayOf(S),
         ReadsIdTexts(item)
  PROVE  LET list == IdTextsRead(item)
         IN  list \in Seq(IdText) /\ IdTextsItem(list) = item
<1>. DEFINE pairs == Pairs(item)
            list == IdTextsRead(item)
<1>1. /\ pairs \in Seq(S \X S) /\ \A i \in DOMAIN pairs : pairs[i] \in PairSet(item)
      /\ PairsItem(pairs) = item
  BY PairsTaken DEF ReadsIdTexts
<1>2. list = [i \in DOMAIN pairs |-> IdTextRead(pairs[i])]
  BY DEF IdTextsRead
<1>3. \A i \in DOMAIN pairs : ReadsIdText(pairs[i]) /\ pairs[i] \in S \X S
  BY <1>1 DEF ReadsIdTexts
<1>. HIDE DEF pairs, list
<1>4. \A i \in DOMAIN pairs :
        IdTextRead(pairs[i]) \in IdText /\ IdTextItems(IdTextRead(pairs[i])) = pairs[i]
  BY <1>3, IdTextTaken
<1>5. DOMAIN pairs = 1 .. Len(pairs) /\ Len(pairs) \in Nat
  BY <1>1
<1>6. list \in Seq(IdText) /\ DOMAIN list = DOMAIN pairs
  BY <1>2, <1>4, <1>5
<1>7. \A i \in DOMAIN pairs : list[i] = IdTextRead(pairs[i])
  BY <1>2
<1>8. [i \in DOMAIN list |-> IdTextItems(list[i])] = [i \in DOMAIN pairs |-> pairs[i]]
  BY <1>4, <1>6, <1>7
<1>9. [i \in DOMAIN pairs |-> pairs[i]] = pairs
  BY <1>1
<1>. QED
  BY <1>1, <1>6, <1>8, <1>9 DEF list, IdTextsItem

-----------------------------------------------------------------------------
(* Certificate policies                                                    *)

\* decode undoes encode of one policy with its qualifiers.
LEMMA PolicyWritten ==
  ASSUME NEW v \in [id : IntOrOid, qualifiers : Seq(IdText)]
  PROVE  LET pair == PolicyItems(v)
         IN  /\ pair \in Item1 \X Item1
             /\ ReadsIntOrOid(pair[1]) /\ ReadsIdTexts(pair[2]) /\ PolicyRead(pair) = v
<1>. DEFINE a == IntOrOidItem(v.id)
            b == IdTextsItem(v.qualifiers)
<1>1. /\ v = [id |-> v.id, qualifiers |-> v.qualifiers]
      /\ v.id \in IntOrOid /\ v.qualifiers \in Seq(IdText)
  OBVIOUS
<1>2. a \in Item1 /\ ReadsIntOrOid(a) /\ IntOrOidRead(a) = v.id
  BY <1>1, IdWritten, Shallow
<1>3. b \in Item1 /\ ReadsIdTexts(b) /\ IdTextsRead(b) = v.qualifiers
  BY <1>1, IdTextsWritten
<1>4. PolicyItems(v) = <<a, b>>
  BY DEF PolicyItems
<1>. HIDE DEF a, b
<1>. QED
  BY <1>1, <1>2, <1>3, <1>4 DEF PolicyRead

\* One policy is written again as it was read.
LEMMA PolicyTaken ==
  ASSUME NEW S, S \subseteq Plain \cup ArrayOf(S), NEW pair \in S \X S,
         ReadsIntOrOid(pair[1]), ReadsIdTexts(pair[2])
  PROVE  /\ PolicyRead(pair) \in [id : IntOrOid, qualifiers : Seq(IdText)]
         /\ PolicyItems(PolicyRead(pair)) = pair
<1>. DEFINE a == pair[1]
            b == pair[2]
<1>1. a \in Plain \cup ArrayOf(S) /\ b \in Plain \cup ArrayOf(S) /\ pair = <<a, b>>
  OBVIOUS
<1>2. PolicyRead(pair) = [id |-> IntOrOidRead(a), qualifiers |-> IdTextsRead(b)]
  BY DEF PolicyRead
<1>3. ReadsIntOrOid(a) /\ ReadsIdTexts(b)
  OBVIOUS
<1>. HIDE DEF a, b
<1>4. IntOrOidRead(a) \in IntOrOid /\ IntOrOidItem(IntOrOidRead(a)) = a
  BY <1>1, <1>3, IdTaken
<1>5. IdTextsRead(b) \in Seq(IdText) /\ IdTextsItem(IdTextsRead(b)) = b
  BY <1>1, <1>3, IdTextsTaken
<1>. QED
  BY <1>1, <1>2, <1>4, <1>5 DEF PolicyItems

\* decode undoes encode of the policies.
LEMMA PoliciesWritten ==
  ASSUME NEW v \in CertificatePolicies
  PROVE  LET item == PoliciesItem(v)
         IN  item \in Item3 /\ ReadsPolicies(item) /\ PoliciesRead(item) = v
<1>. DEFINE pairs == [i \in DOMAIN v |-> PolicyItems(v[i])]
            item == PoliciesItem(v)
            Policy == [id : IntOrOid, qualifiers : Seq(IdText)]
<1>1. v \in Seq(Policy)
  BY DEF CertificatePolicies
<1>. HIDE DEF Policy
<1>2. DOMAIN v = 1 .. Len(v) /\ Len(v) \in Nat /\ \A i \in DOMAIN v : v[i] \in Policy
  BY <1>1
<1>3. \A i \in DOMAIN v :
        /\ PolicyItems(v[i]) \in Item1 \X Item1
        /\ ReadsIntOrOid(PolicyItems(v[i])[1]) /\ ReadsIdTexts(PolicyItems(v[i])[2])
        /\ PolicyRead(PolicyItems(v[i])) = v[i]
  BY <1>2, PolicyWritten DEF Policy
<1>4. pairs \in Seq(Item1 \X Item1) /\ DOMAIN pairs = DOMAIN v
  BY <1>2, <1>3
<1>5. item = PairsItem(pairs)
  BY DEF PoliciesItem
<1>6. \A i \in DOMAIN v : pairs[i] = PolicyItems(v[i])
  OBVIOUS
<1>. HIDE DEF pairs, item
<1>7. /\ item \in ArrayOf(Item1) /\ IsPairs(item) /\ Pairs(item) = pairs
      /\ \A pair \in PairSet(item) : \E i \in DOMAIN pairs : pair = pairs[i]
  BY <1>4, <1>5, PairsWritten
<1>8. ReadsPolicies(item)
  BY <1>3, <1>4, <1>6, <1>7 DEF ReadsPolicies
<1>9. PoliciesRead(item) = [i \in DOMAIN v |-> v[i]]
  BY <1>3, <1>4, <1>6, <1>7 DEF PoliciesRead
<1>10. [i \in DOMAIN v |-> v[i]] = v
  BY <1>1
<1>11. item \in Item3
  BY <1>7, Depths DEF Item2
<1>. QED
  BY <1>8, <1>9, <1>10, <1>11 DEF item

\* The policies are written again as they were read.
LEMMA PoliciesTaken ==
  ASSUME NEW item \in Item3, ReadsPolicies(item)
  PROVE  LET v == PoliciesRead(item)
         IN  v \in CertificatePolicies /\ PoliciesItem(v) = item
<1>. DEFINE pairs == Pairs(item)
            v == PoliciesRead(item)
            Policy == [id : IntOrOid, qualifiers : Seq(IdText)]
<1>1. /\ pairs \in Seq(Item2 \X Item2) /\ \A i \in DOMAIN pairs : pairs[i] \in PairSet(item)
      /\ PairsItem(pairs) = item
  BY PairsTaken, Shallow DEF ReadsPolicies
<1>2. v = [i \in DOMAIN pairs |-> PolicyRead(pairs[i])]
  BY DEF PoliciesRead
<1>3. \A i \in DOMAIN pairs :
        /\ ReadsIntOrOid(pairs[i][1]) /\ ReadsIdTexts(pairs[i][2])
        /\ pairs[i] \in Item2 \X Item2
  BY <1>1 DEF ReadsPolicies
<1>. HIDE DEF pairs, v, Policy
<1>4. \A i \in DOMAIN pairs :
        PolicyRead(pairs[i]) \in Policy /\ PolicyItems(PolicyRead(pairs[i])) = pairs[i]
  BY <1>3, PolicyTaken, Shallow DEF Policy
<1>5. DOMAIN pairs = 1 .. Len(pairs) /\ Len(pairs) \in Nat
  BY <1>1
<1>6. v \in Seq(Policy) /\ DOMAIN v = DOMAIN pairs
  BY <1>2, <1>4, <1>5
<1>7. \A i \in DOMAIN pairs : v[i] = PolicyRead(pairs[i])
  BY <1>2
<1>8. [i \in DOMAIN v |-> PolicyItems(v[i])] = [i \in DOMAIN pairs |-> pairs[i]]
  BY <1>4, <1>6, <1>7
<1>9. [i \in DOMAIN pairs |-> pairs[i]] = pairs
  BY <1>1
<1>. QED
  BY <1>1, <1>6, <1>8, <1>9 DEF v, Policy, CertificatePolicies, PoliciesItem

-----------------------------------------------------------------------------
(* Policy mappings                                                         *)

\* decode undoes encode of the mappings.
LEMMA MappingsWritten ==
  ASSUME NEW v \in Seq(IntOrOid \X IntOrOid)
  PROVE  LET item == MappingsItem(v)
         IN  item \in Item3 /\ ReadsMappings(item) /\ MappingsRead(item) = v
<1>. DEFINE pairs == [i \in DOMAIN v |-> <<IntOrOidItem(v[i][1]), IntOrOidItem(v[i][2])>>]
            item == MappingsItem(v)
<1>1. DOMAIN v = 1 .. Len(v) /\ Len(v) \in Nat /\ \A i \in DOMAIN v : v[i] \in IntOrOid \X IntOrOid
  OBVIOUS
<1>2. \A i \in DOMAIN v :
        /\ v[i] = <<v[i][1], v[i][2]>> /\ v[i][1] \in IntOrOid /\ v[i][2] \in IntOrOid
  BY <1>1
<1>3. \A id \in IntOrOid : /\ IntOrOidItem(id) \in Plain /\ ReadsIntOrOid(IntOrOidItem(id))
                           /\ IntOrOidRead(IntOrOidItem(id)) = id
  BY IdWritten, Depths
<1>4. pairs \in Seq(Plain \X Plain) /\ DOMAIN pairs = DOMAIN v
  <2>1. \A i \in DOMAIN v : <<IntOrOidItem(v[i][1]), IntOrOidItem(v[i][2])>> \in Plain \X Plain
    BY <1>2, <1>3
  <2>. QED
    BY <1>1, <2>1
<1>5. item = PairsItem(pairs)
  BY DEF MappingsItem
<1>6. \A i \in DOMAIN v : /\ pairs[i][1] = IntOrOidItem(v[i][1])
                          /\ pairs[i][2] = IntOrOidItem(v[i][2])
  OBVIOUS
<1>. HIDE DEF pairs, item
<1>7. /\ item \in ArrayOf(Plain) /\ IsPairs(item) /\ Pairs(item) = pairs
      /\ \A pair \in PairSet(item) : \E i \in DOMAIN pairs : pair = pairs[i]
  BY <1>4, <1>5, PairsWritten
<1>8. ReadsMappings(item)
  <2>1. \A i \in DOMAIN pairs : ReadsIntOrOid(pairs[i][1]) /\ ReadsIntOrOid(pairs[i][2])
    BY <1>2, <1>3, <1>4, <1>6
  <2>. QED
    BY <1>7, <2>1 DEF ReadsMappings
<1>9. \A i \in DOMAIN v : <<IntOrOidRead(pairs[i][1]), IntOrOidRead(pairs[i][2])>> = v[i]
  BY <1>2, <1>3, <1>6
<1>10. MappingsRead(item) = [i \in DOMAIN v |-> v[i]]
  BY <1>4, <1>7, <1>9 DEF MappingsRead
<1>11. [i \in DOMAIN v |-> v[i]] = v
  BY <1>1
<1>12. item \in Item3
  BY <1>7, Depths DEF Item1
<1>. QED
  BY <1>8, <1>10, <1>11, <1>12 DEF item

\* The mappings are written again as they were read.
LEMMA MappingsTaken ==
  ASSUME NEW item \in Item3, ReadsMappings(item)
  PROVE  LET v == MappingsRead(item)
         IN  v \in Seq(IntOrOid \X IntOrOid) /\ MappingsItem(v) = item
<1>. DEFINE pairs == Pairs(item)
            v == MappingsRead(item)
<1>1. /\ pairs \in Seq(Item2 \X Item2) /\ \A i \in DOMAIN pairs : pairs[i] \in PairSet(item)
      /\ PairsItem(pairs) = item
  BY PairsTaken, Shallow DEF ReadsMappings
<1>2. v = [i \in DOMAIN pairs |-> <<IntOrOidRead(pairs[i][1]), IntOrOidRead(pairs[i][2])>>]
  BY DEF MappingsRead
<1>3. \A i \in DOMAIN pairs : ReadsIntOrOid(pairs[i][1]) /\ ReadsIntOrOid(pairs[i][2])
  BY <1>1 DEF ReadsMappings
<1>. HIDE DEF pairs, v
<1>4. DOMAIN pairs = 1 .. Len(pairs) /\ Len(pairs) \in Nat
      /\ \A i \in DOMAIN pairs : pairs[i] \in Item2 \X Item2
  BY <1>1
<1>5. \A i \in DOMAIN pairs :
        pairs[i] = <<pairs[i][1], pairs[i][2]>> /\ pairs[i][1] \in Item2 /\ pairs[i][2] \in Item2
  BY <1>4
<1>6. \A x \in Item2 : ReadsIntOrOid(x) =>
        IntOrOidRead(x) \in IntOrOid /\ IntOrOidItem(IntOrOidRead(x)) = x
  BY Shallow, IdTaken
<1>7. \A i \in DOMAIN pairs :
        /\ IntOrOidRead(pairs[i][1]) \in IntOrOid /\ IntOrOidRead(pairs[i][2]) \in IntOrOid
        /\ IntOrOidItem(IntOrOidRead(pairs[i][1])) = pairs[i][1]
        /\ IntOrOidItem(IntOrOidRead(pairs[i][2])) = pairs[i][2]
  BY <1>3, <1>5, <1>6
<1>8. v \in Seq(IntOrOid \X IntOrOid) /\ DOMAIN v = DOMAIN pairs
  BY <1>2, <1>4, <1>7
<1>9. \A i \in DOMAIN pairs : /\ v[i][1] = IntOrOidRead(pairs[i][1])
                              /\ v[i][2] = IntOrOidRead(pairs[i][2])
  BY <1>2
<1>10. [i \in DOMAIN v |-> <<IntOrOidItem(v[i][1]), IntOrOidItem(v[i][2])>>]
         = [i \in DOMAIN pairs |-> pairs[i]]
  BY <1>5, <1>7, <1>8, <1>9
<1>11. [i \in DOMAIN pairs |-> pairs[i]] = pairs
  BY <1>1
<1>. QED
  BY <1>1, <1>8, <1>10, <1>11 DEF v, MappingsItem

-----------------------------------------------------------------------------
(* Extended key usage and TLS features                                     *)

\* What minicbor's Vec takes is a list, and a whole array if it is definite.
LEMMA VecShape ==
  ASSUME NEW S, NEW item \in Plain \cup ArrayOf(S), IsVec(item)
  PROVE  /\ item.items \in Seq(S) /\ IsAnyArray(item)
         /\ \A i \in DOMAIN item.items : item.items[i] \in Elements(item)
         /\ item.type = "array" => item.len = Len(item.items) /\ item = ArrayItem(item.items)
BY ItemShape, WholeShape DEF IsVec, IsWhole, IsAnyArray, Elements

\* decode undoes encode: a single purpose is no array.
LEMMA ExtKeyUsageWritten ==
  ASSUME NEW v \in Seq(IntOrOid)
  PROVE  LET item == ExtKeyUsageItem(v)
         IN  /\ item \in Item3 /\ ReadsExtKeyUsage(item) /\ ExtKeyUsageRead(item) = v
             /\ ~IsLongForm("ExtKeyUsage", item)
<1>1. \A i \in DOMAIN v :
        /\ IntOrOidItem(v[i]) \in Leaf /\ ReadsIntOrOid(IntOrOidItem(v[i]))
        /\ IntOrOidRead(IntOrOidItem(v[i])) = v[i]
        /\ ~IsAnyArray(IntOrOidItem(v[i]))
  <2>1. \A i \in DOMAIN v : v[i] \in IntOrOid
    OBVIOUS
  <2>. QED
    BY <2>1, IdWritten
<1>2. CASE Len(v) = 1
  <2>1. ExtKeyUsageItem(v) = IntOrOidItem(v[1]) /\ 1 \in DOMAIN v /\ v = <<v[1]>>
    BY <1>2 DEF ExtKeyUsageItem
  <2>2. IntOrOidItem(v[1]) \in Item3
    BY <1>1, <2>1, Shallow
  <2>3. ~IsLongForm("ExtKeyUsage", IntOrOidItem(v[1]))
    BY <1>1, <2>1 DEF IsLongForm
  <2>. QED
    BY <1>1, <2>1, <2>2, <2>3 DEF ReadsExtKeyUsage, ExtKeyUsageRead
<1>3. CASE Len(v) # 1
  <2>. DEFINE s == [i \in DOMAIN v |-> IntOrOidItem(v[i])]
              item == ArrayItem(s)
  <2>1. ExtKeyUsageItem(v) = item
    BY <1>3 DEF ExtKeyUsageItem
  <2>2. DOMAIN v = 1 .. Len(v) /\ Len(v) \in Nat
    OBVIOUS
  <2>3. s \in Seq(Item2) /\ Len(s) = Len(v) /\ DOMAIN s = DOMAIN v
    <3>1. \A i \in DOMAIN v : IntOrOidItem(v[i]) \in Item2
      BY <1>1, Shallow
    <3>. QED
      BY <2>2, <3>1
  <2>4. \A i \in DOMAIN v : s[i] = IntOrOidItem(v[i])
    OBVIOUS
  <2>. HIDE DEF s
  <2>5. /\ item \in ArrayOf(Item2) /\ IsWhole(item) /\ item.type = "array" /\ item.len = Len(v)
        /\ item.items = s /\ Elements(item) = {s[i] : i \in DOMAIN s}
    BY <2>3, ListShape
  <2>. HIDE DEF item
  <2>6. IsAnyArray(item) /\ ReadsExtKeyUsage(item)
    BY <1>1, <2>3, <2>4, <2>5 DEF IsAnyArray, ReadsExtKeyUsage, IsVec
  <2>7. ExtKeyUsageRead(item) = [i \in DOMAIN v |-> v[i]]
    BY <1>1, <2>3, <2>4, <2>5, <2>6 DEF ExtKeyUsageRead
  <2>8. [i \in DOMAIN v |-> v[i]] = v
    OBVIOUS
  <2>9. ~IsLongForm("ExtKeyUsage", item)
    BY <1>3, <2>5 DEF IsLongForm
  <2>. QED
    BY <2>1, <2>5, <2>6, <2>7, <2>8, <2>9, Shallow
<1>. QED
  BY <1>2, <1>3

\* The purposes are written again as they were, but for the long forms.
LEMMA ExtKeyUsageTaken ==
  ASSUME NEW item \in Item3, ReadsExtKeyUsage(item)
  PROVE  LET v == ExtKeyUsageRead(item)
         IN  /\ v \in Seq(IntOrOid)
             /\ IsLongForm("ExtKeyUsage", item) \/ ExtKeyUsageItem(v) = item
<1>1. CASE ~IsAnyArray(item)
  <2>1. ExtKeyUsageRead(item) = <<IntOrOidRead(item)>> /\ ReadsIntOrOid(item)
    BY <1>1 DEF ExtKeyUsageRead, ReadsExtKeyUsage
  <2>2. IntOrOidRead(item) \in IntOrOid /\ IntOrOidItem(IntOrOidRead(item)) = item
    BY <2>1, IdTaken, Shallow
  <2>. QED
    BY <2>1, <2>2 DEF ExtKeyUsageItem
<1>2. CASE IsAnyArray(item)
  <2>. DEFINE s == item.items
              v == [i \in DOMAIN s |-> IntOrOidRead(s[i])]
  <2>1. IsVec(item) /\ \A x \in Elements(item) : ReadsIntOrOid(x)
    BY <1>2 DEF ReadsExtKeyUsage
  <2>2. /\ s \in Seq(Item2) /\ \A i \in DOMAIN s : s[i] \in Elements(item)
        /\ item.type = "array" => item.len = Len(s) /\ item = ArrayItem(s)
    BY <2>1, Shallow, VecShape
  <2>3. DOMAIN s = 1 .. Len(s) /\ Len(s) \in Nat /\ \A i \in DOMAIN s : s[i] \in Item2
    BY <2>2
  <2>4. \A i \in DOMAIN s :
          IntOrOidRead(s[i]) \in IntOrOid /\ IntOrOidItem(IntOrOidRead(s[i])) = s[i]
    BY <2>1, <2>2, <2>3, IdTaken, Shallow
  <2>5. ExtKeyUsageRead(item) = v
    BY <1>2 DEF ExtKeyUsageRead
  <2>6. v \in Seq(IntOrOid) /\ Len(v) = Len(s) /\ DOMAIN v = DOMAIN s
    BY <2>3, <2>4
  <2>7. ASSUME ~IsLongForm("ExtKeyUsage", item)
        PROVE  ExtKeyUsageItem(v) = item
    <3>1. item.type = "array" /\ item.len # 1
      BY <1>2, <2>7 DEF IsLongForm
    <3>2. \A i \in DOMAIN s : v[i] = IntOrOidRead(s[i])
      OBVIOUS
    <3>. HIDE DEF v, s
    <3>3. [i \in DOMAIN v |-> IntOrOidItem(v[i])] = [i \in DOMAIN s |-> s[i]]
      BY <2>4, <2>6, <3>2
    <3>4. [i \in DOMAIN s |-> s[i]] = s
      BY <2>2
    <3>. QED
      BY <2>2, <2>6, <3>1, <3>3, <3>4 DEF ExtKeyUsageItem
  <2>. HIDE DEF v
  <2>. QED
    BY <2>5, <2>6, <2>7
<1>. QED
  BY <1>1, <1>2

\* decode undoes encode of the features.
LEMMA TlsFeaturesWritten ==
  ASSUME NEW v \in Seq(U32)
  PROVE  LET item == TlsFeaturesItem(v)
         IN  /\ item \in Item3 /\ ReadsTlsFeatures(item) /\ TlsFeaturesRead(item) = v
             /\ ~IsLongForm("TlsFeatures", item)
<1>. DEFINE s == [i \in DOMAIN v |-> IntItem(v[i])]
            item == ArrayItem(s)
<1>1. \A i \in DOMAIN v : v[i] \in U32 /\ v[i] \in Int
  BY IntAssumption DEF U32
<1>2. DOMAIN v = 1 .. Len(v) /\ Len(v) \in Nat
  OBVIOUS
<1>3. \A n \in Int : IntItem(n) \in Item2 /\ IsInt(IntItem(n)) /\ IntItem(n).int = n
  BY Shallow DEF IntItem, Leaf, IsInt
<1>4. s \in Seq(Item2) /\ Len(s) = Len(v) /\ DOMAIN s = DOMAIN v
  <2>1. \A i \in DOMAIN v : IntItem(v[i]) \in Item2
    BY <1>1, <1>3
  <2>. QED
    BY <1>2, <2>1
<1>5. \A i \in DOMAIN v : s[i] = IntItem(v[i])
  OBVIOUS
<1>6. TlsFeaturesItem(v) = item
  BY DEF TlsFeaturesItem
<1>. HIDE DEF s
<1>7. /\ item \in ArrayOf(Item2) /\ IsWhole(item) /\ item.type = "array"
      /\ item.items = s /\ Elements(item) = {s[i] : i \in DOMAIN s}
  BY <1>4, ListShape
<1>. HIDE DEF item
<1>8. ReadsTlsFeatures(item)
  BY <1>1, <1>3, <1>4, <1>5, <1>7 DEF ReadsTlsFeatures, IsVec, ReadsU32
<1>9. TlsFeaturesRead(item) = [i \in DOMAIN v |-> v[i]]
  BY <1>1, <1>3, <1>4, <1>5, <1>7 DEF TlsFeaturesRead
<1>10. [i \in DOMAIN v |-> v[i]] = v
  OBVIOUS
<1>11. ~IsLongForm("TlsFeatures", item)
  BY <1>7 DEF IsLongForm
<1>. QED
  BY <1>6, <1>7, <1>8, <1>9, <1>10, <1>11, Shallow

\* The features are written again as they were, but for an indefinite array.
LEMMA TlsFeaturesTaken ==
  ASSUME NEW item \in Item3, ReadsTlsFeatures(item)
  PROVE  LET v == TlsFeaturesRead(item)
         IN  /\ v \in Seq(U32)
             /\ IsLongForm("TlsFeatures", item) \/ TlsFeaturesItem(v) = item
<1>. DEFINE s == item.items
            v == [i \in DOMAIN s |-> s[i].int]
<1>1. IsVec(item) /\ \A x \in Elements(item) : ReadsU32(x)
  BY DEF ReadsTlsFeatures
<1>2. /\ s \in Seq(Item2) /\ \A i \in DOMAIN s : s[i] \in Elements(item)
      /\ item.type = "array" => item = ArrayItem(s)
      /\ item.type \in {"array", "array_indef"}
  BY <1>1, Shallow, VecShape DEF IsAnyArray
<1>3. DOMAIN s = 1 .. Len(s) /\ Len(s) \in Nat /\ \A i \in DOMAIN s : s[i] \in Item2
  BY <1>2
<1>4. \A i \in DOMAIN s : s[i].int \in U32 /\ s[i] = IntItem(s[i].int)
  BY <1>1, <1>2, <1>3, Shallow, ItemShape DEF ReadsU32, IsInt
<1>5. TlsFeaturesRead(item) = v
  BY DEF TlsFeaturesRead
<1>6. v \in Seq(U32) /\ DOMAIN v = DOMAIN s
  BY <1>3, <1>4
<1>7. ASSUME ~IsLongForm("TlsFeatures", item)
      PROVE  TlsFeaturesItem(v) = item
  <2>1. item = ArrayItem(s)
    BY <1>2, <1>7 DEF IsLongForm
  <2>2. \A i \in DOMAIN s : v[i] = s[i].int
    OBVIOUS
  <2>. HIDE DEF v, s
  <2>3. [i \in DOMAIN v |-> IntItem(v[i])] = [i \in DOMAIN s |-> s[i]]
    BY <1>4, <1>6, <2>2
  <2>4. [i \in DOMAIN s |-> s[i]] = s
    BY <1>2
  <2>. QED
    BY <2>1, <2>3, <2>4 DEF TlsFeaturesItem
<1>. HIDE DEF v
<1>. QED
  BY <1>5, <1>6, <1>7

-----------------------------------------------------------------------------
(* Subject directory attributes                                            *)

\* Only arrays and opaque items are no leaves.
LEMMA LeafByType ==
  ASSUME NEW S, NEW item \in Plain \cup ArrayOf(S), item.type \in {"int", "bytes", "text", "tag"}
  PROVE  item \in Leaf
<1>1. CASE item.type = "int"
  BY <1>1, ItemShape DEF Leaf, IntItem
<1>2. CASE item.type = "bytes"
  BY <1>2, ItemShape DEF Leaf, BytesItem
<1>3. CASE item.type = "text"
  BY <1>3, ItemShape DEF Leaf, TextItem
<1>4. CASE item.type = "tag"
  BY <1>4, ItemShape DEF Leaf, TagItem
<1>. QED
  BY <1>1, <1>2, <1>3, <1>4

\* decode undoes encode of the values of an attribute, of either kind.
LEMMA ValuesWritten ==
  ASSUME NEW ofOid \in BOOLEAN,
         NEW values \in IF ofOid THEN Seq(Seq(Octet)) ELSE Seq(SpecialText)
  PROVE  LET item == ValuesItem(values, ofOid)
         IN  /\ item \in Item1 /\ ReadsValues(item, ofOid)
             /\ ValuesRead(item, ofOid) = values
<1>. DEFINE F(x) == IF ofOid THEN BytesItem(x) ELSE SpecialTextItem(x)
            G(x) == IF ofOid THEN x.bytes ELSE SpecialTextRead(x)
            s == [i \in DOMAIN values |-> F(values[i])]
            item == ArrayItem(s)
<1>1. /\ DOMAIN values = 1 .. Len(values) /\ Len(values) \in Nat
      /\ [i \in DOMAIN values |-> values[i]] = values
  <2>1. CASE ofOid
    BY <2>1
  <2>2. CASE ~ofOid
    BY <2>2
  <2>. QED
    BY <2>1, <2>2
<1>2. \A i \in DOMAIN values :
        /\ F(values[i]) \in Plain /\ G(F(values[i])) = values[i]
        /\ IF ofOid THEN IsBytes(F(values[i])) ELSE ReadsSpecialText(F(values[i]))
  <2>1. CASE ofOid
    <3>1. \A i \in DOMAIN values : values[i] \in Seq(Octet)
      BY <2>1
    <3>2. \A b \in Seq(Octet) : /\ BytesItem(b) \in Plain /\ IsBytes(BytesItem(b))
                              /\ BytesItem(b).bytes = b
      BY BytesTyped, Depths
    <3>. QED
      BY <2>1, <3>1, <3>2
  <2>2. CASE ~ofOid
    <3>1. \A i \in DOMAIN values : values[i] \in SpecialText
      BY <2>2
    <3>2. \A t \in SpecialText : /\ SpecialTextItem(t) \in Plain
                                 /\ ReadsSpecialText(SpecialTextItem(t))
                                 /\ SpecialTextRead(SpecialTextItem(t)) = t
      BY SpecialTextInverse, Depths
    <3>. QED
      BY <2>2, <3>1, <3>2
  <2>. QED
    BY <2>1, <2>2
<1>3. ValuesItem(values, ofOid) = item
  BY DEF ValuesItem
<1>4. \A x : ReadsValues(x, ofOid) <=>
        IsWhole(x) /\ \A y \in Elements(x) : IF ofOid THEN IsBytes(y) ELSE ReadsSpecialText(y)
  BY DEF ReadsValues
<1>5. ValuesRead(item, ofOid) = [i \in DOMAIN item.items |-> G(item.items[i])]
  BY DEF ValuesRead
<1>. HIDE DEF F, G
<1>6. s \in Seq(Plain) /\ DOMAIN s = DOMAIN values
  BY <1>1, <1>2
<1>7. \A i \in DOMAIN values : s[i] = F(values[i])
  OBVIOUS
<1>. HIDE DEF s
<1>8. /\ item \in ArrayOf(Plain) /\ IsWhole(item)
      /\ item.items = s /\ Elements(item) = {s[i] : i \in DOMAIN s}
  BY <1>6, ListShape
<1>. HIDE DEF item
<1>9. ReadsValues(item, ofOid)
  BY <1>2, <1>4, <1>6, <1>7, <1>8
<1>10. ValuesRead(item, ofOid) = values
  BY <1>1, <1>2, <1>5, <1>6, <1>7, <1>8
<1>. QED
  BY <1>3, <1>8, <1>9, <1>10 DEF Item1

\* The values of an attribute are written again as they were read.
LEMMA ValuesTaken ==
  ASSUME NEW S, S \subseteq Plain \cup ArrayOf(S), NEW item \in Plain \cup ArrayOf(S),
         NEW ofOid \in BOOLEAN, ReadsValues(item, ofOid)
  PROVE  LET values == ValuesRead(item, ofOid)
         IN  /\ values \in IF ofOid THEN Seq(Seq(Octet)) ELSE Seq(SpecialText)
             /\ ValuesItem(values, ofOid) = item
<1>. DEFINE F(x) == IF ofOid THEN BytesItem(x) ELSE SpecialTextItem(x)
            G(x) == IF ofOid THEN x.bytes ELSE SpecialTextRead(x)
            s == item.items
            values == [i \in DOMAIN s |-> G(s[i])]
<1>1. IsWhole(item) /\ \A x \in Elements(item) : IF ofOid THEN IsBytes(x) ELSE ReadsSpecialText(x)
  BY DEF ReadsValues
<1>2. /\ s \in Seq(S) /\ item.len = Len(s) /\ item = ArrayItem(s)
      /\ \A i \in 1 .. item.len : s[i] \in S /\ s[i] \in Elements(item)
  BY <1>1, WholeShape
<1>3. DOMAIN s = 1 .. Len(s) /\ Len(s) \in Nat /\ [i \in DOMAIN s |-> s[i]] = s
  BY <1>2
<1>4. \A i \in DOMAIN s :
        /\ s[i] \in Plain \cup ArrayOf(S)
        /\ IF ofOid THEN IsBytes(s[i]) ELSE ReadsSpecialText(s[i])
  BY <1>1, <1>2, <1>3
<1>5. ValuesRead(item, ofOid) = values
  BY DEF ValuesRead
<1>6. ValuesItem(values, ofOid) = ArrayItem([i \in DOMAIN s |-> F(values[i])])
  BY DEF ValuesItem
<1>. HIDE DEF s
<1>7. \A i \in DOMAIN s : F(G(s[i])) = s[i]
  <2>1. CASE ofOid
    BY <1>4, <2>1, ItemShape DEF IsBytes
  <2>2. CASE ~ofOid
    <3>1. \A i \in DOMAIN s : s[i] \in Leaf /\ ReadsSpecialText(s[i])
      BY <1>4, <2>2, LeafByType DEF ReadsSpecialText
    <3>. QED
      BY <2>2, <3>1, SpecialTextReadInverse
  <2>. QED
    BY <2>1, <2>2
<1>8. values \in IF ofOid THEN Seq(Seq(Octet)) ELSE Seq(SpecialText)
  <2>1. CASE ofOid
    <3>1. \A i \in DOMAIN s : G(s[i]) \in Seq(Octet)
      BY <1>4, <2>1, ItemShape DEF IsBytes
    <3>. HIDE DEF G
    <3>. QED
      BY <1>3, <2>1, <3>1
  <2>2. CASE ~ofOid
    <3>1. \A i \in DOMAIN s : s[i] \in Leaf /\ ReadsSpecialText(s[i])
      BY <1>4, <2>2, LeafByType DEF ReadsSpecialText
    <3>2. \A i \in DOMAIN s : G(s[i]) \in SpecialText
      BY <2>2, <3>1, SpecialTextReadInverse
    <3>. HIDE DEF G
    <3>. QED
      BY <1>3, <2>2, <3>2
  <2>. QED
    BY <2>1, <2>2
<1>9. \A i \in DOMAIN s : values[i] = G(s[i])
  OBVIOUS
<1>. HIDE DEF F, G, values
<1>10. [i \in DOMAIN s |-> F(values[i])] = s
  BY <1>3, <1>7, <1>9
<1>. QED
  BY <1>2, <1>5, <1>6, <1>8, <1>10

\* An attribute comes back, but for the string type of type 0.
LEMMA AttributeWritten ==
  ASSUME NEW attr \in RdnAttributes
  PROVE  LET pair == AttributeItems(attr)
         IN  /\ pair \in Item1 \X Item1 /\ ReadsAttribute(pair)
             /\ AttributeRead(pair) = UnsignedAttr(attr)
<1>. DEFINE a == TypeItem(attr)
            b == ValuesItem(attr.value, attr.form = "oid")
            v == attr.value
<1>1. AttributeItems(attr) = <<a, b>>
  BY DEF AttributeItems
<1>2. CASE attr.form = "registered"
  <2>1. /\ attr = Registered(attr.id, attr.printable, v)
        /\ attr.id \in 0 .. U16Max /\ attr.printable \in BOOLEAN /\ v \in Seq(SpecialText)
    BY <1>2 DEF RdnAttributes, RdnAttr, Registered
  <2>2. /\ a \in Leaf /\ IsInt(a) /\ ReadsRegisteredType(a)
        /\ RegisteredRead(a, v) = UnsignedAttr(attr)
    BY <2>1, RegisteredTypeInverse
  <2>3. b = ValuesItem(v, FALSE)
    <3>1. (attr.form = "oid") = FALSE
      BY <1>2
    <3>. QED
      BY <3>1
  <2>4. b \in Item1 /\ ReadsValues(b, FALSE) /\ ValuesRead(b, FALSE) = v
    BY <2>1, <2>3, ValuesWritten
  <2>5. IsBytes(a) = FALSE
    BY <2>2 DEF IsBytes, IsInt
  <2>. HIDE DEF a, b, v
  <2>6. ReadsAttribute(<<a, b>>)
    BY <2>2, <2>4, <2>5 DEF ReadsAttribute
  <2>7. AttributeRead(<<a, b>>) = UnsignedAttr(attr)
    BY <2>2, <2>4, <2>5 DEF AttributeRead
  <2>. QED
    BY <1>1, <2>2, <2>4, <2>6, <2>7, Shallow
<1>3. CASE attr.form = "oid"
  <2>1. /\ attr = OfOid(attr.oid, v) /\ attr.oid \in Oids /\ attr.oid \in Seq(Octet)
        /\ v \in Seq(Seq(Octet))
    BY <1>3, OidsAssumption DEF RdnAttributes, RdnAttr, OfOid
  <2>2. a = BytesItem(attr.oid)
    BY <1>3 DEF TypeItem
  <2>3. a \in Leaf /\ IsBytes(a) = TRUE /\ a.bytes = attr.oid /\ ReadsOid(a)
    BY <2>1, <2>2, BytesTyped DEF ReadsOid
  <2>4. b = ValuesItem(v, TRUE)
    <3>1. (attr.form = "oid") = TRUE
      BY <1>3
    <3>. QED
      BY <3>1
  <2>5. b \in Item1 /\ ReadsValues(b, TRUE) /\ ValuesRead(b, TRUE) = v
    BY <2>1, <2>4, ValuesWritten
  <2>6. UnsignedAttr(attr) = attr
    BY <1>3 DEF UnsignedAttr
  <2>. HIDE DEF a, b, v
  <2>7. ReadsAttribute(<<a, b>>)
    BY <2>3, <2>5 DEF ReadsAttribute
  <2>8. AttributeRead(<<a, b>>) = attr
    BY <2>1, <2>3, <2>5 DEF AttributeRead
  <2>. QED
    BY <1>1, <2>3, <2>5, <2>6, <2>7, <2>8, Shallow
<1>. QED
  BY <1>2, <1>3 DEF RdnAttributes, RdnAttr

\* An attribute is written again as it was read: its type has a sign or is no
\* PrintableString.
LEMMA AttributeTaken ==
  ASSUME NEW S, S \subseteq Plain \cup ArrayOf(S), NEW pair \in S \X S, ReadsAttribute(pair)
  PROVE  LET attr == AttributeRead(pair)
         IN  /\ attr \in RdnAttributes /\ UnsignedAttr(attr) = attr
             /\ AttributeItems(attr) = pair
<1>. DEFINE a == pair[1]
            b == pair[2]
            v == ValuesRead(b, IsBytes(a))
<1>1. a \in Plain \cup ArrayOf(S) /\ b \in Plain \cup ArrayOf(S) /\ pair = <<a, b>>
  OBVIOUS
<1>2. ReadsValues(b, IsBytes(a))
  BY DEF ReadsAttribute
<1>3. CASE IsBytes(a)
  <2>1. IsBytes(a) = TRUE
    BY <1>3
  <2>2. AttributeRead(pair) = OfOid(a.bytes, v) /\ ReadsOid(a)
    BY <1>3 DEF AttributeRead, ReadsAttribute
  <2>3. v \in Seq(Seq(Octet)) /\ ValuesItem(v, TRUE) = b
    BY <1>1, <1>2, <2>1, ValuesTaken
  <2>4. a.bytes \in Oids /\ a = BytesItem(a.bytes)
    BY <1>1, <1>3, <2>2, ItemShape DEF ReadsOid, IsBytes
  <2>. DEFINE attr == OfOid(a.bytes, v)
  <2>. HIDE DEF a, b, v
  <2>5. attr \in RdnAttributes /\ attr.form = "oid" /\ attr.value = v /\ attr.oid = a.bytes
    BY <2>3, <2>4 DEF OfOid, RdnAttributes, RdnAttr
  <2>6. (attr.form = "oid") = TRUE
    BY <2>5
  <2>. HIDE DEF attr
  <2>7. UnsignedAttr(attr) = attr /\ TypeItem(attr) = a
    BY <2>4, <2>5 DEF UnsignedAttr, TypeItem
  <2>8. AttributeItems(attr) = pair
    BY <1>1, <2>3, <2>5, <2>6, <2>7 DEF AttributeItems
  <2>. QED
    BY <2>2, <2>5, <2>7, <2>8 DEF attr
<1>4. CASE ~IsBytes(a)
  <2>1. IsBytes(a) = FALSE
    BY <1>4
  <2>2. AttributeRead(pair) = RegisteredRead(a, v) /\ ReadsRegisteredType(a)
    BY <1>4 DEF AttributeRead, ReadsAttribute
  <2>3. v \in Seq(SpecialText) /\ ValuesItem(v, FALSE) = b
    BY <1>1, <1>2, <2>1, ValuesTaken
  <2>4. a \in Leaf
    BY <1>1, <2>2, LeafByType DEF ReadsRegisteredType, IsInt
  <2>. DEFINE attr == RegisteredRead(a, v)
  <2>. HIDE DEF a, b, v
  <2>5. /\ attr = Registered(Magnitude(a.int), a.int < 0, v)
        /\ Magnitude(a.int) \in 0 .. U16Max /\ (a.int < 0) \in BOOLEAN
        /\ TypeItem(attr) = a
        /\ UnsignedAttr(attr) = attr
    BY <2>2, <2>4, RegisteredReadInverse
  <2>. HIDE DEF attr
  <2>6. attr \in RdnAttributes /\ attr.form = "registered" /\ attr.value = v
    BY <2>3, <2>5 DEF Registered, RdnAttributes, RdnAttr
  <2>7. (attr.form = "oid") = FALSE
    BY <2>6
  <2>8. AttributeItems(attr) = pair
    BY <1>1, <2>3, <2>5, <2>6, <2>7 DEF AttributeItems
  <2>. QED
    BY <2>2, <2>5, <2>6, <2>8 DEF attr
<1>. QED
  BY <1>3, <1>4

\* decode undoes encode of the attributes but for the sign of type 0.
LEMMA AttributesWritten ==
  ASSUME NEW v \in Seq(RdnAttributes)
  PROVE  LET item == AttributesItem(v)
         IN  /\ item \in Item3
             /\ (\A i \in DOMAIN v : UnsignedAttr(v[i]) = v[i]) =>
                  ReadsAttributes(item) /\ AttributesRead(item) = v
<1>. DEFINE pairs == [i \in DOMAIN v |-> AttributeItems(v[i])]
            item == AttributesItem(v)
<1>1. DOMAIN v = 1 .. Len(v) /\ Len(v) \in Nat /\ \A i \in DOMAIN v : v[i] \in RdnAttributes
  OBVIOUS
<1>2. \A i \in DOMAIN v :
        /\ AttributeItems(v[i]) \in Item1 \X Item1
        /\ ReadsAttribute(AttributeItems(v[i]))
        /\ AttributeRead(AttributeItems(v[i])) = UnsignedAttr(v[i])
  BY <1>1, AttributeWritten
<1>3. pairs \in Seq(Item1 \X Item1) /\ DOMAIN pairs = DOMAIN v
  BY <1>1, <1>2
<1>4. item = PairsItem(pairs)
  BY DEF AttributesItem
<1>5. \A i \in DOMAIN v : pairs[i] = AttributeItems(v[i])
  OBVIOUS
<1>. HIDE DEF pairs, item
<1>6. /\ item \in ArrayOf(Item1) /\ IsPairs(item) /\ Pairs(item) = pairs
      /\ \A pair \in PairSet(item) : \E i \in DOMAIN pairs : pair = pairs[i]
  BY <1>3, <1>4, PairsWritten
<1>7. ReadsAttributes(item)
  BY <1>2, <1>3, <1>5, <1>6 DEF ReadsAttributes
<1>8. ASSUME \A i \in DOMAIN v : UnsignedAttr(v[i]) = v[i]
      PROVE  AttributesRead(item) = v
  <2>1. AttributesRead(item) = [i \in DOMAIN v |-> v[i]]
    BY <1>2, <1>3, <1>5, <1>6, <1>8 DEF AttributesRead
  <2>2. [i \in DOMAIN v |-> v[i]] = v
    BY <1>1
  <2>. QED
    BY <2>1, <2>2
<1>9. item \in Item3
  BY <1>6, Depths DEF Item2
<1>. QED
  BY <1>7, <1>8, <1>9 DEF item

\* The attributes are written again as they were read.
LEMMA AttributesTaken ==
  ASSUME NEW item \in Item3, ReadsAttributes(item)
  PROVE  LET v == AttributesRead(item)
         IN  /\ v \in Seq(RdnAttributes) /\ \A i \in DOMAIN v : UnsignedAttr(v[i]) = v[i]
             /\ AttributesItem(v) = item
<1>. DEFINE pairs == Pairs(item)
            v == AttributesRead(item)
<1>1. /\ pairs \in Seq(Item2 \X Item2) /\ \A i \in DOMAIN pairs : pairs[i] \in PairSet(item)
      /\ PairsItem(pairs) = item
  BY PairsTaken, Shallow DEF ReadsAttributes
<1>2. v = [i \in DOMAIN pairs |-> AttributeRead(pairs[i])]
  BY DEF AttributesRead
<1>3. \A i \in DOMAIN pairs : ReadsAttribute(pairs[i]) /\ pairs[i] \in Item2 \X Item2
  BY <1>1 DEF ReadsAttributes
<1>. HIDE DEF pairs, v
<1>4. \A i \in DOMAIN pairs :
        /\ AttributeRead(pairs[i]) \in RdnAttributes
        /\ UnsignedAttr(AttributeRead(pairs[i])) = AttributeRead(pairs[i])
        /\ AttributeItems(AttributeRead(pairs[i])) = pairs[i]
  BY <1>3, AttributeTaken, Shallow
<1>5. DOMAIN pairs = 1 .. Len(pairs) /\ Len(pairs) \in Nat
  BY <1>1
<1>6. v \in Seq(RdnAttributes) /\ DOMAIN v = DOMAIN pairs
  BY <1>2, <1>4, <1>5
<1>7. \A i \in DOMAIN pairs : v[i] = AttributeRead(pairs[i])
  BY <1>2
<1>8. [i \in DOMAIN v |-> AttributeItems(v[i])] = [i \in DOMAIN pairs |-> pairs[i]]
  BY <1>4, <1>6, <1>7
<1>9. [i \in DOMAIN pairs |-> pairs[i]] = pairs
  BY <1>1
<1>10. \A i \in DOMAIN v : UnsignedAttr(v[i]) = v[i]
  BY <1>4, <1>6, <1>7
<1>. QED
  BY <1>1, <1>6, <1>8, <1>9, <1>10 DEF v, AttributesItem

-----------------------------------------------------------------------------
(* All codecs                                                              *)

\* Whatever can be written is an item, and a representable value is read from
\* it as it was.
LEMMA Lossless ==
  ASSUME NEW c \in Codecs, NEW v \in TypeOf(c), CanWrite(c, v)
  PROVE  /\ ItemOf(c, v) \in ItemsOf(c)
         /\ Representable(c, v) => Accepts(c, ItemOf(c, v)) /\ Read(c, ItemOf(c, v)) = v
<1>1. CASE c = "BasicConstraints"
  BY <1>1, BasicConstraintsWritten
     DEF TypeOf, ItemOf, ItemsOf, Accepts, Read, Representable
<1>2. CASE c = "SubjectAltName"
  BY <1>2, AltNameWritten
     DEF TypeOf, ItemOf, ItemsOf, Accepts, Read, Representable
<1>3. CASE c = "AuthorityKeyIdentifier"
  BY <1>3, AuthorityKeyIdentifierWritten
     DEF TypeOf, ItemOf, ItemsOf, Accepts, Read, Representable
<1>4. CASE c = "NameConstraints"
  BY <1>4, NameConstraintsWritten
     DEF TypeOf, ItemOf, ItemsOf, Accepts, Read, Representable
<1>5. CASE c = "CrlDistributionPoints"
  BY <1>5, PointsWritten
     DEF TypeOf, ItemOf, ItemsOf, Accepts, Read, Representable
<1>6. CASE c = "AuthorityInfoAccess"
  BY <1>6, IdTextsWritten, Depths
     DEF TypeOf, ItemOf, ItemsOf, Accepts, Read, Representable
<1>7. CASE c = "CertificatePolicies"
  BY <1>7, PoliciesWritten
     DEF TypeOf, ItemOf, ItemsOf, Accepts, Read, Representable
<1>8. CASE c = "PolicyMappings"
  BY <1>8, MappingsWritten
     DEF TypeOf, ItemOf, ItemsOf, Accepts, Read, Representable
<1>9. CASE c = "PolicyConstraints"
  BY <1>9, PolicyConstraintsWritten
     DEF TypeOf, ItemOf, ItemsOf, Accepts, Read, Representable
<1>10. CASE c = "ExtKeyUsage"
  BY <1>10, ExtKeyUsageWritten
     DEF TypeOf, ItemOf, ItemsOf, Accepts, Read, Representable
<1>11. CASE c = "TlsFeatures"
  BY <1>11, TlsFeaturesWritten
     DEF TypeOf, ItemOf, ItemsOf, Accepts, Read, Representable
<1>12. CASE c = "SubjectDirectoryAttributes"
  BY <1>12, AttributesWritten
     DEF TypeOf, ItemOf, ItemsOf, Accepts, Read, Representable
<1>. QED
  BY <1>1, <1>2, <1>3, <1>4, <1>5, <1>6, <1>7, <1>8, <1>9, <1>10, <1>11, <1>12 DEF Codecs

\* Whatever is read is a representable value, is written as it was read or
\* came in a long form, and is in a short form from then on.
LEMMA Stable ==
  ASSUME NEW c \in Codecs, NEW item \in ItemsOf(c), Accepts(c, item)
  PROVE  LET v == Read(c, item)
         IN  /\ v \in TypeOf(c) /\ Representable(c, v)
             /\ IsLongForm(c, item) \/ ItemOf(c, v) = item
             /\ ~IsLongForm(c, ItemOf(c, v))
<1>1. CASE c = "BasicConstraints"
  BY <1>1, BasicConstraintsTaken
     DEF TypeOf, ItemOf, ItemsOf, Accepts, Read, Representable, IsLongForm
<1>2. CASE c = "SubjectAltName"
  BY <1>2, AltNameTaken
     DEF TypeOf, ItemOf, ItemsOf, Accepts, Read, Representable, CanWrite
<1>3. CASE c = "AuthorityKeyIdentifier"
  BY <1>3, AuthorityKeyIdentifierTaken
     DEF TypeOf, ItemOf, ItemsOf, Accepts, Read, Representable
<1>4. CASE c = "NameConstraints"
  BY <1>4, NameConstraintsTaken
     DEF TypeOf, ItemOf, ItemsOf, Accepts, Read, Representable, CanWrite, IsLongForm
<1>5. CASE c = "CrlDistributionPoints"
  BY <1>5, PointsTaken, PointsWritten
     DEF TypeOf, ItemOf, ItemsOf, Accepts, Read, Representable, CanWrite
<1>6. CASE c = "AuthorityInfoAccess"
  BY <1>6, IdTextsTaken, Shallow
     DEF TypeOf, ItemOf, ItemsOf, Accepts, Read, Representable, CanWrite, IsLongForm
<1>7. CASE c = "CertificatePolicies"
  BY <1>7, PoliciesTaken
     DEF TypeOf, ItemOf, ItemsOf, Accepts, Read, Representable, CanWrite, IsLongForm
<1>8. CASE c = "PolicyMappings"
  BY <1>8, MappingsTaken
     DEF TypeOf, ItemOf, ItemsOf, Accepts, Read, Representable, CanWrite, IsLongForm
<1>9. CASE c = "PolicyConstraints"
  BY <1>9, PolicyConstraintsTaken
     DEF TypeOf, ItemOf, ItemsOf, Accepts, Read, Representable, CanWrite, IsLongForm
<1>10. CASE c = "ExtKeyUsage"
  BY <1>10, ExtKeyUsageTaken, ExtKeyUsageWritten
     DEF TypeOf, ItemOf, ItemsOf, Accepts, Read, Representable, CanWrite
<1>11. CASE c = "TlsFeatures"
  BY <1>11, TlsFeaturesTaken, TlsFeaturesWritten
     DEF TypeOf, ItemOf, ItemsOf, Accepts, Read, Representable, CanWrite
<1>12. CASE c = "SubjectDirectoryAttributes"
  BY <1>12, AttributesTaken
     DEF TypeOf, ItemOf, ItemsOf, Accepts, Read, Representable, CanWrite, IsLongForm
<1>. QED
  BY <1>1, <1>2, <1>3, <1>4, <1>5, <1>6, <1>7, <1>8, <1>9, <1>10, <1>11, <1>12 DEF Codecs

-----------------------------------------------------------------------------
(* The session                                                             *)

\* What the value and the item have to do with each other: before an encoding
\* the value was read from the item, if there is one, and before a decoding
\* the item was written from the value, if there is one.
Paired ==
  /\ pc = "encode" =>
       /\ value # NoValue
       /\ wire # NoWire => Accepts(codec, wire) /\ value.v = Read(codec, wire)
  /\ pc = "decode" =>
       /\ wire # NoWire
       /\ value # NoValue => CanWrite(codec, value.v) /\ wire = ItemOf(codec, value.v)

IInv == TypeOK /\ Paired

\* The place of an item that is not there is no item.
LEMMA NoItem == \A c \in Codecs : NoWire \notin ItemsOf(c)
<1>1. \A item \in Item3 \cup Item4 : item.type # "none"
  BY Shallow, ItemShape
<1>. QED
  BY <1>1 DEF NoWire, ItemsOf

\* A value under its codec is a value, and is there.
LEMMA ValueFacts ==
  ASSUME NEW c, NEW S
  PROVE  \A held \in [codec : {c}, v : S] :
           held # NoValue /\ held.v \in S /\ held = [codec |-> c, v |-> held.v]
BY DEF NoValue

\* A session starts with a value or with an item, never with both.
LEMMA InitInv == Init => IInv
<1>. SUFFICES ASSUME Init PROVE IInv
  OBVIOUS
<1>1. CASE pc = "encode" /\ value \in Callers /\ wire = NoWire /\ codec = value.codec
  <2>1. codec \in Codecs /\ value \in [codec : {codec}, v : TypeOf(codec)]
    BY <1>1, CallersAssumption
  <2>. QED
    BY <1>1, <2>1, ValueFacts DEF IInv, TypeOK, Paired
<1>2. ASSUME NEW received \in Foreign,
             pc = "decode", value = NoValue, wire = received.item, codec = received.codec
      PROVE  IInv
  <2>1. codec \in Codecs /\ wire \in ItemsOf(codec)
    BY <1>2, ForeignAssumption
  <2>. QED
    BY <1>2, <2>1, NoItem DEF IInv, TypeOK, Paired
<1>. QED
  BY <1>1, <1>2 DEF Init

\* Before an encoding that succeeds there is a value; it is kept, and the item
\* is the one it came from, or replaces its long form.
LEMMA EncodeStep ==
  ASSUME IInv, Encode
  PROVE  /\ IInv' /\ value # NoValue /\ value' = value /\ codec' = codec /\ pc' = "decode"
         /\ wire # NoWire /\ wire' # wire =>
              IsLongForm(codec, wire) /\ ~IsLongForm(codec, wire')
<1>1. /\ pc = "encode" /\ CanWrite(codec, value.v) /\ wire' = ItemOf(codec, value.v)
      /\ pc' = "decode" /\ codec' = codec /\ value' = value
  BY DEF Encode
<1>2. /\ codec \in Codecs /\ value # NoValue /\ value \in [codec : {codec}, v : TypeOf(codec)]
      /\ wire \in ItemsOf(codec) \cup {NoWire}
      /\ wire # NoWire => Accepts(codec, wire) /\ value.v = Read(codec, wire)
  BY <1>1 DEF IInv, TypeOK, Paired
<1>3. value.v \in TypeOf(codec)
  BY <1>2, ValueFacts
<1>4. ItemOf(codec, value.v) \in ItemsOf(codec) /\ ItemOf(codec, value.v) # NoWire
  BY <1>1, <1>2, <1>3, Lossless, NoItem
<1>5. IInv'
  BY <1>1, <1>2, <1>4 DEF IInv, TypeOK, Paired
<1>6. ASSUME wire # NoWire, wire' # wire
      PROVE  IsLongForm(codec, wire) /\ ~IsLongForm(codec, wire')
  BY <1>1, <1>2, <1>6, Stable
<1>. QED
  BY <1>1, <1>2, <1>5, <1>6

\* A decoding that succeeds gives a representable value, the same as before if
\* the value before was representable.
LEMMA DecodeStep ==
  ASSUME IInv, Decode
  PROVE  /\ IInv' /\ codec' = codec /\ wire' = wire /\ pc' = "encode"
         /\ Representable(codec, value'.v)
         /\ value # NoValue /\ Representable(codec, value.v) => value' = value
<1>. DEFINE v == Read(codec, wire)
            held == [codec |-> codec, v |-> v]
<1>1. /\ pc = "decode" /\ Accepts(codec, wire) /\ value' = held
      /\ pc' = "encode" /\ codec' = codec /\ wire' = wire
  BY DEF Decode
<1>2. /\ codec \in Codecs /\ wire \in ItemsOf(codec) /\ wire # NoWire
      /\ value \in [codec : {codec}, v : TypeOf(codec)] \cup {NoValue}
      /\ value # NoValue => CanWrite(codec, value.v) /\ wire = ItemOf(codec, value.v)
  BY <1>1 DEF IInv, TypeOK, Paired
<1>3. v \in TypeOf(codec) /\ Representable(codec, v)
  BY <1>1, <1>2, Stable
<1>4. held \in [codec : {codec}, v : TypeOf(codec)] /\ held.v = v /\ held # NoValue
  BY <1>3, ValueFacts
<1>5. IInv'
  <2>. HIDE DEF held
  <2>. QED
    BY <1>1, <1>2, <1>4 DEF IInv, TypeOK, Paired
<1>6. ASSUME value # NoValue, Representable(codec, value.v)
      PROVE  value' = value
  <2>1. value.v \in TypeOf(codec) /\ value = [codec |-> codec, v |-> value.v]
    BY <1>2, <1>6, ValueFacts
  <2>2. v = value.v
    BY <1>2, <1>6, <2>1, Lossless
  <2>. QED
    BY <1>1, <2>1, <2>2
<1>. QED
  BY <1>1, <1>3, <1>4, <1>5, <1>6

\* A call fails only on what is not representable.
LEMMA FailStep ==
  ASSUME IInv, EncodePanic \/ DecodeRefuse
  PROVE  /\ IInv' /\ codec' = codec /\ value' = value /\ wire' = wire
         /\ ~(value # NoValue /\ Representable(codec, value.v))
<1>1. /\ pc' \in {"panicked", "refused"} /\ codec' = codec /\ value' = value /\ wire' = wire
  BY DEF EncodePanic, DecodeRefuse
<1>2. IInv'
  BY <1>1 DEF IInv, TypeOK, Paired
<1>3. ASSUME value # NoValue, Representable(codec, value.v)
      PROVE  FALSE
  <2>1. CASE EncodePanic
    BY <1>3, <2>1 DEF EncodePanic, Representable
  <2>2. CASE DecodeRefuse
    <3>1. codec \in Codecs /\ value.v \in TypeOf(codec)
      BY <1>3, ValueFacts DEF IInv, TypeOK
    <3>2. pc = "decode" /\ CanWrite(codec, value.v) /\ wire = ItemOf(codec, value.v)
      BY <1>3, <2>2 DEF IInv, Paired, DecodeRefuse
    <3>3. Accepts(codec, wire)
      BY <1>3, <3>1, <3>2, Lossless
    <3>. QED
      BY <2>2, <3>3 DEF DecodeRefuse
  <2>. QED
    BY <2>1, <2>2
<1>. QED
  BY <1>1, <1>2, <1>3

\* Every step keeps the invariant.
LEMMA StepInv == IInv /\ [Next]_vars => IInv'
<1>. SUFFICES ASSUME IInv, [Next]_vars PROVE IInv'
  OBVIOUS
<1>1. CASE UNCHANGED vars
  BY <1>1 DEF vars, IInv, TypeOK, Paired
<1>. QED
  BY <1>1, EncodeStep, DecodeStep, FailStep DEF Next

\* The inductive invariant: value and item are of the codec's types, and each
\* says what the other is.
THEOREM Invariance == Spec => []IInv
BY InitInv, StepInv, PTL DEF Spec

\* Every variable keeps its type: whatever item a peer sends under an id, what
\* its decoder returns is a value of that extension, and what an encoder
\* writes for any value a caller can build is an item.
THEOREM TypeCorrect == Spec => []TypeOK
BY Invariance, PTL DEF IInv

\* A representable value survives any number of encodings and decodings: it
\* never changes, whichever short form is chosen, its item is never refused
\* and encoding it never fails.
THEOREM RepresentableSurvives == Spec => RepresentableIsLossless
<1>1. IInv /\ [Next]_vars =>
        [value # NoValue /\ Representable(codec, value.v)
           => value' = value /\ pc' \notin {"refused", "panicked"}]_vars
  <2>. SUFFICES ASSUME IInv, Next, value # NoValue, Representable(codec, value.v)
                PROVE  value' = value /\ pc' \notin {"refused", "panicked"}
    OBVIOUS
  <2>. QED
    BY EncodeStep, DecodeStep, FailStep DEF Next
<1>. QED
  BY <1>1, Invariance, PTL DEF Spec, RepresentableIsLossless

\* No decoder returns a value that its encoder cannot write or that would be
\* read otherwise when it comes back.
THEOREM ReadIsSound == Spec => ReadIsRepresentable
<1>1. IInv /\ [Next]_vars =>
        [value = NoValue /\ value' # NoValue => Representable(codec, value'.v)]_vars
  <2>. SUFFICES ASSUME IInv, Next, value = NoValue, value' # NoValue
                PROVE  Representable(codec, value'.v)
    OBVIOUS
  <2>. QED
    BY EncodeStep, DecodeStep, FailStep DEF Next
<1>. QED
  BY <1>1, Invariance, PTL DEF Spec, ReadIsRepresentable

\* The bytes under a signature stay the same however often an extension is
\* read and written, but for a long form, which is replaced once.
THEOREM WireIsStable == Spec => WireStable
<1>1. IInv /\ [Next]_vars =>
        [wire # NoWire /\ wire' # wire
           => IsLongForm(codec, wire) /\ ~IsLongForm(codec, wire')]_vars
  <2>. SUFFICES ASSUME IInv, Next, wire # NoWire, wire' # wire
                PROVE  IsLongForm(codec, wire) /\ ~IsLongForm(codec, wire')
    OBVIOUS
  <2>. QED
    BY EncodeStep, DecodeStep, FailStep DEF Next
<1>. QED
  BY <1>1, Invariance, PTL DEF Spec, WireStable
==============================================================================
