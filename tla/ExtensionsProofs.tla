-------------------------- MODULE ExtensionsProofs --------------------------
(***************************************************************************)
(* Proofs about Extensions, for every i32 width, every set of OIDs and of  *)
(* opaque contents, every caller's list and every item a peer sends.       *)
(*                                                                         *)
(* The argument is that of NamesProofs, an item says a list, with two      *)
(* differences.  A list may be such that nothing says it: a value of       *)
(* another variant than its id stands for, or the magnitude that has no    *)
(* i32.  And encoding may stop: what is written so far tells that no       *)
(* extension before it was at fault.                                       *)
(***************************************************************************)
EXTENDS Extensions, CommonProofs

\* The two items of an extension that encodes.
IdItem(ext) == IF ext.id.form = "int" THEN IntItem(Signed(ext.id.int, ext.critical))
                                      ELSE BytesItem(ext.id.oid)
SecondItem(ext) ==
  IF ext.id.form = "int" THEN ItemOf(ext.value)
  ELSE IF ext.critical THEN ArrayItem(<<BytesItem(ext.value.der)>>)
  ELSE BytesItem(ext.value.der)

Pair(elements, k, ext) == /\ elements[2 * k - 1] = IdItem(ext)
                          /\ elements[2 * k] = SecondItem(ext)

SaysList(item, list) ==
  /\ item.type = "array"
  /\ item.len = 2 * Len(list) /\ Len(item.items) = 2 * Len(list)
  /\ \A k \in 1 .. Len(list) : Pair(item.items, k, list[k])

Says(item, list) ==
  \/ /\ IsSingleKeyUsage(list)
     /\ item = IntItem(Signed(list[1].value.uint, list[1].critical))
     /\ IsI32(item)
  \/ SaysList(item, list)

AllConsistent(list) == \A i \in DOMAIN list : Consistent(list[i])

EncodesOne(ext) ==
  IF ext.id.form = "int" THEN HasSigned(ext.id.int, ext.critical) /\ ValueEncodes(ext.value)
                         ELSE ext.value.kind = "Raw"

UnsignedExt(ext) == IF ext.id = IntId(0) THEN [ext EXCEPT !.critical = FALSE] ELSE ext

\* What the decoder makes of an extension, whoever wrote it.
ReadAs(ext) ==
  \/ /\ Consistent(ext) /\ ValueEncodes(ext.value)
     /\ ext.id = IntId(0) => ~ext.critical
  \/ ext.id = IntId(I32Min) /\ ext.critical

\* Whether the decoder takes two items as an extension, and as which one.
AcceptsRegistered(one, two) == IsI32(one) /\ ReadsValue(MagnitudeOf(one.int).n, two)
AcceptsByOid(one, two) == /\ IsBytes(one) /\ one.bytes \in Oids
                          /\ IsBytes(two) \/ IsMarkedCritical(two)

RegisteredOf(one, two) ==
  LET m == MagnitudeOf(one.int)
  IN  [id |-> IntId(AsI32(m.n)), critical |-> m.critical, value |-> ValueRead(m.n, two)]
ByOidOf(one, two) ==
  LET critical == IsMarkedCritical(two)
      der      == IF critical THEN two.items[1] ELSE two
  IN  [id |-> OidId(one.bytes), critical |-> critical,
       value |-> [kind |-> "Raw", der |-> der.bytes]]

EncoderInv ==
  pc = "encoding" =>
    /\ ~IsSingleKeyUsage(value.list)
    /\ \E n \in 0 .. Len(value.list) :
         /\ Len(items) = 2 * n
         /\ \A k \in 1 .. n : EncodesOne(value.list[k]) /\ Pair(items, k, value.list[k])

DecoderInv ==
  pc = "decoding" =>
    /\ wire.type = "array" /\ wire.len % 2 = 0
    /\ 2 * Len(exts) <= Len(wire.items)
    /\ \A k \in 1 .. Len(exts) :
         ReadAs(exts[k]) /\ (Consistent(exts[k]) => Pair(wire.items, k, exts[k]))
    /\ value # NoValue /\ AllConsistent(value.list) =>
         \A k \in 1 .. Len(exts) : exts[k] = UnsignedExt(value.list[k])

HeldInv ==
  /\ value # NoValue /\ wire # NoWire /\ AllConsistent(value.list) => Says(wire, value.list)
  /\ pc \in {"encode", "encoding"} => value # NoValue
  /\ pc \in {"decode", "decoding"} => wire # NoWire

IInv == TypeOK /\ EncoderInv /\ DecoderInv /\ HeldInv

-----------------------------------------------------------------------------
(* Values                                                                  *)

\* The shapes of an extension.
LEMMA ExtensionShape ==
  ASSUME NEW ext \in Extension
  PROVE  /\ ext.id.form \in {"int", "oid"} /\ ext.critical \in BOOLEAN
         /\ ext = [id |-> ext.id, critical |-> ext.critical, value |-> ext.value]
         /\ ext.id.form = "int" => /\ ext.id.int \in I32 /\ ext.id = IntId(ext.id.int)
                                   /\ ext.value \in RegisteredValue
         /\ ext.id.form = "oid" => /\ ext.id.oid \in Oids /\ ext.id = OidId(ext.id.oid)
                                   /\ \/ ext.value \in DerValue
                                      \/ ext.value \in RegisteredValue /\ ext.value.kind # "Raw"
BY DEF Extension, IntId, OidId

\* An extension without its criticality.
LEMMA DropCritical ==
  ASSUME NEW ext \in Extension
  PROVE  [ext EXCEPT !.critical = FALSE] = [id |-> ext.id, critical |-> FALSE, value |-> ext.value]
BY ExtensionShape DEF Extension

\* Every id stands for a variant, and a codec belongs to one that has no
\* items of its own.
LEMMA KindFacts ==
  /\ \A id \in Int : KindOf(id) \in PlainKinds \cup TypedKinds
  /\ \A kind \in TypedKinds : CodecOf(kind) \in TypedKinds /\ kind \notin PlainKinds
  /\ KindOf(2) = "KeyUsage"
<1>1. ASSUME NEW id \in Int PROVE KindOf(id) \in PlainKinds \cup TypedKinds
  <2>1. KindOf(id) # "Raw" => id \in 1 .. 38
    BY DEF KindOf
  <2>. QED
    BY <2>1 DEF PlainKinds, TypedKinds
<1>2. ASSUME NEW kind \in TypedKinds
      PROVE  CodecOf(kind) \in TypedKinds /\ kind \notin PlainKinds
  <2>1. /\ KindOf(3) = "SubjectAltName" /\ KindOf(5) = "CrlDistributionPoints"
        /\ KindOf(9) = "AuthorityInfoAccess"
        /\ KindOf(32) = "IpAddrBlocks" /\ KindOf(33) = "AsIdentifiers"
    BY DEF KindOf
  <2>2. {KindOf(3), KindOf(5), KindOf(9), KindOf(32), KindOf(33)} \subseteq TypedKinds
    <3>1. {3, 5, 9, 32, 33} \subseteq 1 .. 38
      OBVIOUS
    <3>. QED
      BY <2>1, <3>1 DEF TypedKinds, PlainKinds, UintKinds
  <2>. QED
    BY <2>1, <2>2 DEF CodecOf, TypedKinds
<1>3. KindOf(2) = "KeyUsage"
  BY DEF KindOf
<1>. QED
  BY <1>1, <1>2, <1>3

\* The shapes of a value under a registered id.
LEMMA RegisteredShape ==
  ASSUME NEW v \in RegisteredValue
  PROVE  /\ v.kind \in PlainKinds \cup TypedKinds
         /\ v.kind \in UintKinds => v.uint \in U32 /\ v = [kind |-> v.kind, uint |-> v.uint]
         /\ v.kind = "SubjectKeyIdentifier" =>
              v.bytes \in Seq(Octet) /\ v = [kind |-> v.kind, bytes |-> v.bytes]
         /\ v.kind = "OcspNoCheck" => v = [kind |-> v.kind]
         /\ v.kind = "Raw" => /\ v.cbor \in ValueItem /\ IsComplete(v.cbor)
                              /\ v = [kind |-> v.kind, cbor |-> v.cbor]
         /\ v.kind \in TypedKinds =>
              v.content \in Contents /\ v = [kind |-> v.kind, content |-> v.content]
BY KindFacts DEF RegisteredValue, PlainKinds, UintKinds

\* A value comes back from its item, under an id that stands for its variant.
LEMMA ValueInverse ==
  ASSUME NEW v \in RegisteredValue
  PROVE  /\ ValueEncodes(v) => ItemOf(v) \in ValueItem
         /\ \A id \in Int : KindOf(id) = v.kind =>
              ReadsValue(id, ItemOf(v)) /\ ValueRead(id, ItemOf(v)) = v
<1>1. CASE v.kind \in UintKinds
  <2>1. v.uint \in U32 /\ v = [kind |-> v.kind, uint |-> v.uint] /\ v.uint \in Int
    BY <1>1, IntAssumption, RegisteredShape DEF U32
  <2>2. ItemOf(v) = IntItem(v.uint)
    BY <1>1 DEF ItemOf, UintKinds
  <2>. QED
    BY <1>1, <2>1, <2>2 DEF IntItem, IsInt, ReadsValue, ValueRead, ValueItem, Nested1, Leaf, UintKinds
<1>2. CASE v.kind = "SubjectKeyIdentifier"
  <2>1. v.bytes \in Seq(Octet) /\ v = [kind |-> v.kind, bytes |-> v.bytes]
    BY <1>2, RegisteredShape
  <2>2. ItemOf(v) = BytesItem(v.bytes)
    BY <1>2 DEF ItemOf, UintKinds
  <2>. QED
    BY <1>2, <2>1, <2>2
    DEF BytesItem, IsBytes, ReadsValue, ValueRead, ValueItem, Nested1, Leaf, UintKinds
<1>3. CASE v.kind = "OcspNoCheck"
  <2>1. v = [kind |-> v.kind] /\ ItemOf(v) = NullItem
    BY <1>3, RegisteredShape DEF ItemOf, UintKinds
  <2>. QED
    BY <1>3, <2>1
    DEF NullItem, IsNull, ReadsValue, ValueRead, ValueItem, Nested1, Leaf, UintKinds
<1>4. CASE v.kind = "Raw"
  <2>1. /\ v.cbor \in ValueItem /\ IsComplete(v.cbor)
        /\ v = [kind |-> v.kind, cbor |-> v.cbor] /\ ItemOf(v) = v.cbor
    BY <1>4, RegisteredShape DEF ItemOf, UintKinds
  <2>. QED
    BY <1>4, <2>1 DEF ReadsValue, ValueRead, UintKinds
<1>5. CASE v.kind \in TypedKinds
  <2>1. /\ v.content \in Contents /\ v = [kind |-> v.kind, content |-> v.content]
        /\ v.kind \notin PlainKinds /\ CodecOf(v.kind) \in TypedKinds
    BY <1>5, RegisteredShape, KindFacts
  <2>2. ItemOf(v) = TypedItem(CodecOf(v.kind), v.content)
    BY <2>1 DEF ItemOf, PlainKinds
  <2>. QED
    BY <1>5, <2>1, <2>2 DEF TypedItem, ReadsValue, ValueRead, ValueItem, PlainKinds, ValueEncodes
<1>. QED
  BY <1>1, <1>2, <1>3, <1>4, <1>5, RegisteredShape DEF PlainKinds

\* What the decoder returns is of the variant of its id, and is written again
\* as it was read.
LEMMA ValueReadInverse ==
  ASSUME NEW id \in Int, NEW item \in ValueItem, ReadsValue(id, item)
  PROVE  /\ ValueRead(id, item) \in RegisteredValue
         /\ ValueRead(id, item).kind = KindOf(id)
         /\ ItemOf(ValueRead(id, item)) = item
<1>. DEFINE kind == KindOf(id)
<1>0. kind \in PlainKinds \cup TypedKinds
  BY KindFacts
<1>. HIDE DEF kind
<1>1. CASE kind \in UintKinds
  <2>1. item.type = "int" /\ item.int \in U32
    BY <1>1 DEF ReadsValue, IsInt, kind, UintKinds
  <2>2. item = IntItem(item.int)
    BY <2>1, LeafShape, ArrayShape DEF ValueItem, Nested1
  <2>3. ValueRead(id, item) = [kind |-> kind, uint |-> item.int]
    BY <1>1 DEF ValueRead, kind, UintKinds
  <2>. QED
    BY <1>1, <2>1, <2>2, <2>3 DEF RegisteredValue, ItemOf, kind, UintKinds
<1>2. CASE kind = "SubjectKeyIdentifier"
  <2>1. item.type = "bytes"
    BY <1>2 DEF ReadsValue, IsBytes, kind, UintKinds
  <2>2. item = BytesItem(item.bytes) /\ item.bytes \in Seq(Octet)
    BY <2>1, LeafShape, ArrayShape DEF ValueItem, Nested1
  <2>3. ValueRead(id, item) = [kind |-> kind, bytes |-> item.bytes]
    BY <1>2 DEF ValueRead, kind, UintKinds
  <2>. QED
    BY <1>2, <2>2, <2>3 DEF RegisteredValue, ItemOf, kind, UintKinds
<1>3. CASE kind = "OcspNoCheck"
  <2>1. item.type = "null"
    BY <1>3 DEF ReadsValue, IsNull, kind, UintKinds
  <2>2. item = NullItem
    BY <2>1, LeafShape, ArrayShape DEF ValueItem, Nested1
  <2>3. ValueRead(id, item) = [kind |-> kind]
    BY <1>3 DEF ValueRead, kind, UintKinds
  <2>. QED
    BY <1>3, <2>2, <2>3 DEF RegisteredValue, ItemOf, kind, UintKinds
<1>4. CASE kind = "Raw"
  <2>1. ValueRead(id, item) = [kind |-> kind, cbor |-> item]
    BY <1>4 DEF ValueRead, kind, UintKinds
  <2>2. IsComplete(item)
    BY <1>4 DEF ReadsValue, kind, UintKinds
  <2>. QED
    BY <1>4, <2>1, <2>2 DEF RegisteredValue, ItemOf, kind, UintKinds
<1>5. CASE kind \in TypedKinds
  <2>1. kind \notin PlainKinds
    BY <1>5, KindFacts
  <2>2. item.type = "typed" /\ item.codec = CodecOf(kind)
    BY <2>1 DEF ReadsValue, kind, PlainKinds
  <2>3. item.content \in Contents /\ item = TypedItem(item.codec, item.content)
    BY <2>2, LeafShape, ArrayShape DEF ValueItem, Nested1, TypedItem
  <2>4. ValueRead(id, item) = [kind |-> kind, content |-> item.content]
    BY <2>1 DEF ValueRead, kind, PlainKinds
  <2>5. ItemOf(ValueRead(id, item)) = TypedItem(CodecOf(kind), item.content)
    BY <2>1, <2>4 DEF ItemOf, PlainKinds
  <2>. QED
    BY <1>5, <2>2, <2>3, <2>4, <2>5 DEF RegisteredValue, kind
<1>. QED
  BY <1>0, <1>1, <1>2, <1>3, <1>4, <1>5 DEF PlainKinds

\* The decoder returns no value that the encoder refuses.
LEMMA ReadIsWritable ==
  ASSUME NEW id \in Int, NEW item \in ValueItem, ReadsValue(id, item)
  PROVE  ValueEncodes(ValueRead(id, item))
<1>. DEFINE v == ValueRead(id, item)
<1>. SUFFICES ASSUME v.kind \in TypedKinds PROVE v.content \notin Unwritable
  BY DEF ValueEncodes
<1>1. v \in RegisteredValue /\ ItemOf(v) = item
  BY ValueReadInverse
<1>. HIDE DEF v
<1>2. v.kind \notin PlainKinds
  BY KindFacts
<1>3. item = TypedItem(CodecOf(v.kind), v.content)
  BY <1>1, <1>2 DEF ItemOf, PlainKinds
<1>4. item.type = "typed" /\ item.content = v.content
  BY <1>3 DEF TypedItem
<1>. QED
  BY <1>4, LeafShape, ArrayShape DEF ValueItem, Nested1

-----------------------------------------------------------------------------
(* Extensions                                                              *)

\* The variant and the number of an extension whose id is an integer.
LEMMA ConsistentShape ==
  ASSUME NEW ext \in Extension, Consistent(ext)
  PROVE  /\ ValueEncodes(ext.value) => EncodesOne(ext)
         /\ ext.id.form = "int" =>
              /\ ext.id.int \in 0 .. I32Max /\ ext.id = IntId(ext.id.int)
              /\ ext.value \in RegisteredValue /\ ext.value.kind = KindOf(ext.id.int)
         /\ ext.id.form = "oid" =>
              /\ ext.id.oid \in Oids /\ ext.id = OidId(ext.id.oid)
              /\ ext.value.der \in Seq(Octet)
              /\ ext.value = [kind |-> "Raw", der |-> ext.value.der]
<1>1. CASE ext.id.form = "int"
  <2>1. ext.id.int \in I32 /\ ext.id.int >= 0 /\ ext.id.int \in 0 .. I32Max
    BY <1>1, ExtensionShape, IntAssumption DEF Consistent, I32
  <2>2. HasSigned(ext.id.int, ext.critical)
    BY <2>1, IntAssumption DEF HasSigned, I32Min
  <2>. QED
    BY <1>1, <2>1, <2>2, ExtensionShape DEF Consistent, EncodesOne
<1>2. CASE ext.id.form = "oid"
  <2>1. "der" \in DOMAIN ext.value
    BY <1>2 DEF Consistent
  <2>2. \A v \in RegisteredValue : "der" \notin DOMAIN v
    BY DEF RegisteredValue
  <2>3. ext.value \in DerValue
    BY <1>2, <2>1, <2>2, ExtensionShape
  <2>. QED
    BY <1>2, <2>3, ExtensionShape DEF DerValue, EncodesOne
<1>. QED
  BY <1>1, <1>2, ExtensionShape

\* The items of an extension that encodes are items.
LEMMA PairTyped ==
  ASSUME NEW ext \in Extension, EncodesOne(ext)
  PROVE  IdItem(ext) \in ValueItem /\ SecondItem(ext) \in ValueItem
<1>1. CASE ext.id.form = "int"
  <2>1. ext.id.int \in Int /\ ext.value \in RegisteredValue
    BY <1>1, ExtensionShape, IntAssumption DEF I32
  <2>2. Signed(ext.id.int, ext.critical) \in Int
    BY <2>1 DEF Signed
  <2>3. IdItem(ext) \in Leaf
    BY <1>1, <2>2 DEF IdItem, IntItem, Leaf
  <2>4. SecondItem(ext) \in ValueItem
    BY <1>1, <2>1, ValueInverse DEF SecondItem, EncodesOne
  <2>. QED
    BY <2>3, <2>4 DEF ValueItem, Nested1
<1>2. CASE ext.id.form = "oid"
  <2>1. ext.id.oid \in Seq(Octet) /\ ext.value \in DerValue
    BY <1>2, ExtensionShape, OidsAssumption DEF EncodesOne
  <2>2. ext.value.der \in Seq(Octet)
    BY <2>1 DEF DerValue
  <2>3. IdItem(ext) \in Leaf /\ BytesItem(ext.value.der) \in Leaf
    BY <1>2, <2>1, <2>2 DEF IdItem, BytesItem, Leaf
  <2>4. ArrayItem(<<BytesItem(ext.value.der)>>) \in ArrayOf(Leaf)
    <3>1. <<BytesItem(ext.value.der)>> \in Seq(Leaf)
      BY <2>3
    <3>. QED
      BY <3>1, ArrayItemTyped
  <2>. QED
    BY <1>2, <2>3, <2>4 DEF SecondItem, ValueItem, Nested1
<1>. QED
  BY <1>1, <1>2, ExtensionShape

\* decode_critical_magnitude returns the magnitude and the sign.
LEMMA MagnitudeFacts ==
  ASSUME NEW raw \in Int
  PROVE  /\ MagnitudeOf(raw).n = (IF raw < 0 THEN -raw ELSE raw)
         /\ MagnitudeOf(raw).critical = (raw < 0)
<1>1. MagnitudeOf(raw) = [n |-> IF raw < 0 THEN -raw ELSE raw, critical |-> raw < 0]
  <2>1. CASE raw < 0
    <3>1. (raw < 0) = TRUE
      BY <2>1
    <3>. QED
      BY <2>1, <3>1 DEF MagnitudeOf
  <2>2. CASE ~(raw < 0)
    <3>1. (raw < 0) = FALSE
      BY <2>2
    <3>. QED
      BY <2>2, <3>1 DEF MagnitudeOf
  <2>. QED
    BY <2>1, <2>2
<1>. QED
  BY <1>1

\* The sign of a number carries its criticality, unless it is zero.
LEMMA SignInverse ==
  ASSUME NEW n \in Nat, NEW critical \in BOOLEAN
  PROVE  /\ Signed(n, critical) \in Int
         /\ MagnitudeOf(Signed(n, critical)).n = n
         /\ MagnitudeOf(Signed(n, critical)).critical = (critical /\ n # 0)
         /\ n \in 0 .. I32Max => Signed(n, critical) \in I32 /\ AsI32(n) = n
<1>. DEFINE raw == Signed(n, critical)
<1>1. n \in 0 .. I32Max => n \in I32 /\ -n \in I32 /\ AsI32(n) = n
  BY IntAssumption DEF I32, AsI32
<1>2. raw = (IF critical THEN -n ELSE n) /\ raw \in Int
  BY DEF Signed
<1>3. (raw < 0) = (critical /\ n # 0)
  <2>1. CASE critical
    BY <1>2, <2>1
  <2>2. CASE ~critical
    BY <1>2, <2>2
  <2>. QED
    BY <2>1, <2>2
<1>4. (IF raw < 0 THEN -raw ELSE raw) = n
  BY <1>2
<1>. HIDE DEF raw
<1>5. /\ MagnitudeOf(raw).n = (IF raw < 0 THEN -raw ELSE raw)
      /\ MagnitudeOf(raw).critical = (raw < 0)
  BY <1>2, MagnitudeFacts
<1>6. n \in 0 .. I32Max => raw \in I32
  BY <1>1, <1>2
<1>. QED
  BY <1>1, <1>2, <1>3, <1>4, <1>5, <1>6, Zenon DEF raw

\* Decoding the two items of a consistent extension returns it, but for the
\* criticality of the id 0.
LEMMA PairIsRead ==
  ASSUME NEW ext \in Extension, Consistent(ext)
  PROVE  LET one == IdItem(ext)
             two == SecondItem(ext)
         IN  /\ ext.id.form = "int" => /\ AcceptsRegistered(one, two) /\ ~AcceptsByOid(one, two)
                                       /\ RegisteredOf(one, two) = UnsignedExt(ext)
             /\ ext.id.form = "oid" => /\ AcceptsByOid(one, two) /\ ~AcceptsRegistered(one, two)
                                       /\ ByOidOf(one, two) = UnsignedExt(ext)
<1>1. CASE ext.id.form = "int"
  <2>. DEFINE n == ext.id.int
              raw == Signed(n, ext.critical)
  <2>1. /\ n \in 0 .. I32Max /\ n \in Nat /\ ext.critical \in BOOLEAN
        /\ ext.id = IntId(n) /\ ext.value \in RegisteredValue /\ ext.value.kind = KindOf(n)
        /\ ext = [id |-> IntId(n), critical |-> ext.critical, value |-> ext.value]
    <3>1. /\ n \in 0 .. I32Max /\ ext.id = IntId(n)
          /\ ext.value \in RegisteredValue /\ ext.value.kind = KindOf(n)
      BY <1>1, ConsistentShape
    <3>2. /\ ext.critical \in BOOLEAN
          /\ ext = [id |-> ext.id, critical |-> ext.critical, value |-> ext.value]
      BY ExtensionShape
    <3>3. n \in Nat
      BY <3>1, IntAssumption
    <3>. QED
      BY <3>1, <3>2, <3>3
  <2>2. /\ raw \in I32 /\ AsI32(n) = n /\ MagnitudeOf(raw).n = n
        /\ MagnitudeOf(raw).critical = (ext.critical /\ n # 0)
    BY <2>1, SignInverse
  <2>3. IdItem(ext) = IntItem(raw) /\ SecondItem(ext) = ItemOf(ext.value)
    BY <1>1 DEF IdItem, SecondItem
  <2>4. ReadsValue(n, ItemOf(ext.value)) /\ ValueRead(n, ItemOf(ext.value)) = ext.value
    BY <2>1, ValueInverse
  <2>5. IsI32(IntItem(raw)) /\ ~IsBytes(IntItem(raw)) /\ IntItem(raw).int = raw
    BY <2>2 DEF IsI32, IsInt, IsBytes, IntItem
  <2>6. UnsignedExt(ext) =
          [id |-> IntId(n), critical |-> (ext.critical /\ n # 0), value |-> ext.value]
    <3>1. CASE n = 0
      <4>1. UnsignedExt(ext) = [ext EXCEPT !.critical = FALSE]
        BY <2>1, <3>1 DEF UnsignedExt
      <4>2. (ext.critical /\ n # 0) = FALSE
        BY <3>1
      <4>. QED
        BY <2>1, <4>1, <4>2, DropCritical
    <3>2. CASE n # 0
      <4>1. UnsignedExt(ext) = ext
        BY <2>1, <3>2 DEF UnsignedExt, IntId
      <4>2. (ext.critical /\ n # 0) = ext.critical
        BY <2>1, <3>2
      <4>. QED
        BY <2>1, <4>1, <4>2
    <3>. QED
      BY <3>1, <3>2
  <2>. HIDE DEF n, raw
  <2>7. RegisteredOf(IntItem(raw), ItemOf(ext.value)) = UnsignedExt(ext)
    BY <2>2, <2>4, <2>5, <2>6 DEF RegisteredOf
  <2>. QED
    BY <1>1, <2>2, <2>3, <2>4, <2>5, <2>7 DEF AcceptsRegistered, AcceptsByOid
<1>2. CASE ext.id.form = "oid"
  <2>. DEFINE der == BytesItem(ext.value.der)
  <2>1. /\ ext.id = OidId(ext.id.oid) /\ ext.id.oid \in Oids
        /\ ext.value = [kind |-> "Raw", der |-> ext.value.der]
        /\ ext = [id |-> ext.id, critical |-> ext.critical, value |-> ext.value]
        /\ ext.critical \in BOOLEAN
    BY <1>2, ConsistentShape, ExtensionShape
  <2>2. UnsignedExt(ext) = ext
    BY <1>2 DEF UnsignedExt, IntId
  <2>3. IdItem(ext) = BytesItem(ext.id.oid)
    BY <1>2 DEF IdItem
  <2>4. CASE ext.critical
    <3>1. SecondItem(ext) = ArrayItem(<<der>>)
      BY <1>2, <2>4 DEF SecondItem
    <3>2. IsMarkedCritical(ArrayItem(<<der>>)) /\ ArrayItem(<<der>>).items[1] = der
      BY DEF IsMarkedCritical, ArrayItem, HasElement, IsBytes, BytesItem
    <3>3. IsMarkedCritical(ArrayItem(<<der>>)) = ext.critical
      BY <2>1, <2>4, <3>2
    <3>4. /\ AcceptsByOid(IdItem(ext), SecondItem(ext))
          /\ ~AcceptsRegistered(IdItem(ext), SecondItem(ext))
      BY <2>1, <2>3, <3>1, <3>2
      DEF AcceptsByOid, AcceptsRegistered, IsI32, IsInt, IsBytes, BytesItem
    <3>5. ByOidOf(IdItem(ext), SecondItem(ext)) =
            [id |-> OidId(ext.id.oid), critical |-> ext.critical,
             value |-> [kind |-> "Raw", der |-> ext.value.der]]
      <4>0. IdItem(ext).bytes = ext.id.oid /\ der.bytes = ext.value.der
        BY <2>3 DEF BytesItem
      <4>. HIDE DEF der
      <4>1. /\ SecondItem(ext).items[1] = der /\ IsMarkedCritical(SecondItem(ext))
            /\ IsMarkedCritical(SecondItem(ext)) = ext.critical
        BY <3>1, <3>2, <3>3, Zenon
      <4>2. (IF IsMarkedCritical(SecondItem(ext)) THEN SecondItem(ext).items[1]
                                                  ELSE SecondItem(ext)) = der
        BY <4>1
      <4>. QED
        BY <4>0, <4>1, <4>2, Zenon DEF ByOidOf
    <3>. QED
      BY <1>2, <2>1, <2>2, <3>4, <3>5
  <2>5. CASE ~ext.critical
    <3>1. SecondItem(ext) = der /\ ~IsMarkedCritical(der) /\ IsBytes(der)
      BY <1>2, <2>5 DEF SecondItem, IsMarkedCritical, BytesItem, IsBytes
    <3>2. IsMarkedCritical(der) = ext.critical
      BY <2>1, <2>5, <3>1 DEF IsMarkedCritical
    <3>. QED
      BY <1>2, <2>1, <2>2, <2>3, <3>1, <3>2
      DEF AcceptsByOid, AcceptsRegistered, ByOidOf, IsI32, IsInt, IsBytes, BytesItem
  <2>. QED
    BY <2>4, <2>5
<1>. QED
  BY <1>1, <1>2, ExtensionShape

\* The sequence of one element.
LEMMA Singleton ==
  ASSUME NEW S, NEW s \in Seq(S), Len(s) = 1, NEW a, s[1] = a
  PROVE  s = <<a>>
OBVIOUS

\* An extension that is built of its three members.
LEMMA ExtensionOf ==
  ASSUME NEW id, NEW critical, NEW v
  PROVE  LET ext == [id |-> id, critical |-> critical, value |-> v]
         IN  ext.id = id /\ ext.critical = critical /\ ext.value = v
OBVIOUS

\* An extension read under an integer has a number that is its own magnitude,
\* or the one that is left over by the cast.
LEMMA ReadRegisteredInverse ==
  ASSUME NEW one \in ValueItem, NEW two \in ValueItem, AcceptsRegistered(one, two)
  PROVE  LET ext == RegisteredOf(one, two)
         IN  /\ ext \in Extension /\ ReadAs(ext)
             /\ Consistent(ext) => IdItem(ext) = one /\ SecondItem(ext) = two
<1>. DEFINE raw == one.int
            m   == MagnitudeOf(raw)
            v   == ValueRead(m.n, two)
            ext == RegisteredOf(one, two)
<1>1. /\ raw \in I32 /\ raw \in Int /\ one = IntItem(raw) /\ ReadsValue(m.n, two)
      /\ one.type = "int"
  <2>1. raw \in I32 /\ one.type = "int" /\ ReadsValue(m.n, two)
    BY DEF AcceptsRegistered, IsI32, IsInt
  <2>2. one = IntItem(raw)
    BY <2>1, LeafShape, ArrayShape DEF ValueItem, Nested1
  <2>. QED
    BY <2>1, <2>2, IntAssumption DEF I32
<1>2. /\ m.n = (IF raw < 0 THEN -raw ELSE raw)
      /\ m.critical = (raw < 0)
  BY <1>1, MagnitudeFacts
<1>3. m.n \in Int /\ m.n >= 0 /\ m.n <= I32Max + 1
  BY <1>1, <1>2, IntAssumption DEF I32
<1>4. v \in RegisteredValue /\ v.kind = KindOf(m.n) /\ ItemOf(v) = two /\ ValueEncodes(v)
  BY <1>1, <1>3, ValueReadInverse, ReadIsWritable
<1>5. /\ ext = [id |-> IntId(AsI32(m.n)), critical |-> m.critical, value |-> v]
      /\ ext.id = IntId(AsI32(m.n)) /\ ext.critical = m.critical /\ ext.value = v
  BY DEF RegisteredOf
<1>6. /\ m.n <= I32Max => AsI32(m.n) = m.n
      /\ m.n = I32Max + 1 => AsI32(m.n) = I32Min /\ raw = I32Min
  BY <1>1, <1>2, <1>3, IntAssumption DEF AsI32, I32Min, I32
<1>7. AsI32(m.n) \in I32 /\ m.critical \in BOOLEAN
  <2>1. AsI32(m.n) \in I32
    BY <1>3, <1>6, IntAssumption DEF I32, I32Min
  <2>. QED
    BY <1>2, <2>1
<1>. HIDE DEF m, raw, v, ext
<1>8. ext \in Extension
  BY <1>4, <1>5, <1>7 DEF Extension, IntId
<1>9. CASE m.n = I32Max + 1
  <2>1. ext.id = IntId(I32Min) /\ raw < 0 /\ ext.critical
    <3>1. raw < 0
      BY <1>6, <1>9, IntAssumption DEF I32Min
    <3>. QED
      BY <1>2, <1>5, <1>6, <1>9, <3>1
  <2>2. ~Consistent(ext)
    BY <2>1, IntAssumption DEF Consistent, IntId, I32Min
  <2>. QED
    BY <1>8, <2>1, <2>2 DEF ReadAs, ext
<1>10. CASE m.n <= I32Max
  <2>1. ext.id = IntId(m.n) /\ ext.id.form = "int" /\ ext.id.int = m.n
    BY <1>5, <1>6, <1>10 DEF IntId
  <2>2. Consistent(ext)
    BY <1>3, <1>4, <1>5, <2>1 DEF Consistent
  <2>3. ext.id = IntId(0) => ~ext.critical
    <3>1. ext.id = IntId(0) => m.n = 0
      BY <2>1 DEF IntId
    <3>2. m.n = 0 => ~(raw < 0)
      BY <1>1, <1>2
    <3>. QED
      BY <1>2, <1>5, <3>1, <3>2
  <2>4. Signed(m.n, m.critical) = raw
    <3>1. CASE raw < 0
      <4>1. Signed(m.n, m.critical) = -(-raw)
        BY <1>2, <3>1 DEF Signed
      <4>. QED
        BY <1>1, <4>1
    <3>2. CASE ~(raw < 0)
      BY <1>2, <3>2 DEF Signed
    <3>. QED
      BY <3>1, <3>2
  <2>5. IdItem(ext) = one /\ SecondItem(ext) = two
    BY <1>1, <1>4, <1>5, <2>1, <2>4 DEF IdItem, SecondItem
  <2>. QED
    BY <1>4, <1>5, <1>8, <2>2, <2>3, <2>5 DEF ReadAs, ext
<1>. QED
  BY <1>3, <1>9, <1>10, IntAssumption

\* An extension read under an OID is written again as it was read.
LEMMA ReadByOidInverse ==
  ASSUME NEW one \in ValueItem, NEW two \in ValueItem, AcceptsByOid(one, two)
  PROVE  LET ext == ByOidOf(one, two)
         IN  /\ ext \in Extension /\ ReadAs(ext)
             /\ IdItem(ext) = one /\ SecondItem(ext) = two
<1>. DEFINE der == IF IsMarkedCritical(two) THEN two.items[1] ELSE two
            ext == ByOidOf(one, two)
<1>1. one = BytesItem(one.bytes) /\ one.bytes \in Oids
  BY LeafShape, ArrayShape DEF AcceptsByOid, IsBytes, ValueItem, Nested1
<1>2. /\ der = BytesItem(der.bytes) /\ der.bytes \in Seq(Octet)
      /\ two = (IF IsMarkedCritical(two) THEN ArrayItem(<<der>>) ELSE der)
  <2>1. CASE IsMarkedCritical(two)
    <3>1. /\ two.type = "array" /\ two.len = 1 /\ IsBytes(two.items[1])
          /\ 1 <= Len(two.items) /\ der = two.items[1]
      BY <2>1 DEF IsMarkedCritical, HasElement
    <3>2. two \in ArrayOf(Leaf)
      BY <3>1, LeafShape DEF ValueItem, Nested1
    <3>3. /\ two.items \in Seq(Leaf) /\ Len(two.items) <= 1
          /\ two = [type |-> "array", len |-> 1, items |-> two.items]
      BY <3>1, <3>2, ArrayShape
    <3>4. Len(two.items) = 1
      <4>. HIDE DEF der
      <4>1. Len(two.items) \in Nat /\ 1 <= Len(two.items) /\ Len(two.items) <= 1
        BY <3>1, <3>3
      <4>2. \A n \in Nat : 1 <= n /\ n <= 1 => n = 1
        OBVIOUS
      <4>. QED
        BY <4>1, <4>2, Zenon
    <3>5. der \in Leaf
      BY <3>1, <3>3, <3>4
    <3>6. der = BytesItem(der.bytes) /\ der.bytes \in Seq(Octet)
      BY <3>1, <3>5, LeafShape DEF IsBytes
    <3>. HIDE DEF der
    <3>7. two.items = <<der>>
      BY <3>1, <3>3, <3>4, Singleton
    <3>8. two = ArrayItem(<<der>>)
      BY <3>3, <3>7 DEF ArrayItem
    <3>. QED
      BY <2>1, <3>6, <3>8
  <2>2. CASE ~IsMarkedCritical(two)
    <3>1. der = two /\ IsBytes(two)
      BY <2>2 DEF AcceptsByOid
    <3>2. two = BytesItem(two.bytes) /\ two.bytes \in Seq(Octet)
      BY <3>1, LeafShape, ArrayShape DEF IsBytes, ValueItem, Nested1
    <3>. QED
      BY <2>2, <3>1, <3>2
  <2>. QED
    BY <2>1, <2>2
<1>3. IsMarkedCritical(two) \in BOOLEAN
  BY DEF IsMarkedCritical
<1>4. /\ ext.id = OidId(one.bytes) /\ ext.critical = IsMarkedCritical(two)
      /\ ext.value = [kind |-> "Raw", der |-> der.bytes]
      /\ ext = [id |-> ext.id, critical |-> ext.critical, value |-> ext.value]
  BY Zenon DEF ByOidOf
<1>. HIDE DEF der, ext
<1>5. ext.value \in DerValue /\ ext.value.der = der.bytes /\ "der" \in DOMAIN ext.value
  BY <1>2, <1>4 DEF DerValue
<1>6. ext.id \in [form : {"oid"}, oid : Oids] /\ ext.id.form = "oid" /\ ext.id.oid = one.bytes
  BY <1>1, <1>4 DEF OidId
<1>7. ext \in Extension
  <2>1. ext.critical \in BOOLEAN
    BY <1>3, <1>4, Zenon
  <2>. QED
    BY <1>4, <1>5, <1>6, <2>1 DEF Extension
<1>8. ReadAs(ext)
  BY <1>4, <1>5, <1>6 DEF ReadAs, Consistent, IntId, ValueEncodes, TypedKinds, PlainKinds
<1>9. IdItem(ext) = one
  BY <1>1, <1>6 DEF IdItem
<1>10. SecondItem(ext) = two
  <2>1. SecondItem(ext) = IF ext.critical THEN ArrayItem(<<der>>) ELSE der
    BY <1>2, <1>5, <1>6 DEF SecondItem
  <2>. QED
    BY <1>2, <1>4, <2>1, Zenon
<1>. QED
  BY <1>7, <1>8, <1>9, <1>10 DEF ext

-----------------------------------------------------------------------------
(* Lists                                                                   *)

LEMMA WireShape ==
  ASSUME NEW item \in WireItem
  PROVE  /\ item # NoWire
         /\ item.type = "array" =>
              /\ item.items \in Seq(ValueItem) /\ item.len \in Nat
              /\ Len(item.items) \in Nat /\ Len(item.items) <= item.len
         /\ item.type = "int" => item = IntItem(item.int) /\ item.int \in Int
<1>1. CASE item \in Leaf
  BY <1>1, LeafShape DEF NoWire
<1>2. CASE item \in ArrayOf(Leaf)
  <2>1. item.type = "array" => item.items \in Seq(ValueItem)
    BY <1>2, ArrayShape DEF ValueItem, Nested1
  <2>. QED
    BY <1>2, <2>1, ArrayShape DEF NoWire
<1>3. CASE item \in ArrayOf(ValueItem)
  BY <1>3, ArrayShape DEF NoWire
<1>. QED
  BY <1>1, <1>2, <1>3 DEF WireItem, Nested1

LEMMA ValueShape ==
  ASSUME NEW v \in Value
  PROVE  v # NoValue /\ v.list \in Seq(Extension) /\ v = List(v.list)
BY DEF Value, NoValue, List

\* The only compact list.
LEMMA SingleShape ==
  ASSUME NEW list \in Seq(Extension), IsSingleKeyUsage(list)
  PROVE  /\ DOMAIN list = {1} /\ list[1] \in Extension /\ list[1].id.form = "int"
         /\ list = <<list[1]>>
         /\ Consistent(list[1])
         /\ list[1].value.uint \in U32 /\ list[1].critical \in BOOLEAN
         /\ list[1] = [id |-> IntId(2), critical |-> list[1].critical,
                       value |-> [kind |-> "KeyUsage", uint |-> list[1].value.uint]]
<1>1. /\ Len(list) = 1 /\ list[1] \in Extension /\ DOMAIN list = {1}
      /\ list[1].id = IntId(2) /\ list[1].value.kind = "KeyUsage"
  <2>1. /\ Len(list) = 1 /\ list[1].id = IntId(2) /\ list[1].value.kind = "KeyUsage"
    BY DEF IsSingleKeyUsage
  <2>2. DOMAIN list = 1 .. Len(list) /\ 1 .. 1 = {1}
    OBVIOUS
  <2>3. list[1] \in Extension
    <3>1. 1 \in DOMAIN list
      BY <2>1, <2>2
    <3>. QED
      BY <3>1
  <2>. QED
    BY <2>1, <2>2, <2>3
<1>2. list = <<list[1]>>
  BY <1>1, Singleton
<1>3. list[1].id.form = "int" /\ list[1].id.int = 2 /\ list[1].value \in RegisteredValue
  BY <1>1, ExtensionShape DEF IntId
<1>4. /\ list[1].value.uint \in U32
      /\ list[1].value = [kind |-> "KeyUsage", uint |-> list[1].value.uint]
  BY <1>1, <1>3, RegisteredShape DEF UintKinds
<1>5. Consistent(list[1])
  BY <1>1, <1>3, KindFacts DEF Consistent
<1>. QED
  BY <1>1, <1>2, <1>3, <1>4, <1>5, ExtensionShape

\* A representable list encodes and has nothing to lose.
LEMMA RepresentableFacts ==
  ASSUME NEW list \in Seq(Extension), Representable(list)
  PROVE  AllConsistent(list) /\ Encodes(list) /\ UnsignedZero(list) = list
<1>1. AllConsistent(list)
  BY DEF Representable, AllConsistent
<1>2. Encodes(list)
  <2>1. \A i \in DOMAIN list : EncodesOne(list[i])
    <3>. SUFFICES ASSUME NEW i \in DOMAIN list PROVE EncodesOne(list[i])
      OBVIOUS
    <3>1. list[i] \in Extension /\ Consistent(list[i]) /\ ValueEncodes(list[i].value)
      BY <1>1 DEF AllConsistent, Representable
    <3>. QED
      BY <3>1, ConsistentShape
  <2>2. IsSingleKeyUsage(list) => list[1].value.uint \in I32
    BY DEF Representable
  <2>. QED
    BY <2>1, <2>2 DEF Encodes, EncodesOne
<1>3. UnsignedZero(list) = list
  <2>1. ASSUME NEW i \in DOMAIN list,
               \/ list[i].id = IntId(0)
               \/ IsSingleKeyUsage(list) /\ list[1].value.uint = 0
        PROVE  [list[i] EXCEPT !.critical = FALSE] = list[i]
    <3>1. list[i] \in Extension /\ list[i].critical \in BOOLEAN /\ ~list[i].critical
      <4>1. list[i] \in Extension /\ list[i].critical \in BOOLEAN
        BY ExtensionShape
      <4>2. CASE list[i].id = IntId(0)
        BY <4>1, <4>2 DEF Representable
      <4>3. CASE IsSingleKeyUsage(list) /\ list[1].value.uint = 0
        <5>1. i = 1
          BY <4>3, SingleShape
        <5>. QED
          BY <4>1, <4>3, <5>1 DEF Representable
      <4>. QED
        BY <2>1, <4>2, <4>3
    <3>2. list[i].critical = FALSE
      BY <3>1
    <3>. QED
      BY <3>1, <3>2, ExtensionShape
  <2>2. UnsignedZero(list) = [i \in DOMAIN list |-> list[i]]
    BY <2>1 DEF UnsignedZero
  <2>. QED
    BY <2>2
<1>. QED
  BY <1>1, <1>2, <1>3

\* Two elements appended to a sequence.
LEMMA TwoMore ==
  ASSUME NEW S, NEW s \in Seq(S), NEW a \in S, NEW b \in S, NEW m \in Nat, Len(s) = m
  PROVE  LET t == s \o <<a, b>>
         IN  /\ t \in Seq(S) /\ Len(t) = m + 2
             /\ \A j \in 1 .. m : t[j] = s[j]
             /\ t[m + 1] = a /\ t[m + 2] = b
OBVIOUS

-----------------------------------------------------------------------------
(* Steps                                                                   *)

LEMMA InitInv == Init => IInv
<1>. SUFFICES ASSUME Init PROVE IInv
  OBVIOUS
<1>1. CASE pc = "encode" /\ value \in Callers /\ wire = NoWire
  <2>1. value \in Value /\ value # NoValue
    BY <1>1, CallersAssumption, ValueShape
  <2>. QED
    BY <1>1, <2>1 DEF Init, IInv, TypeOK, EncoderInv, DecoderInv, HeldInv
<1>2. CASE pc = "decode" /\ value = NoValue /\ wire \in Foreign
  <2>1. wire \in WireItem /\ wire # NoWire
    BY <1>2, ForeignAssumption, WireShape
  <2>. QED
    BY <1>2, <2>1 DEF Init, IInv, TypeOK, EncoderInv, DecoderInv, HeldInv
<1>. QED
  BY <1>1, <1>2 DEF Init

\* Says, AllConsistent and the rest of a list depend on nothing else.
LEMMA WrittenInv ==
  ASSUME IInv, pc \in {"encode", "encoding"}, NEW item \in WireItem, Says(item, value.list),
         Written(item)
  PROVE  IInv' /\ value' = value /\ pc' = "decode"
<1>1. /\ wire' = item /\ pc' = "decode" /\ UNCHANGED <<value, items, exts>>
      /\ value # NoValue /\ item # NoWire
  BY WireShape DEF Written, IInv, HeldInv
<1>2. Says(wire', value'.list)
  BY <1>1
<1>3. HeldInv'
  BY <1>1, <1>2 DEF HeldInv, Says, SaysList, Pair, AllConsistent
<1>. QED
  BY <1>1, <1>3 DEF IInv, TypeOK, EncoderInv, DecoderInv

\* An encoder that stops changes nothing else.
LEMMA PanicInv ==
  ASSUME IInv, Panic
  PROVE  IInv' /\ value' = value /\ pc' = "panicked"
<1>1. pc' = "panicked" /\ UNCHANGED <<value, wire, items, exts>>
  BY DEF Panic
<1>2. HeldInv'
  BY <1>1 DEF IInv, HeldInv, Says, SaysList, Pair, AllConsistent
<1>. QED
  BY <1>1, <1>2 DEF IInv, TypeOK, EncoderInv, DecoderInv

\* Encoding never changes the list, and stops for the lists Encodes excludes.
LEMMA EncodeInvariant ==
  ASSUME IInv, Encode
  PROVE  /\ IInv' /\ value' = value /\ pc' # "refused"
         /\ pc' = "panicked" => ~Encodes(value.list)
         /\ pc' = "decode" => Encodes(value.list)
<1>. DEFINE list == value.list
<1>0. /\ pc \in {"encode", "encoding"} /\ value # NoValue /\ value \in Value
      /\ list \in Seq(Extension) /\ Len(list) \in Nat
      /\ items \in Seq(ValueItem) /\ wire \in WireItem \cup {NoWire}
  <2>1. pc \in {"encode", "encoding"}
    BY DEF Encode, EncodeCompact, EncodeArray, EncodeExtension, EncodeOidExtension, Encoding,
           EncodeEnd
  <2>. QED
    BY <2>1, ValueShape DEF IInv, HeldInv, TypeOK
<1>1. CASE EncodeCompact
  <2>1. pc = "encode" /\ IsSingleKeyUsage(list)
    BY <1>1 DEF EncodeCompact
  <2>2. CASE list[1].value.uint \in I32
    <3>. DEFINE raw == Signed(list[1].value.uint, list[1].critical)
    <3>1. Written(IntItem(raw))
      BY <1>1, <2>2 DEF EncodeCompact
    <3>2. raw \in I32
      <4>1. /\ list[1].value.uint \in U32 /\ list[1].value.uint \in I32
        BY <1>0, <2>1, <2>2, SingleShape
      <4>. QED
        BY <4>1, IntAssumption DEF Signed, U32, I32
    <3>. HIDE DEF raw
    <3>3. IsI32(IntItem(raw)) /\ IntItem(raw) \in WireItem
      BY <3>2, IntAssumption DEF IsI32, IsInt, IntItem, WireItem, Nested1, Leaf, I32
    <3>4. Says(IntItem(raw), list)
      BY <2>1, <3>3 DEF Says, raw
    <3>5. Encodes(list)
      BY <2>1, <2>2 DEF Encodes
    <3>. QED
      BY <1>0, <3>1, <3>3, <3>4, <3>5, WrittenInv
  <2>3. CASE list[1].value.uint \notin I32
    <3>1. Panic
      BY <1>1, <2>3 DEF EncodeCompact
    <3>2. ~Encodes(list)
      BY <2>1, <2>3 DEF Encodes
    <3>. QED
      BY <3>1, <3>2, PanicInv
  <2>. QED
    BY <2>2, <2>3
<1>2. CASE EncodeArray
  <2>1. /\ ~IsSingleKeyUsage(list) /\ items' = <<>> /\ pc' = "encoding"
        /\ UNCHANGED <<value, wire, exts>>
    BY <1>2 DEF EncodeArray
  <2>2. EncoderInv'
    <3>1. /\ 0 \in 0 .. Len(value'.list) /\ Len(items') = 2 * 0
          /\ \A k \in 1 .. 0 : EncodesOne(value'.list[k]) /\ Pair(items', k, value'.list[k])
      BY <1>0, <2>1
    <3>2. ~IsSingleKeyUsage(value'.list)
      BY <2>1
    <3>. QED
      BY <3>1, <3>2 DEF EncoderInv, EncodesOne, Pair, IsSingleKeyUsage
  <2>3. HeldInv'
    BY <1>0, <2>1 DEF IInv, HeldInv, Says, SaysList, Pair, AllConsistent
  <2>. QED
    BY <1>0, <2>1, <2>2, <2>3 DEF IInv, TypeOK, DecoderInv
<1>3. CASE EncodeExtension \/ EncodeOidExtension
  <2>1. pc = "encoding" /\ Len(items) < 2 * Len(list)
    BY <1>3 DEF EncodeExtension, EncodeOidExtension, Encoding
  <2>2. ~IsSingleKeyUsage(list)
    BY <2>1 DEF IInv, EncoderInv
  <2>3. PICK n \in 0 .. Len(list) :
          /\ Len(items) = 2 * n
          /\ \A k \in 1 .. n : EncodesOne(list[k]) /\ Pair(items, k, list[k])
    BY <2>1 DEF IInv, EncoderInv
  <2>4. /\ n + 1 \in 1 .. Len(list) /\ n + 1 \in 0 .. Len(list)
        /\ Ext = list[n + 1] /\ Ext \in Extension
    <3>1. Len(items) \div 2 = n /\ n + 1 \in 1 .. Len(list)
      BY <1>0, <2>1, <2>3
    <3>. QED
      BY <1>0, <3>1 DEF Ext
  <2>5. CASE ~EncodesOne(Ext)
    <3>1. Panic
      BY <1>3, <2>5 DEF EncodeExtension, EncodeOidExtension, Encoding, EncodesOne
    <3>2. ~Encodes(list)
      <4>1. n + 1 \in DOMAIN list
        BY <1>0, <2>4
      <4>. QED
        BY <2>2, <2>4, <2>5, <4>1 DEF Encodes, EncodesOne
    <3>. QED
      BY <3>1, <3>2, PanicInv
  <2>6. CASE EncodesOne(Ext)
    <3>. DEFINE a == IdItem(Ext)
                b == SecondItem(Ext)
    <3>1. /\ items' = items \o <<a, b>> /\ UNCHANGED <<pc, value, wire, exts>>
      BY <1>3, <2>6
      DEF EncodeExtension, EncodeOidExtension, Encoding, EncodesOne, WriteTwo, IdItem, SecondItem
    <3>2. a \in ValueItem /\ b \in ValueItem
      BY <2>4, <2>6, PairTyped
    <3>. HIDE DEF a, b
    <3>3. /\ items' \in Seq(ValueItem) /\ Len(items') = 2 * (n + 1)
          /\ \A j \in 1 .. 2 * n : items'[j] = items[j]
          /\ items'[2 * (n + 1) - 1] = a /\ items'[2 * (n + 1)] = b
      <4>1. /\ 2 * n \in Nat /\ Len(items) = 2 * n
            /\ 2 * n + 1 = 2 * (n + 1) - 1 /\ 2 * n + 2 = 2 * (n + 1)
        BY <2>3
      <4>. QED
        BY <1>0, <3>1, <3>2, <4>1, TwoMore
    <3>4. \A k \in 1 .. n + 1 : EncodesOne(list[k]) /\ Pair(items', k, list[k])
      <4>. SUFFICES ASSUME NEW k \in 1 .. n + 1
                    PROVE  EncodesOne(list[k]) /\ Pair(items', k, list[k])
        OBVIOUS
      <4>1. CASE k \in 1 .. n
        <5>1. 2 * k - 1 \in 1 .. 2 * n /\ 2 * k \in 1 .. 2 * n
          BY <4>1
        <5>. QED
          BY <2>3, <3>3, <4>1, <5>1 DEF Pair
      <4>2. CASE k = n + 1
        BY <2>4, <2>6, <3>3, <4>2 DEF Pair, a, b
      <4>. QED
        BY <4>1, <4>2
    <3>5. EncoderInv'
      <4>1. value'.list = list
        BY <3>1
      <4>2. /\ n + 1 \in 0 .. Len(value'.list) /\ Len(items') = 2 * (n + 1)
            /\ \A k \in 1 .. n + 1 : EncodesOne(value'.list[k]) /\ Pair(items', k, value'.list[k])
        BY <2>4, <3>3, <3>4, <4>1
      <4>3. ~IsSingleKeyUsage(value'.list)
        BY <2>2, <4>1
      <4>. QED
        BY <4>2, <4>3 DEF EncoderInv, EncodesOne, Pair, IsSingleKeyUsage
    <3>6. HeldInv'
      BY <1>0, <3>1 DEF IInv, HeldInv, Says, SaysList, Pair, AllConsistent
    <3>. QED
      BY <1>0, <2>1, <3>1, <3>3, <3>5, <3>6 DEF IInv, TypeOK, DecoderInv
  <2>. QED
    BY <2>5, <2>6
<1>4. CASE EncodeEnd
  <2>1. pc = "encoding" /\ Len(items) = 2 * Len(list) /\ Written(ArrayItem(items))
    BY <1>4 DEF EncodeEnd
  <2>2. ~IsSingleKeyUsage(list)
    BY <2>1 DEF IInv, EncoderInv
  <2>3. \A k \in 1 .. Len(list) : EncodesOne(list[k]) /\ Pair(items, k, list[k])
    <3>1. PICK n \in 0 .. Len(list) :
            /\ Len(items) = 2 * n
            /\ \A k \in 1 .. n : EncodesOne(list[k]) /\ Pair(items, k, list[k])
      BY <2>1 DEF IInv, EncoderInv
    <3>2. n = Len(list)
      BY <1>0, <2>1, <3>1
    <3>. QED
      BY <3>1, <3>2
  <2>4. ArrayItem(items) \in WireItem
    BY <1>0, ArrayItemTyped DEF WireItem
  <2>5. Says(ArrayItem(items), list)
    <3>1. /\ ArrayItem(items).type = "array" /\ ArrayItem(items).items = items
          /\ ArrayItem(items).len = Len(items)
      BY DEF ArrayItem
    <3>. QED
      BY <2>1, <2>3, <3>1 DEF Says, SaysList
  <2>6. Encodes(list)
    <3>1. DOMAIN list = 1 .. Len(list)
      BY <1>0
    <3>. QED
      BY <2>2, <2>3, <3>1 DEF Encodes, EncodesOne
  <2>. QED
    BY <2>1, <2>4, <2>5, <2>6, WrittenInv
<1>. QED
  BY <1>1, <1>2, <1>3, <1>4 DEF Encode

\* What an item says of a consistent list decides how it is read.
LEMMA SaidAndRead ==
  ASSUME NEW list \in Seq(Extension), NEW item \in WireItem, Says(item, list)
  PROVE  /\ IsI32(item) => /\ IsSingleKeyUsage(list)
                           /\ item.int = Signed(list[1].value.uint, list[1].critical)
         /\ item.type = "array" => SaysList(item, list)
         /\ IsI32(item) \/ (item.type = "array" /\ item.len % 2 = 0)
<1>1. CASE SaysList(item, list)
  <2>1. Len(list) \in Nat
    OBVIOUS
  <2>2. \A n \in Nat : (2 * n) % 2 = 0
    OBVIOUS
  <2>. QED
    BY <1>1, <2>1, <2>2 DEF SaysList, IsI32, IsInt
<1>2. CASE /\ IsSingleKeyUsage(list) /\ IsI32(item)
           /\ item = IntItem(Signed(list[1].value.uint, list[1].critical))
  BY <1>2 DEF IntItem, IsI32, IsInt
<1>. QED
  BY <1>1, <1>2 DEF Says

\* The list that the compact form is read as.
CompactOf(raw) ==
  LET m == MagnitudeOf(raw)
  IN  <<[id |-> IntId(2), critical |-> m.critical, value |-> [kind |-> "KeyUsage", uint |-> m.n]]>>

\* The compact form is read as a list it is the item of, representable unless
\* its magnitude has no i32.
LEMMA CompactRead ==
  ASSUME NEW raw \in I32
  PROVE  LET list == CompactOf(raw)
         IN  /\ list \in Seq(Extension) /\ Says(IntItem(raw), list)
             /\ Representable(list) \/ (IsSingleKeyUsage(list) /\ list[1].value.uint \notin I32)
<1>. DEFINE m    == MagnitudeOf(raw)
            ext  == [id |-> IntId(2), critical |-> m.critical,
                     value |-> [kind |-> "KeyUsage", uint |-> m.n]]
            list == CompactOf(raw)
<1>1. raw \in Int /\ m.n = (IF raw < 0 THEN -raw ELSE raw) /\ m.critical = (raw < 0)
  BY MagnitudeFacts, IntAssumption DEF I32
<1>2. m.n \in U32 /\ m.n \in Nat /\ (m.n = 0 => ~(raw < 0))
  BY <1>1, IntAssumption DEF I32, U32
<1>3. m.critical \in BOOLEAN
  BY <1>1
<1>4. Signed(m.n, m.critical) = raw
  <2>1. CASE raw < 0
    <3>1. Signed(m.n, m.critical) = -(-raw)
      BY <1>1, <2>1 DEF Signed
    <3>. QED
      BY <1>1, <3>1
  <2>2. CASE ~(raw < 0)
    BY <1>1, <2>2 DEF Signed
  <2>. QED
    BY <2>1, <2>2
<1>5. ext.id = IntId(2) /\ ext.critical = m.critical /\ ext.value.uint = m.n
      /\ ext.value.kind = "KeyUsage"
  OBVIOUS
<1>. HIDE DEF m
<1>6. ext \in Extension
  <2>1. IntId(2) \in [form : {"int"}, int : I32]
    BY IntAssumption, RegistryAssumption DEF IntId, I32
  <2>2. ext.value \in RegisteredValue
    BY <1>2 DEF RegisteredValue, UintKinds
  <2>. QED
    BY <1>3, <2>1, <2>2 DEF Extension
<1>7. list = <<ext>>
  BY DEF CompactOf, m
<1>. HIDE DEF ext, list
<1>8. list \in Seq(Extension) /\ Len(list) = 1 /\ list[1] = ext /\ DOMAIN list = {1}
  BY <1>6, <1>7
<1>9. IsSingleKeyUsage(list)
  BY <1>5, <1>8 DEF IsSingleKeyUsage
<1>10. Says(IntItem(raw), list)
  <2>1. IsI32(IntItem(raw))
    BY DEF IsI32, IsInt, IntItem
  <2>. QED
    BY <1>4, <1>5, <1>8, <1>9, <2>1 DEF Says
<1>11. Representable(list) \/ list[1].value.uint \notin I32
  <2>. SUFFICES ASSUME list[1].value.uint \in I32 PROVE Representable(list)
    OBVIOUS
  <2>1. Consistent(list[1]) /\ ValueEncodes(list[1].value)
    BY <1>5, <1>8, <1>9, SingleShape DEF ValueEncodes, TypedKinds, PlainKinds, UintKinds
  <2>2. list[1].id # IntId(0)
    BY <1>5, <1>8 DEF IntId
  <2>3. list[1].value.uint = 0 => ~list[1].critical
    BY <1>1, <1>2, <1>5, <1>8
  <2>. QED
    BY <1>8, <2>1, <2>2, <2>3 DEF Representable
<1>. QED
  BY <1>8, <1>9, <1>10, <1>11 DEF list

\* A list in the compact form comes back, but for the criticality of a zero.
LEMMA CompactSaid ==
  ASSUME NEW list \in Seq(Extension), IsSingleKeyUsage(list)
  PROVE  LET raw == Signed(list[1].value.uint, list[1].critical)
         IN  CompactOf(raw) \in {list, UnsignedZero(list)}
<1>. DEFINE n == list[1].value.uint
            c == list[1].critical
            v == list[1].value
            m == MagnitudeOf(Signed(n, c))
<1>1. /\ DOMAIN list = {1} /\ list = <<list[1]>> /\ n \in Nat /\ c \in BOOLEAN
      /\ v = [kind |-> "KeyUsage", uint |-> n]
      /\ list[1] = [id |-> IntId(2), critical |-> c, value |-> v]
  <2>1. /\ n \in U32 /\ c \in BOOLEAN /\ DOMAIN list = {1} /\ list = <<list[1]>>
        /\ list[1] = [id |-> IntId(2), critical |-> c, value |-> [kind |-> "KeyUsage", uint |-> n]]
    BY SingleShape
  <2>2. n \in Nat
    BY <2>1, IntAssumption DEF U32
  <2>3. v = [kind |-> "KeyUsage", uint |-> n]
    BY <2>1
  <2>. QED
    BY <2>1, <2>2, <2>3
<1>2. m.n = n /\ m.critical = (c /\ n # 0)
  BY <1>1, SignInverse
<1>. HIDE DEF m
<1>3. CompactOf(Signed(n, c)) =
        <<[id |-> IntId(2), critical |-> (c /\ n # 0), value |-> [kind |-> "KeyUsage", uint |-> n]]>>
  BY <1>2, Zenon DEF CompactOf, m
<1>4. CASE n # 0
  <2>1. (c /\ n # 0) = c
    BY <1>1, <1>4
  <2>2. CompactOf(Signed(n, c)) = <<[id |-> IntId(2), critical |-> c, value |-> v]>>
    BY <1>1, <1>3, <2>1, Zenon
  <2>3. CompactOf(Signed(n, c)) = list
    BY <1>1, <2>2, Zenon
  <2>. QED
    BY <2>3
<1>5. CASE n = 0
  <2>1. (c /\ n # 0) = FALSE
    BY <1>5
  <2>2. CompactOf(Signed(n, c)) = <<[id |-> IntId(2), critical |-> FALSE, value |-> v]>>
    BY <1>1, <1>3, <2>1, Zenon
  <2>3. [list[1] EXCEPT !.critical = FALSE] = [id |-> IntId(2), critical |-> FALSE, value |-> v]
    <3>1. list[1] \in Extension /\ list[1].id = IntId(2)
      BY SingleShape DEF IsSingleKeyUsage
    <3>. QED
      BY <3>1, DropCritical
  <2>4. UnsignedZero(list) = [i \in {1} |-> [list[1] EXCEPT !.critical = FALSE]]
    BY <1>1, <1>5 DEF UnsignedZero
  <2>. DEFINE ext == [list[1] EXCEPT !.critical = FALSE]
  <2>. HIDE DEF ext
  <2>5. [i \in {1} |-> ext] = <<ext>>
    OBVIOUS
  <2>. QED
    BY <2>2, <2>3, <2>4, <2>5, Zenon DEF ext
<1>. QED
  BY <1>4, <1>5

\* A list in the array form comes back, but for the criticality of the id 0.
LEMMA UnsignedList ==
  ASSUME NEW list \in Seq(Extension), NEW read \in Seq(Extension), Len(read) = Len(list),
         \A k \in 1 .. Len(list) : read[k] = UnsignedExt(list[k])
  PROVE  read \in {list, UnsignedZero(list)}
<1>1. CASE IsSingleKeyUsage(list)
  <2>1. /\ DOMAIN list = {1} /\ list[1].id # IntId(0) /\ Len(list) = 1
        /\ list = <<list[1]>> /\ list[1] \in Extension
    BY <1>1, SingleShape DEF IntId, IsSingleKeyUsage
  <2>2. read[1] = list[1]
    BY <2>1 DEF UnsignedExt
  <2>3. read = <<list[1]>>
    BY <2>1, <2>2, Singleton
  <2>. QED
    BY <2>1, <2>3
<1>2. CASE ~IsSingleKeyUsage(list)
  <2>1. UnsignedZero(list) = [k \in DOMAIN list |-> UnsignedExt(list[k])]
    BY <1>2 DEF UnsignedZero, UnsignedExt
  <2>2. read = [k \in DOMAIN list |-> UnsignedExt(list[k])]
    OBVIOUS
  <2>. QED
    BY <2>1, <2>2
<1>. QED
  BY <1>1, <1>2

\* A decoder that ends holds a list that the item says, if anything does.
LEMMA HeldInvariant ==
  ASSUME IInv, pc \in {"decode", "decoding"}, NEW list \in Seq(Extension),
         AllConsistent(list) => Says(wire, list), Held(list)
  PROVE  IInv' /\ wire' = wire /\ value' = List(list) /\ pc' = "encode"
<1>1. /\ value' = List(list) /\ pc' = "encode" /\ UNCHANGED <<wire, items, exts>>
      /\ wire # NoWire
  BY DEF Held, IInv, HeldInv
<1>2. List(list) \in Value /\ value' # NoValue /\ value'.list = list
  BY <1>1 DEF List, Value, NoValue
<1>3. AllConsistent(value'.list) => Says(wire', value'.list)
  BY <1>1, <1>2
<1>4. HeldInv'
  BY <1>1, <1>2, <1>3 DEF HeldInv, Says, SaysList, Pair, AllConsistent
<1>. QED
  BY <1>1, <1>2, <1>4 DEF IInv, TypeOK, EncoderInv, DecoderInv

\* A decoder that stops refuses an item that says no consistent list.
LEMMA RefusedInv ==
  ASSUME IInv, Refuse
  PROVE  IInv' /\ wire' = wire /\ value' = value /\ pc' = "refused"
<1>1. pc' = "refused" /\ UNCHANGED <<value, wire, items, exts>>
  BY DEF Refuse
<1>2. HeldInv'
  BY <1>1 DEF IInv, HeldInv, Says, SaysList, Pair, AllConsistent
<1>. QED
  BY <1>1, <1>2 DEF IInv, TypeOK, EncoderInv, DecoderInv

\* One more extension that the next two items say, if anything says it.
LEMMA PushInv ==
  ASSUME IInv, Decoding, NEW ext \in Extension, Push(ext), HasPart(1), HasPart(2),
         ReadAs(ext), Consistent(ext) => Part(1) = IdItem(ext) /\ Part(2) = SecondItem(ext),
         value # NoValue /\ AllConsistent(value.list) =>
           ext = UnsignedExt(value.list[Len(exts) + 1])
  PROVE  IInv' /\ wire' = wire /\ value' = value /\ pc' = "decoding"
<1>. DEFINE n == Len(exts)
<1>1. /\ pc = "decoding" /\ exts' = Append(exts, ext) /\ UNCHANGED <<pc, value, wire, items>>
      /\ exts \in Seq(Extension) /\ n \in Nat /\ wire # NoWire /\ wire \in WireItem
      /\ wire.type = "array" /\ wire.len % 2 = 0
  BY DEF Decoding, Push, IInv, TypeOK, HeldInv, DecoderInv
<1>2. Len(wire.items) \in Nat
  BY <1>1, WireShape
<1>3. /\ exts' \in Seq(Extension) /\ Len(exts') = n + 1 /\ exts'[n + 1] = ext
      /\ \A k \in 1 .. n : exts'[k] = exts[k]
  BY <1>1
<1>4. 2 * (n + 1) <= Len(wire.items)
  BY <1>1, <1>2 DEF HasPart, HasElement
<1>5. Consistent(ext) => Pair(wire.items, n + 1, ext)
  <2>1. 2 * (n + 1) - 1 = 2 * n + 1 /\ 2 * (n + 1) = 2 * n + 2
    BY <1>1
  <2>. QED
    BY <2>1 DEF Part, Pair
<1>6. n \in Nat
  BY <1>1
<1>. HIDE DEF n
<1>7. \A k \in 1 .. n + 1 :
        ReadAs(exts'[k]) /\ (Consistent(exts'[k]) => Pair(wire.items, k, exts'[k]))
  <2>. SUFFICES ASSUME NEW k \in 1 .. n + 1
                PROVE  ReadAs(exts'[k]) /\ (Consistent(exts'[k]) => Pair(wire.items, k, exts'[k]))
    OBVIOUS
  <2>1. CASE k = n + 1
    BY <1>3, <1>5, <2>1
  <2>2. CASE k \in 1 .. n
    BY <1>1, <1>3, <2>2 DEF IInv, DecoderInv, n
  <2>3. k = n + 1 \/ k \in 1 .. n
    BY <1>6
  <2>. QED
    BY <2>1, <2>2, <2>3
<1>8. value # NoValue /\ AllConsistent(value.list) =>
        \A k \in 1 .. n + 1 : exts'[k] = UnsignedExt(value.list[k])
  <2>. SUFFICES ASSUME value # NoValue, AllConsistent(value.list), NEW k \in 1 .. n + 1
                PROVE  exts'[k] = UnsignedExt(value.list[k])
    OBVIOUS
  <2>1. CASE k = n + 1
    BY <1>3, <2>1 DEF n
  <2>2. CASE k \in 1 .. n
    BY <1>1, <1>3, <2>2 DEF IInv, DecoderInv, n
  <2>3. k = n + 1 \/ k \in 1 .. n
    BY <1>6
  <2>. QED
    BY <2>1, <2>2, <2>3
<1>9. DecoderInv'
  <2>1. 2 * Len(exts') <= Len(wire'.items) /\ wire'.type = "array" /\ wire'.len % 2 = 0
    BY <1>1, <1>3, <1>4
  <2>2. \A k \in 1 .. Len(exts') :
          ReadAs(exts'[k]) /\ (Consistent(exts'[k]) => Pair(wire'.items, k, exts'[k]))
    BY <1>1, <1>3, <1>7
  <2>3. value' # NoValue /\ AllConsistent(value'.list) =>
          \A k \in 1 .. Len(exts') : exts'[k] = UnsignedExt(value'.list[k])
    BY <1>1, <1>3, <1>8
  <2>. QED
    BY <2>1, <2>2, <2>3 DEF DecoderInv, AllConsistent, Pair
<1>10. HeldInv'
  BY <1>1 DEF IInv, HeldInv, Says, SaysList, Pair, AllConsistent
<1>. QED
  BY <1>1, <1>3, <1>9, <1>10 DEF IInv, TypeOK, EncoderInv

\* The next two items of a held consistent list are its next extension.
LEMMA HeldParts ==
  ASSUME IInv, Decoding, value # NoValue, AllConsistent(value.list)
  PROVE  LET held == value.list[Len(exts) + 1]
         IN  /\ held \in Extension /\ Consistent(held)
             /\ HasPart(1) /\ HasPart(2)
             /\ Part(1) = IdItem(held) /\ Part(2) = SecondItem(held)
<1>. DEFINE n    == Len(exts)
            list == value.list
<1>1. /\ n \in Nat /\ value \in Value /\ wire \in WireItem /\ wire # NoWire
      /\ wire.type = "array" /\ n < wire.len \div 2 /\ Says(wire, list)
  BY DEF Decoding, IInv, TypeOK, HeldInv, DecoderInv
<1>2. SaysList(wire, list) /\ list \in Seq(Extension)
  BY <1>1, SaidAndRead, ValueShape
<1>3. /\ wire.len = 2 * Len(list) /\ Len(wire.items) = 2 * Len(list)
      /\ \A k \in 1 .. Len(list) : Pair(wire.items, k, list[k])
  BY <1>2 DEF SaysList
<1>4. Len(list) \in Nat
  BY <1>2
<1>5. \A m, k \in Nat : k < (2 * m) \div 2 =>
        /\ k + 1 \in 1 .. m /\ 2 * k + 2 <= 2 * m /\ 2 * k + 1 <= 2 * m
        /\ 2 * (k + 1) - 1 = 2 * k + 1 /\ 2 * (k + 1) = 2 * k + 2
  OBVIOUS
<1>6. /\ n + 1 \in 1 .. Len(list)
      /\ 2 * n + 2 <= 2 * Len(list) /\ 2 * n + 1 <= 2 * Len(list)
      /\ 2 * (n + 1) - 1 = 2 * n + 1 /\ 2 * (n + 1) = 2 * n + 2
  BY <1>1, <1>3, <1>4, <1>5
<1>7. list[n + 1] \in Extension /\ n + 1 \in DOMAIN list
  BY <1>2, <1>6
<1>8. Consistent(list[n + 1])
  BY <1>7 DEF AllConsistent
<1>9. Pair(wire.items, n + 1, list[n + 1])
  BY <1>3, <1>6
<1>. QED
  BY <1>3, <1>6, <1>7, <1>8, <1>9 DEF HasPart, HasElement, Part, Pair

\* The parts the decoder reads are items.
LEMMA PartsTyped ==
  ASSUME IInv, Decoding
  PROVE  /\ HasPart(1) => Part(1) \in ValueItem
         /\ HasPart(2) => Part(2) \in ValueItem
<1>1. /\ Len(exts) \in Nat /\ wire \in WireItem /\ wire.type = "array"
  BY DEF Decoding, IInv, TypeOK, HeldInv, DecoderInv, NoWire
<1>2. wire.items \in Seq(ValueItem)
  BY <1>1, WireShape
<1>. QED
  BY <1>1, <1>2 DEF HasPart, HasElement, Part

\* What decoding may do to a consistent list that is held.
KeepsHeld ==
  value # NoValue /\ AllConsistent(value.list) =>
    /\ value' \in {value, List(UnsignedZero(value.list))}
    /\ pc' # "refused"

\* What decoding may return to a caller without a list.
ReadsWell ==
  pc' = "encode" => Representable(value'.list) \/ KnownMisfit(value'.list)

\* Decoding keeps the item and a consistent list that is held, and what it
\* returns is representable or one of the known misfits.
LEMMA DecodeInvariant ==
  ASSUME IInv, Decode
  PROVE  /\ IInv' /\ wire' = wire /\ pc' # "panicked"
         /\ pc \in {"decode", "decoding"} /\ (pc' # "encode" => value' = value)
         /\ KeepsHeld /\ ReadsWell
<1>0. /\ pc \in {"decode", "decoding"} /\ wire \in WireItem /\ wire # NoWire
      /\ value \in Value \cup {NoValue} /\ exts \in Seq(Extension)
      /\ value # NoValue => /\ value \in Value /\ value.list \in Seq(Extension)
                            /\ value = List(value.list)
      /\ value # NoValue /\ AllConsistent(value.list) => Says(wire, value.list)
  <2>1. pc \in {"decode", "decoding"}
    BY DEF Decode, DecodeCompact, DecodeArray, DecodeRefuse, DecodeExtension,
           DecodeOidExtension, RefuseExtension, DecodeEnd, Decoding
  <2>. QED
    BY <2>1, ValueShape DEF IInv, HeldInv, TypeOK
<1>1. CASE DecodeCompact
  <2>. DEFINE list == CompactOf(wire.int)
  <2>1. pc = "decode" /\ IsI32(wire) /\ Held(list)
    BY <1>1 DEF DecodeCompact, CompactOf
  <2>2. wire.int \in I32 /\ wire = IntItem(wire.int)
    BY <1>0, <2>1, WireShape DEF IsI32, IsInt
  <2>3. /\ list \in Seq(Extension) /\ Says(wire, list)
        /\ Representable(list) \/ (IsSingleKeyUsage(list) /\ list[1].value.uint \notin I32)
    BY <2>2, CompactRead
  <2>4. ASSUME value # NoValue, AllConsistent(value.list)
        PROVE  list \in {value.list, UnsignedZero(value.list)}
    <3>1. /\ IsSingleKeyUsage(value.list)
          /\ wire.int = Signed(value.list[1].value.uint, value.list[1].critical)
      BY <1>0, <2>1, <2>4, SaidAndRead
    <3>. QED
      BY <1>0, <2>4, <3>1, CompactSaid
  <2>. HIDE DEF list
  <2>5. IInv' /\ wire' = wire /\ value' = List(list) /\ pc' = "encode"
    BY <1>0, <2>1, <2>3, HeldInvariant
  <2>6. value'.list = list
    BY <2>5 DEF List
  <2>7. Representable(list) \/ KnownMisfit(list)
    BY <2>3 DEF KnownMisfit
  <2>. QED
    BY <1>0, <2>4, <2>5, <2>6, <2>7 DEF KeepsHeld, ReadsWell
<1>2. CASE DecodeArray
  <2>1. /\ pc = "decode" /\ wire.type = "array" /\ wire.len % 2 = 0
        /\ exts' = <<>> /\ pc' = "decoding" /\ UNCHANGED <<value, wire, items>>
    BY <1>2 DEF DecodeArray
  <2>2. Len(wire.items) \in Nat
    BY <1>0, <2>1, WireShape
  <2>3. DecoderInv'
    <3>1. Len(exts') = 0 /\ 0 <= Len(wire'.items) /\ wire'.type = "array" /\ wire'.len % 2 = 0
      BY <2>1, <2>2
    <3>. QED
      BY <3>1 DEF DecoderInv
  <2>4. HeldInv'
    BY <1>0, <2>1 DEF IInv, HeldInv, Says, SaysList, Pair, AllConsistent
  <2>. QED
    BY <1>0, <2>1, <2>3, <2>4 DEF IInv, TypeOK, EncoderInv, KeepsHeld, ReadsWell
<1>3. CASE DecodeRefuse
  <2>1. Refuse /\ ~IsI32(wire) /\ (wire.type = "array" => wire.len % 2 = 1)
    BY <1>3 DEF DecodeRefuse
  <2>2. ~(value # NoValue /\ AllConsistent(value.list))
    BY <1>0, <2>1, SaidAndRead
  <2>. QED
    BY <1>0, <2>1, <2>2, RefusedInv DEF KeepsHeld, ReadsWell
<1>4. CASE DecodeExtension
  <2>. DEFINE ext == RegisteredOf(Part(1), Part(2))
  <2>1. /\ Decoding /\ HasPart(1) /\ HasPart(2) /\ Push(ext)
        /\ AcceptsRegistered(Part(1), Part(2))
    BY <1>4 DEF DecodeExtension, ReadsRegistered, AcceptsRegistered, RegisteredOf
  <2>2. Part(1) \in ValueItem /\ Part(2) \in ValueItem
    BY <2>1, PartsTyped
  <2>3. /\ ext \in Extension /\ ReadAs(ext)
        /\ Consistent(ext) => IdItem(ext) = Part(1) /\ SecondItem(ext) = Part(2)
    BY <2>1, <2>2, ReadRegisteredInverse
  <2>4. ASSUME value # NoValue, AllConsistent(value.list)
        PROVE  ext = UnsignedExt(value.list[Len(exts) + 1])
    <3>. DEFINE held == value.list[Len(exts) + 1]
    <3>1. /\ held \in Extension /\ Consistent(held)
          /\ Part(1) = IdItem(held) /\ Part(2) = SecondItem(held)
      BY <2>1, <2>4, HeldParts
    <3>. HIDE DEF held
    <3>2. held.id.form = "int"
      BY <2>1, <3>1, ExtensionShape, PairIsRead
    <3>3. ext = UnsignedExt(held)
      BY <3>1, <3>2, PairIsRead
    <3>. QED
      BY <3>3 DEF held
  <2>. HIDE DEF ext
  <2>5. IInv' /\ wire' = wire /\ value' = value /\ pc' = "decoding"
    BY <2>1, <2>3, <2>4, PushInv
  <2>. QED
    BY <1>0, <2>5 DEF KeepsHeld, ReadsWell
<1>5. CASE DecodeOidExtension
  <2>. DEFINE ext == ByOidOf(Part(1), Part(2))
  <2>1. /\ Decoding /\ HasPart(1) /\ HasPart(2) /\ Push(ext)
        /\ AcceptsByOid(Part(1), Part(2))
    BY <1>5, Zenon DEF DecodeOidExtension, ReadsByOid, AcceptsByOid, ByOidOf
  <2>2. Part(1) \in ValueItem /\ Part(2) \in ValueItem
    BY <2>1, PartsTyped
  <2>3. /\ ext \in Extension /\ ReadAs(ext)
        /\ IdItem(ext) = Part(1) /\ SecondItem(ext) = Part(2)
    BY <2>1, <2>2, ReadByOidInverse
  <2>4. ASSUME value # NoValue, AllConsistent(value.list)
        PROVE  ext = UnsignedExt(value.list[Len(exts) + 1])
    <3>. DEFINE held == value.list[Len(exts) + 1]
    <3>1. /\ held \in Extension /\ Consistent(held)
          /\ Part(1) = IdItem(held) /\ Part(2) = SecondItem(held)
      BY <2>1, <2>4, HeldParts
    <3>. HIDE DEF held
    <3>2. held.id.form = "oid"
      BY <2>1, <3>1, ExtensionShape, PairIsRead
    <3>3. ext = UnsignedExt(held)
      BY <3>1, <3>2, PairIsRead
    <3>. QED
      BY <3>3 DEF held
  <2>. HIDE DEF ext
  <2>5. IInv' /\ wire' = wire /\ value' = value /\ pc' = "decoding"
    BY <2>1, <2>3, <2>4, PushInv
  <2>. QED
    BY <1>0, <2>5 DEF KeepsHeld, ReadsWell
<1>6. CASE RefuseExtension
  <2>1. Decoding /\ ~ReadsRegistered /\ ~ReadsByOid /\ Refuse
    BY <1>6 DEF RefuseExtension
  <2>2. ASSUME value # NoValue, AllConsistent(value.list) PROVE FALSE
    <3>. DEFINE held == value.list[Len(exts) + 1]
    <3>1. /\ held \in Extension /\ Consistent(held) /\ HasPart(1) /\ HasPart(2)
          /\ Part(1) = IdItem(held) /\ Part(2) = SecondItem(held)
      BY <2>1, <2>2, HeldParts
    <3>2. ~AcceptsRegistered(Part(1), Part(2)) /\ ~AcceptsByOid(Part(1), Part(2))
      BY <2>1, <3>1 DEF ReadsRegistered, ReadsByOid, AcceptsRegistered, AcceptsByOid
    <3>. HIDE DEF held
    <3>. QED
      BY <3>1, <3>2, ExtensionShape, PairIsRead
  <2>. QED
    BY <1>0, <2>1, <2>2, RefusedInv DEF KeepsHeld, ReadsWell
<1>7. CASE DecodeEnd
  <2>1. /\ pc = "decoding" /\ Len(exts) = wire.len \div 2 /\ Held(exts)
        /\ wire.type = "array" /\ wire.len % 2 = 0 /\ 2 * Len(exts) <= Len(wire.items)
        /\ \A k \in 1 .. Len(exts) :
             ReadAs(exts[k]) /\ (Consistent(exts[k]) => Pair(wire.items, k, exts[k]))
    BY <1>7 DEF DecodeEnd, IInv, DecoderInv
  <2>2. wire.len \in Nat /\ Len(wire.items) \in Nat /\ Len(wire.items) <= wire.len
    BY <1>0, <2>1, WireShape
  <2>3. wire.len = 2 * Len(exts) /\ Len(wire.items) = 2 * Len(exts) /\ Len(exts) \in Nat
    <3>1. \A m \in Nat : m % 2 = 0 => m = 2 * (m \div 2)
      OBVIOUS
    <3>2. Len(exts) \in Nat
      BY <1>0
    <3>. QED
      BY <2>1, <2>2, <3>1, <3>2
  <2>4. DOMAIN exts = 1 .. Len(exts)
    BY <1>0
  <2>5. AllConsistent(exts) => Says(wire, exts)
    <3>. SUFFICES ASSUME AllConsistent(exts) PROVE SaysList(wire, exts)
      BY DEF Says
    <3>. QED
      BY <2>1, <2>3, <2>4 DEF SaysList, AllConsistent
  <2>6. ASSUME value # NoValue, AllConsistent(value.list)
        PROVE  exts \in {value.list, UnsignedZero(value.list)}
    <3>1. SaysList(wire, value.list) /\ value.list \in Seq(Extension)
      BY <1>0, <2>1, <2>6, SaidAndRead
    <3>2. Len(value.list) = Len(exts)
      <4>1. 2 * Len(value.list) = 2 * Len(exts)
        BY <2>3, <3>1 DEF SaysList
      <4>2. Len(value.list) \in Nat
        BY <3>1
      <4>. QED
        BY <2>3, <4>1, <4>2
    <3>3. \A k \in 1 .. Len(exts) : exts[k] = UnsignedExt(value.list[k])
      BY <2>1, <2>6 DEF IInv, DecoderInv
    <3>. QED
      BY <1>0, <3>1, <3>2, <3>3, UnsignedList
  <2>7. Representable(exts) \/ KnownMisfit(exts)
    <3>. SUFFICES ASSUME ~KnownMisfit(exts) PROVE Representable(exts)
      OBVIOUS
    <3>1. ASSUME NEW i \in DOMAIN exts
          PROVE  /\ Consistent(exts[i]) /\ ValueEncodes(exts[i].value)
                 /\ exts[i].id = IntId(0) => ~exts[i].critical
      <4>1. ReadAs(exts[i])
        BY <2>1, <2>4
      <4>2. ~(exts[i].id = IntId(I32Min) /\ exts[i].critical)
        BY DEF KnownMisfit, NumberOf, IntId
      <4>. QED
        BY <4>1, <4>2 DEF ReadAs
    <3>2. IsSingleKeyUsage(exts) =>
            /\ exts[1].value.uint \in I32
            /\ exts[1].value.uint = 0 => ~exts[1].critical
      BY <2>1 DEF KnownMisfit
    <3>. QED
      BY <3>1, <3>2 DEF Representable
  <2>8. IInv' /\ wire' = wire /\ value' = List(exts) /\ pc' = "encode"
    BY <1>0, <2>1, <2>5, HeldInvariant
  <2>9. value'.list = exts
    BY <2>8 DEF List
  <2>. QED
    BY <1>0, <2>6, <2>7, <2>8, <2>9 DEF KeepsHeld, ReadsWell
<1>. QED
  BY <1>1, <1>2, <1>3, <1>4, <1>5, <1>6, <1>7 DEF Decode

-----------------------------------------------------------------------------
\* Every step keeps the invariant.
LEMMA StepInv == IInv /\ [Next]_vars => IInv'
<1>. SUFFICES ASSUME IInv, [Next]_vars PROVE IInv'
  OBVIOUS
<1>1. CASE Next
  BY <1>1, EncodeInvariant, DecodeInvariant DEF Next
<1>2. CASE UNCHANGED vars
  BY <1>2
  DEF vars, IInv, TypeOK, EncoderInv, DecoderInv, HeldInv, Says, SaysList, Pair, AllConsistent
<1>. QED
  BY <1>1, <1>2

\* The inductive invariant: the item says the list, wherever the two loops
\* are, for the lists that anything says.
THEOREM Invariance == Spec => []IInv
BY InitInv, StepInv, PTL DEF Spec

\* Every variable keeps its type: above all the id that Extensions::decode
\* casts from a u32 magnitude is an i32, whatever a peer sends.
THEOREM TypeCorrect == Spec => []TypeOK
BY Invariance, PTL DEF IInv

\* A representable list survives any number of round trips: it never changes,
\* is never refused, and C509Certificate::encode does not panic on it.
THEOREM RepresentableSurvives == Spec => RepresentableIsLossless
<1>1. IInv /\ [Next]_vars =>
        [value # NoValue /\ Representable(value.list)
           => value' = value /\ pc' \notin {"refused", "panicked"}]_vars
  <2>. SUFFICES ASSUME IInv, Next, value # NoValue, Representable(value.list)
                PROVE  value' = value /\ pc' \notin {"refused", "panicked"}
    OBVIOUS
  <2>1. /\ AllConsistent(value.list) /\ Encodes(value.list)
        /\ List(UnsignedZero(value.list)) = value
    BY RepresentableFacts, ValueShape DEF IInv, TypeOK
  <2>2. CASE Encode
    BY <2>1, <2>2, EncodeInvariant
  <2>3. CASE Decode
    BY <2>1, <2>3, DecodeInvariant DEF KeepsHeld
  <2>. QED
    BY <2>2, <2>3 DEF Next
<1>. QED
  BY <1>1, Invariance, PTL DEF Spec, RepresentableIsLossless

\* No extension of a consistent list ever gains or loses criticality, except
\* that the sign of a zero is lost.
THEOREM OnlyZeroLosesCriticality == Spec => CriticalityOnlyLostAtZero
<1>1. IInv /\ [Next]_vars =>
        [value # NoValue /\ (\A i \in DOMAIN value.list : Consistent(value.list[i]))
           => value' \in {value, List(UnsignedZero(value.list))}]_vars
  <2>. SUFFICES ASSUME IInv, Next, value # NoValue, AllConsistent(value.list)
                PROVE  value' \in {value, List(UnsignedZero(value.list))}
    BY DEF AllConsistent
  <2>. QED
    BY EncodeInvariant, DecodeInvariant DEF Next, KeepsHeld
<1>. QED
  BY <1>1, Invariance, PTL DEF Spec, CriticalityOnlyLostAtZero

\* Encoding panics for the lists that Encodes excludes and for no other, which
\* is what the certificate and the converters are told of extension lists.
THEOREM EncodingIsPredicted == Spec => EncodesAsPredicted
<1>1. IInv /\ [Next]_vars =>
        [/\ pc' = "panicked" => ~Encodes(value.list)
         /\ pc \in {"encode", "encoding"} /\ pc' = "decode" => Encodes(value.list)]_vars
  <2>. SUFFICES ASSUME IInv, Next
                PROVE  /\ pc' = "panicked" => ~Encodes(value.list)
                       /\ pc \in {"encode", "encoding"} /\ pc' = "decode" => Encodes(value.list)
    OBVIOUS
  <2>. QED
    BY EncodeInvariant, DecodeInvariant DEF Next
<1>. QED
  BY <1>1, Invariance, PTL DEF Spec, EncodesAsPredicted

\* A list that is accepted from a peer is representable or a known misfit:
\* written again, any other comes back with its criticality.
THEOREM ReadIsSound == Spec => ReadIsRepresentable
<1>1. IInv /\ [Next]_vars =>
        [value = NoValue /\ value' # NoValue
           => Representable(value'.list) \/ KnownMisfit(value'.list)]_vars
  <2>. SUFFICES ASSUME IInv, Next, value = NoValue, value' # NoValue
                PROVE  Representable(value'.list) \/ KnownMisfit(value'.list)
    OBVIOUS
  <2>. QED
    BY EncodeInvariant, DecodeInvariant DEF Next, ReadsWell
<1>. QED
  BY <1>1, Invariance, PTL DEF Spec, ReadIsRepresentable
=============================================================================
