------------------------- MODULE CertificateProofs -------------------------
(***************************************************************************)
(* Proofs about Certificate and its text, Mirror, for every range of times *)
(* and integers, every set of names and extension lists with any loss that *)
(* happens once, every caller's certificate, every input of a peer and     *)
(* every document somebody else may write.                                 *)
(*                                                                         *)
(* The argument for Certificate: once a certificate and bytes are there,   *)
(* either each item of the bytes is what its field was read from, or each  *)
(* is what its field was written as, in both forms behind the header, if   *)
(* there is one.  While the encoder runs, this holds of the fields it has  *)
(* written; while the decoder runs, of those it has read.                  *)
(*                                                                         *)
(* The argument for Mirror: a document that this program wrote is the text *)
(* of the certificate that is held, and reading the text of a field        *)
(* returns the field.  A document of others is there only before anything  *)
(* is held.  So what from_str returns is either what was held or new, and  *)
(* the invariant of Certificate goes on.                                   *)
(***************************************************************************)
EXTENDS Mirror, CommonProofs

(* First the codecs of the fields, one fact for each direction: what is    *)
(* written is accepted and read as what arrives of it; what is accepted is *)
(* read as a value of the field's type, written again as the same item but *)
(* for what the properties of Certificate name.                            *)

Codecs == {"i32", "biguint", "algorithm", "name", "optional name", "time",
           "optional time", "bytes", "extensions"}

\* What arrives of a field.
ArrivingField(codec, v) ==
  CASE codec \in {"time", "optional time"} -> IF v = None THEN None ELSE Time(v.secs, FALSE)
    [] codec \in {"name", "optional name"} -> IF v = None THEN None ELSE NameOf(NameWritten[v.content])
    [] codec = "extensions" -> ExtensionsOf(ExtWritten[v.content])
    [] OTHER -> v

\* What an item is written as after it was read.
RewrittenItem(codec, item) ==
  CASE codec = "biguint"    -> BytesItem(ToBytesBe(FromBytesBe(item.bytes)))
    [] codec = "extensions" -> OpaqueItem("extensions", ExtWritten[item.content])
    [] OTHER -> item

-----------------------------------------------------------------------------
(* The shapes of the values and the items                                  *)

LEMMA AlgorithmShape ==
  ASSUME NEW a \in AlgorithmIdentifier
  PROVE  /\ a.kind \in {"int", "oid", "oid_parameters"}
         /\ a.kind = "int" => a.int \in I32 /\ a.int \in Int /\ a = AlgInt(a.int)
         /\ a.kind = "oid" => a.oid \in Oids /\ a.oid \in Seq(Octet) /\ a = AlgOid(a.oid)
         /\ a.kind = "oid_parameters" =>
              /\ a.oid \in Oids /\ a.oid \in Seq(Octet) /\ a.parameters \in Seq(Octet)
              /\ a = AlgOidParameters(a.oid, a.parameters)
BY OidsAssumption, IntAssumption
   DEF AlgorithmIdentifier, AlgInt, AlgOid, AlgOidParameters, I32

LEMMA TimeShape ==
  ASSUME NEW t \in OffsetDateTime
  PROVE  /\ t # None /\ t.secs \in Int /\ t.secs <= TimeMax /\ t.fraction \in BOOLEAN
         /\ t = Time(t.secs, t.fraction)
BY TimeAssumption DEF OffsetDateTime, Time, None

LEMMA NameShape ==
  ASSUME NEW n \in TypeOf("name")
  PROVE  /\ n # None /\ n.content \in NameContents /\ n = NameOf(n.content)
         /\ NameWritten[n.content] \in NameContents
         /\ NameWritten[NameWritten[n.content]] = NameWritten[n.content]
BY WrittenAssumption DEF TypeOf, NameOf, None

\* An item that a name or an extension list is.
LEMMA OpaqueShape ==
  ASSUME NEW item \in FieldItem
  PROVE  /\ IsOpaque(item, "name") =>
              \E c \in NameContents : item = OpaqueItem("name", NameWritten[c])
         /\ IsOpaque(item, "extensions") =>
              \E c \in ExtContents : item = OpaqueItem("extensions", c)
         /\ item.type # "opaque" => item \in Nested1
         /\ item.type \in {"int", "bytes", "text", "tag", "null", "array", "array_indef", "opaque"}
<1>1. CASE item \in Leaf
  BY <1>1, LeafShape DEF IsOpaque, Nested1
<1>2. CASE item \in ArrayOf(Leaf)
  BY <1>2, ArrayShape DEF IsOpaque, Nested1
<1>3. CASE item \in [type : {"opaque"}, codec : {"name"},
                      content : {NameWritten[c] : c \in NameContents}]
  BY <1>3 DEF IsOpaque, OpaqueItem
<1>4. CASE item \in [type : {"opaque"}, codec : {"extensions"}, content : ExtContents]
  BY <1>4 DEF IsOpaque, OpaqueItem
<1>. QED
  BY <1>1, <1>2, <1>3, <1>4 DEF FieldItem, Nested1
-----------------------------------------------------------------------------
(* Both directions                                                         *)

\* An algorithm identifier comes back from the item it was written as.
LEMMA AlgorithmInverse ==
  ASSUME NEW a \in AlgorithmIdentifier
  PROVE  /\ AlgorithmItem(a) \in Nested1
         /\ ReadsAlgorithm(AlgorithmItem(a))
         /\ AlgorithmRead(AlgorithmItem(a)) = a
<1>1. CASE a.kind = "int"
  <2>1. AlgorithmItem(a) = IntItem(a.int)
    BY <1>1 DEF AlgorithmItem
  <2>2. a.int \in I32 /\ a.int \in Int /\ a = AlgInt(a.int)
    BY <1>1, AlgorithmShape
  <2>. QED
    BY <2>1, <2>2
       DEF ReadsAlgorithm, ReadsI32, AlgorithmRead, IsInt, IsBytes, IntItem, Nested1, Leaf
<1>2. CASE a.kind = "oid"
  <2>1. AlgorithmItem(a) = BytesItem(a.oid)
    BY <1>2 DEF AlgorithmItem
  <2>2. a.oid \in Oids /\ a.oid \in Seq(Octet) /\ a = AlgOid(a.oid)
    BY <1>2, AlgorithmShape
  <2>. QED
    BY <2>1, <2>2
       DEF ReadsAlgorithm, ReadsOid, AlgorithmRead, IsInt, IsBytes, BytesItem, Nested1, Leaf
<1>3. CASE a.kind = "oid_parameters"
  <2>. DEFINE parts == <<BytesItem(a.oid), BytesItem(a.parameters)>>
              item  == ArrayItem(parts)
  <2>1. AlgorithmItem(a) = item
    BY <1>3 DEF AlgorithmItem
  <2>2. /\ a.oid \in Oids /\ a.oid \in Seq(Octet) /\ a.parameters \in Seq(Octet)
        /\ a = AlgOidParameters(a.oid, a.parameters)
    BY <1>3, AlgorithmShape
  <2>3. BytesItem(a.oid) \in Leaf /\ BytesItem(a.parameters) \in Leaf
    BY <2>2 DEF BytesItem, Leaf
  <2>4. parts \in Seq(Leaf) /\ Len(parts) = 2
    BY <2>3
  <2>5. item \in ArrayOf(Leaf)
    BY <2>4, ArrayItemTyped
  <2>6. item.type = "array" /\ item.len = 2 /\ item.items = parts
    BY <2>4 DEF ArrayItem
  <2>7. parts[1] = BytesItem(a.oid) /\ parts[2] = BytesItem(a.parameters)
    OBVIOUS
  <2>8. /\ parts[1].type = "bytes" /\ parts[1].bytes = a.oid
        /\ parts[2].type = "bytes" /\ parts[2].bytes = a.parameters
    BY <2>7 DEF BytesItem
  <2>. HIDE DEF item, parts
  <2>9. ReadsAlgorithm(item)
    <3>1. ReadsOid(parts[1]) /\ IsBytes(parts[2])
      BY <2>2, <2>8 DEF ReadsOid, IsBytes
    <3>2. HasElement(item, 2)
      <4>1. item.len = 2 /\ Len(item.items) = 2
        BY <2>4, <2>6
      <4>. QED
        BY <4>1 DEF HasElement
    <3>. QED
      BY <2>6, <3>1, <3>2 DEF ReadsAlgorithm
  <2>10. AlgorithmRead(item) = a
    BY <2>2, <2>6, <2>8 DEF AlgorithmRead, IsInt, IsBytes
  <2>. QED
    BY <2>1, <2>5, <2>9, <2>10 DEF Nested1
<1>. QED
  BY <1>1, <1>2, <1>3, AlgorithmShape

\* What is read as an algorithm identifier is one, and written as it was.
LEMMA AlgorithmReadInverse ==
  ASSUME NEW item \in FieldItem, ReadsAlgorithm(item)
  PROVE  /\ AlgorithmRead(item) \in AlgorithmIdentifier
         /\ AlgorithmItem(AlgorithmRead(item)) = item
<1>0. item.type \in {"int", "bytes", "array"} /\ item \in Nested1
  BY OpaqueShape DEF ReadsAlgorithm, ReadsI32, ReadsOid, IsInt, IsBytes
<1>1. CASE item.type = "int"
  <2>1. item \in Leaf
    BY <1>0, <1>1, ArrayShape DEF Nested1
  <2>2. item.int \in I32 /\ item = IntItem(item.int)
    BY <1>1, <2>1, LeafShape DEF ReadsAlgorithm, ReadsI32, ReadsOid, IsInt, IsBytes
  <2>3. AlgorithmRead(item) = AlgInt(item.int)
    BY <1>1 DEF AlgorithmRead, IsInt, IsBytes
  <2>. QED
    BY <2>2, <2>3 DEF AlgInt, AlgorithmItem, AlgorithmIdentifier
<1>2. CASE item.type = "bytes"
  <2>1. item \in Leaf
    BY <1>0, <1>2, ArrayShape DEF Nested1
  <2>2. item.bytes \in Oids /\ item = BytesItem(item.bytes)
    BY <1>2, <2>1, LeafShape DEF ReadsAlgorithm, ReadsI32, ReadsOid, IsInt, IsBytes
  <2>3. AlgorithmRead(item) = AlgOid(item.bytes)
    BY <1>2 DEF AlgorithmRead, IsInt, IsBytes
  <2>. QED
    BY <2>2, <2>3 DEF AlgOid, AlgorithmItem, AlgorithmIdentifier
<1>3. CASE item.type = "array"
  <2>. DEFINE oid == item.items[1].bytes
              parameters == item.items[2].bytes
  <2>1. item \in ArrayOf(Leaf)
    BY <1>0, <1>3, LeafShape DEF Nested1
  <2>2. /\ item.len = 2 /\ HasElement(item, 2)
        /\ ReadsOid(item.items[1]) /\ IsBytes(item.items[2])
    BY <1>3 DEF ReadsAlgorithm, ReadsI32, ReadsOid, IsInt, IsBytes
  <2>3. /\ item.items \in Seq(Leaf) /\ Len(item.items) = 2
        /\ item = [type |-> "array", len |-> item.len, items |-> item.items]
    <3>. DEFINE n == Len(item.items)
    <3>1. /\ item.items \in Seq(Leaf) /\ n <= item.len
          /\ item = [type |-> "array", len |-> item.len, items |-> item.items]
      BY <1>3, <2>1, ArrayShape
    <3>2. 2 <= n /\ n \in Nat /\ n <= 2
      <4>1. n \in Nat
        BY <3>1
      <4>2. 2 <= n /\ n <= 2
        BY <2>2, <3>1, Zenon DEF HasElement
      <4>. QED
        BY <4>1, <4>2
    <3>. HIDE DEF n
    <3>3. n = 2
      BY <3>2
    <3>. QED
      BY <3>1, <3>3, Zenon DEF n
  <2>4. item.items[1] \in Leaf /\ item.items[2] \in Leaf
    BY <2>3
  <2>5. /\ oid \in Oids /\ item.items[1] = BytesItem(oid)
        /\ parameters \in Seq(Octet) /\ item.items[2] = BytesItem(parameters)
    BY <2>2, <2>4, LeafShape DEF ReadsOid, IsBytes
  <2>6. item.items = <<BytesItem(oid), BytesItem(parameters)>>
    BY <2>3, <2>5
  <2>7. AlgorithmRead(item) = AlgOidParameters(oid, parameters)
    BY <1>3 DEF AlgorithmRead, IsInt, IsBytes
  <2>. HIDE DEF oid, parameters
  <2>8. item = ArrayItem(<<BytesItem(oid), BytesItem(parameters)>>)
    BY <2>2, <2>3, <2>6 DEF ArrayItem
  <2>9. AlgorithmItem(AlgOidParameters(oid, parameters))
          = ArrayItem(<<BytesItem(oid), BytesItem(parameters)>>)
    BY DEF AlgorithmItem, AlgOidParameters
  <2>. QED
    BY <2>5, <2>7, <2>8, <2>9 DEF AlgOidParameters, AlgorithmIdentifier
<1>. QED
  BY <1>0, <1>1, <1>2, <1>3

\* The encoder of any field writes an item that the decoder of the field
\* accepts and reads as what arrives of the value.
LEMMA WrittenIsRead ==
  ASSUME NEW codec \in Codecs, NEW v \in TypeOf(codec), CanWrite(codec, v)
  PROVE  /\ ItemOf(codec, v) \in FieldItem
         /\ Accepts(codec, ItemOf(codec, v))
         /\ Read(codec, ItemOf(codec, v)) = ArrivingField(codec, v)
         /\ RewrittenItem(codec, ItemOf(codec, v)) = ItemOf(codec, v)
<1>. DEFINE item == ItemOf(codec, v)
<1>1. CASE codec = "i32"
  <2>1. v \in I32 /\ v \in Int /\ item = IntItem(v)
    BY <1>1, IntAssumption DEF TypeOf, I32, ItemOf
  <2>2. item \in FieldItem
    BY <2>1 DEF IntItem, FieldItem, Nested1, Leaf
  <2>. HIDE DEF item
  <2>. QED
    BY <1>1, <2>1, <2>2
       DEF item, Accepts, Read, ReadsI32, IsInt, IntItem, ArrivingField, RewrittenItem
<1>2. CASE codec = "biguint"
  <2>1. v \in BigUint /\ item = BytesItem(ToBytesBe(v))
    BY <1>2 DEF TypeOf, ItemOf
  <2>2. ToBytesBe(v) \in Seq(Octet) /\ FromBytesBe(ToBytesBe(v)) = v
    BY <2>1, BigUintFacts
  <2>3. item \in FieldItem /\ item.type = "bytes" /\ item.bytes = ToBytesBe(v)
    BY <2>1, <2>2 DEF BytesItem, FieldItem, Nested1, Leaf
  <2>. HIDE DEF item
  <2>4. /\ Accepts(codec, item) /\ Read(codec, item) = v /\ ArrivingField(codec, v) = v
        /\ RewrittenItem(codec, item) = item
    BY <1>2, <2>1, <2>2, <2>3 DEF Accepts, Read, IsBytes, ArrivingField, RewrittenItem
  <2>. QED
    BY <2>3, <2>4 DEF item
<1>3. CASE codec = "algorithm"
  <2>1. v \in AlgorithmIdentifier /\ item = AlgorithmItem(v)
    BY <1>3 DEF TypeOf, ItemOf
  <2>. HIDE DEF item
  <2>2. item \in Nested1 /\ ReadsAlgorithm(item) /\ AlgorithmRead(item) = v
    BY <2>1, AlgorithmInverse
  <2>3. /\ item \in FieldItem /\ Accepts(codec, item) /\ Read(codec, item) = v
        /\ ArrivingField(codec, v) = v /\ RewrittenItem(codec, item) = item
    BY <1>3, <2>2 DEF Accepts, Read, ArrivingField, RewrittenItem, FieldItem
  <2>. QED
    BY <2>3 DEF item
<1>4. ASSUME codec \in {"name", "optional name"}, v \in TypeOf("name")
      PROVE  /\ item \in FieldItem /\ Accepts(codec, item)
             /\ Read(codec, item) = ArrivingField(codec, v) /\ RewrittenItem(codec, item) = item
  <2>1. v # None /\ v.content \in NameContents /\ v = NameOf(v.content)
    BY <1>4, NameShape
  <2>2. item = OpaqueItem("name", NameWritten[v.content])
    BY <1>4, <2>1 DEF ItemOf, NameItem
  <2>. HIDE DEF item
  <2>3. /\ item \in FieldItem /\ IsOpaque(item, "name") /\ ~IsNull(item)
        /\ item.content = NameWritten[v.content]
    BY <2>1, <2>2 DEF FieldItem, OpaqueItem, IsOpaque, IsNull
  <2>. QED
    BY <1>4, <2>1, <2>3 DEF Accepts, Read, ArrivingField, RewrittenItem
<1>5. CASE codec = "name"
  BY <1>4, <1>5
<1>6. CASE codec = "optional name"
  <2>1. CASE v = None
    <3>1. item = NullItem
      BY <1>6, <2>1 DEF ItemOf
    <3>2. item \in FieldItem /\ IsNull(item)
      BY <3>1 DEF IsNull, NullItem, FieldItem, Nested1, Leaf
    <3>. HIDE DEF item
    <3>3. /\ Accepts(codec, item) /\ Read(codec, item) = None
          /\ ArrivingField(codec, v) = None /\ RewrittenItem(codec, item) = item
      BY <1>6, <2>1, <3>2 DEF Accepts, Read, ArrivingField, RewrittenItem
    <3>. QED
      BY <2>1, <3>2, <3>3 DEF item
  <2>2. CASE v # None
    <3>1. v \in TypeOf("name")
      BY <1>6, <2>2 DEF TypeOf
    <3>. QED
      BY <1>4, <1>6, <3>1
  <2>. QED
    BY <2>1, <2>2
<1>7. ASSUME codec \in {"time", "optional time"}, v \in OffsetDateTime
      PROVE  /\ item \in FieldItem /\ Accepts(codec, item)
             /\ Read(codec, item) = ArrivingField(codec, v) /\ RewrittenItem(codec, item) = item
  <2>1. v # None /\ v.secs \in Int /\ v.secs <= TimeMax
    BY <1>7, TimeShape
  <2>2. v.secs >= 0
    BY <1>7, <2>1 DEF CanWrite
  <2>3. item = IntItem(v.secs)
    BY <1>7, <2>1 DEF ItemOf
  <2>. HIDE DEF item
  <2>4. item \in FieldItem /\ IsInt(item) /\ ~IsNull(item) /\ item.int = v.secs
    BY <2>1, <2>3 DEF FieldItem, Nested1, Leaf, IntItem, IsInt, IsNull
  <2>5. ReadsTime(item)
    BY <2>1, <2>2, <2>4, TimeAssumption DEF ReadsTime
  <2>. QED
    BY <1>7, <2>1, <2>4, <2>5 DEF Accepts, Read, ArrivingField, RewrittenItem
<1>8. CASE codec = "time"
  <2>1. v \in OffsetDateTime
    BY <1>8 DEF TypeOf
  <2>. QED
    BY <1>7, <1>8, <2>1
<1>9. CASE codec = "optional time"
  <2>1. CASE v = None
    <3>1. item = NullItem
      BY <1>9, <2>1 DEF ItemOf
    <3>2. item \in FieldItem /\ IsNull(item)
      BY <3>1 DEF IsNull, NullItem, FieldItem, Nested1, Leaf
    <3>. HIDE DEF item
    <3>3. /\ Accepts(codec, item) /\ Read(codec, item) = None
          /\ ArrivingField(codec, v) = None /\ RewrittenItem(codec, item) = item
      BY <1>9, <2>1, <3>2 DEF Accepts, Read, ArrivingField, RewrittenItem
    <3>. QED
      BY <2>1, <3>2, <3>3 DEF item
  <2>2. CASE v # None
    <3>1. v \in OffsetDateTime
      BY <1>9, <2>2 DEF TypeOf
    <3>. QED
      BY <1>7, <1>9, <3>1
  <2>. QED
    BY <2>1, <2>2
<1>10. CASE codec = "bytes"
  <2>1. v \in Seq(Octet) /\ item = BytesItem(v)
    BY <1>10 DEF TypeOf, ItemOf
  <2>. HIDE DEF item
  <2>2. item \in FieldItem /\ IsBytes(item) /\ item.bytes = v
    BY <2>1 DEF BytesItem, IsBytes, FieldItem, Nested1, Leaf
  <2>3. /\ Accepts(codec, item) /\ Read(codec, item) = v
        /\ ArrivingField(codec, v) = v /\ RewrittenItem(codec, item) = item
    BY <1>10, <2>2 DEF Accepts, Read, ArrivingField, RewrittenItem
  <2>. QED
    BY <2>2, <2>3 DEF item
<1>11. CASE codec = "extensions"
  <2>1. v.content \in ExtContents /\ item = OpaqueItem("extensions", ExtWritten[v.content])
    BY <1>11 DEF TypeOf, ItemOf
  <2>. HIDE DEF item
  <2>2. /\ ExtWritten[v.content] \in ExtContents
        /\ ExtWritten[ExtWritten[v.content]] = ExtWritten[v.content]
    BY <2>1, WrittenAssumption
  <2>3. /\ item \in FieldItem /\ IsOpaque(item, "extensions")
        /\ item.content = ExtWritten[v.content]
    BY <2>1, <2>2 DEF OpaqueItem, IsOpaque, FieldItem
  <2>4. /\ Accepts(codec, item) /\ Read(codec, item) = ArrivingField(codec, v)
        /\ RewrittenItem(codec, item) = item
    BY <1>11, <2>1, <2>2, <2>3 DEF Accepts, Read, ArrivingField, RewrittenItem
  <2>. QED
    BY <2>3, <2>4 DEF item
<1>. QED
  BY <1>1, <1>2, <1>3, <1>5, <1>6, <1>8, <1>9, <1>10, <1>11 DEF Codecs
\* The decoder of any field returns a value of the field, which the encoder
\* writes as the item it was read from, but for what RewrittenItem says.
LEMMA ReadIsWritten ==
  ASSUME NEW codec \in Codecs, NEW item \in FieldItem, Accepts(codec, item)
  PROVE  /\ Read(codec, item) \in TypeOf(codec)
         /\ ItemOf(codec, Read(codec, item)) = RewrittenItem(codec, item)
         /\ \/ CanWrite(codec, Read(codec, item))
            \/ codec = "extensions" /\ Read(codec, item).content \in Unencodable
<1>. DEFINE v == Read(codec, item)
            Goal == /\ v \in TypeOf(codec)
                    /\ ItemOf(codec, v) = RewrittenItem(codec, item)
                    /\ \/ CanWrite(codec, v)
                       \/ codec = "extensions" /\ v.content \in Unencodable
<1>0. item.type \in {"int", "bytes", "null"} => item \in Leaf
  BY OpaqueShape, ArrayShape DEF Nested1
<1>1. CASE codec = "i32"
  <2>1. IsInt(item) /\ item.int \in I32 /\ v = item.int
    BY <1>1 DEF Accepts, ReadsI32, Read
  <2>2. item = IntItem(item.int)
    BY <1>0, <2>1, LeafShape DEF IsInt
  <2>. HIDE DEF v
  <2>3. v \in TypeOf(codec) /\ CanWrite(codec, v)
    BY <1>1, <2>1 DEF TypeOf, CanWrite
  <2>4. ItemOf(codec, v) = IntItem(v) /\ RewrittenItem(codec, item) = item
    BY <1>1 DEF ItemOf, RewrittenItem
  <2>. QED
    BY <2>1, <2>2, <2>3, <2>4 DEF v
<1>2. CASE codec = "biguint"
  <2>1. IsBytes(item) /\ v = FromBytesBe(item.bytes)
    BY <1>2 DEF Accepts, Read
  <2>2. item.bytes \in Seq(Octet)
    BY <1>0, <2>1, LeafShape DEF IsBytes
  <2>3. v \in BigUint
    BY <2>1, <2>2, BigUintFacts
  <2>. HIDE DEF v
  <2>4. v \in TypeOf(codec) /\ CanWrite(codec, v)
    BY <1>2, <2>3 DEF TypeOf, CanWrite
  <2>5. /\ ItemOf(codec, v) = BytesItem(ToBytesBe(v))
        /\ RewrittenItem(codec, item) = BytesItem(ToBytesBe(FromBytesBe(item.bytes)))
    BY <1>2 DEF ItemOf, RewrittenItem
  <2>. QED
    BY <2>1, <2>4, <2>5 DEF v
<1>3. CASE codec = "algorithm"
  <2>1. ReadsAlgorithm(item) /\ v = AlgorithmRead(item)
    BY <1>3 DEF Accepts, Read
  <2>2. v \in AlgorithmIdentifier /\ AlgorithmItem(v) = item
    BY <2>1, AlgorithmReadInverse
  <2>. HIDE DEF v
  <2>3. v \in TypeOf(codec) /\ CanWrite(codec, v)
    BY <1>3, <2>2 DEF TypeOf, CanWrite
  <2>4. ItemOf(codec, v) = AlgorithmItem(v) /\ RewrittenItem(codec, item) = item
    BY <1>3 DEF ItemOf, RewrittenItem
  <2>. QED
    BY <2>2, <2>3, <2>4 DEF v
<1>4. ASSUME codec \in {"name", "optional name"}, IsOpaque(item, "name")
      PROVE  Goal
  <2>1. PICK c \in NameContents : item = OpaqueItem("name", NameWritten[c])
    BY <1>4, OpaqueShape
  <2>2. /\ NameWritten[c] \in NameContents
        /\ NameWritten[NameWritten[c]] = NameWritten[c]
    BY WrittenAssumption
  <2>3. v = NameOf(NameWritten[c])
    BY <1>4, <2>1 DEF Read, OpaqueItem, IsNull
  <2>. HIDE DEF v
  <2>4. v # None /\ v.content = NameWritten[c]
    BY <2>3 DEF NameOf, None
  <2>5. v \in TypeOf(codec)
    BY <1>4, <2>2, <2>3 DEF TypeOf, NameOf
  <2>6. CanWrite(codec, v)
    BY <1>4 DEF CanWrite
  <2>7. ItemOf(codec, v) = NameItem(v) /\ RewrittenItem(codec, item) = item
    BY <1>4, <2>4 DEF ItemOf, RewrittenItem
  <2>8. NameItem(v) = item
    BY <2>1, <2>2, <2>4 DEF NameItem
  <2>. QED
    BY <2>5, <2>6, <2>7, <2>8
<1>5. CASE codec = "name"
  BY <1>4, <1>5 DEF Accepts
<1>6. CASE codec = "optional name"
  <2>1. CASE IsNull(item)
    <3>1. v = None
      BY <1>6, <2>1 DEF Read
    <3>2. item = NullItem
      BY <1>0, <2>1, LeafShape DEF IsNull
    <3>. HIDE DEF v
    <3>3. v \in TypeOf(codec) /\ CanWrite(codec, v)
      BY <1>6, <3>1 DEF TypeOf, CanWrite
    <3>4. ItemOf(codec, v) = NullItem /\ RewrittenItem(codec, item) = item
      BY <1>6, <3>1 DEF ItemOf, RewrittenItem
    <3>. QED
      BY <3>2, <3>3, <3>4 DEF v
  <2>2. CASE ~IsNull(item)
    BY <1>4, <1>6, <2>2 DEF Accepts
  <2>. QED
    BY <2>1, <2>2
<1>7. ASSUME codec \in {"time", "optional time"}, ReadsTime(item)
      PROVE  Goal
  <2>1. IsInt(item) /\ item.int \in 0 .. TimeMax /\ ~IsNull(item)
    BY <1>7 DEF ReadsTime, IsInt, IsNull
  <2>2. item = IntItem(item.int)
    BY <1>0, <2>1, LeafShape DEF IsInt
  <2>3. v = Time(item.int, FALSE)
    BY <1>7, <2>1 DEF Read
  <2>. HIDE DEF v
  <2>4. v # None /\ v.secs = item.int
    BY <2>3 DEF Time, None
  <2>5. v \in OffsetDateTime
    BY <2>1, <2>3, TimeAssumption DEF OffsetDateTime, Time
  <2>6. v \in TypeOf(codec) /\ CanWrite(codec, v)
    <3>1. v.secs >= 0
      BY <2>1, <2>4, TimeAssumption
    <3>2. CanWrite(codec, v)
      BY <1>7, <3>1 DEF CanWrite
    <3>. QED
      BY <1>7, <2>5, <3>2 DEF TypeOf
  <2>7. ItemOf(codec, v) = IntItem(v.secs) /\ RewrittenItem(codec, item) = item
    BY <1>7, <2>4 DEF ItemOf, RewrittenItem
  <2>8. ItemOf(codec, v) = item
    BY <2>2, <2>4, <2>7, Zenon
  <2>. QED
    BY <2>6, <2>7, <2>8
<1>8. CASE codec = "time"
  BY <1>7, <1>8 DEF Accepts
<1>9. CASE codec = "optional time"
  <2>1. CASE IsNull(item)
    <3>1. v = None
      BY <1>9, <2>1 DEF Read
    <3>2. item = NullItem
      BY <1>0, <2>1, LeafShape DEF IsNull
    <3>. HIDE DEF v
    <3>3. v \in TypeOf(codec) /\ CanWrite(codec, v)
      BY <1>9, <3>1 DEF TypeOf, CanWrite
    <3>4. ItemOf(codec, v) = NullItem /\ RewrittenItem(codec, item) = item
      BY <1>9, <3>1 DEF ItemOf, RewrittenItem
    <3>. QED
      BY <3>2, <3>3, <3>4 DEF v
  <2>2. CASE ~IsNull(item)
    BY <1>7, <1>9, <2>2 DEF Accepts
  <2>. QED
    BY <2>1, <2>2
<1>10. CASE codec = "bytes"
  <2>1. IsBytes(item) /\ v = item.bytes
    BY <1>10 DEF Accepts, Read
  <2>2. item.bytes \in Seq(Octet) /\ item = BytesItem(item.bytes)
    BY <1>0, <2>1, LeafShape DEF IsBytes
  <2>. HIDE DEF v
  <2>3. v \in TypeOf(codec) /\ CanWrite(codec, v)
    BY <1>10, <2>1, <2>2 DEF TypeOf, CanWrite
  <2>4. ItemOf(codec, v) = BytesItem(v) /\ RewrittenItem(codec, item) = item
    BY <1>10 DEF ItemOf, RewrittenItem
  <2>. QED
    BY <2>1, <2>2, <2>3, <2>4 DEF v
<1>11. CASE codec = "extensions"
  <2>1. IsOpaque(item, "extensions")
    BY <1>11 DEF Accepts
  <2>2. PICK c \in ExtContents : item = OpaqueItem("extensions", c)
    BY <2>1, OpaqueShape
  <2>3. v = ExtensionsOf(c) /\ item.content = c
    BY <1>11, <2>2 DEF Read, OpaqueItem
  <2>. HIDE DEF v
  <2>4. v.content = c
    BY <2>3 DEF ExtensionsOf
  <2>5. v \in TypeOf(codec)
    BY <1>11, <2>3 DEF TypeOf, ExtensionsOf
  <2>6. CanWrite(codec, v) \/ v.content \in Unencodable
    BY <1>11 DEF CanWrite
  <2>7. /\ ItemOf(codec, v) = OpaqueItem(codec, ExtWritten[v.content])
        /\ RewrittenItem(codec, item) = OpaqueItem("extensions", ExtWritten[item.content])
    BY <1>11 DEF ItemOf, RewrittenItem
  <2>. QED
    BY <1>11, <2>3, <2>4, <2>5, <2>6, <2>7 DEF v
<1>. QED
  BY <1>1, <1>2, <1>3, <1>5, <1>6, <1>8, <1>9, <1>10, <1>11 DEF Codecs

-----------------------------------------------------------------------------
(* The invariant of the session                                            *)

FieldAt(k) == DecodePlan[k][1]
CodecAt(k) == DecodePlan[k][2]

\* The number of tokens before the first field.
Lead(tokens) == IF HasHeader(tokens) THEN 1 ELSE 0

ProperHeader(tokens) == HasHeader(tokens) => HasElevenHeader(tokens)

ReadFrom(tokens, start, k, v) ==
  /\ Accepts(CodecAt(k), tokens[start + k])
  /\ v[FieldAt(k)] = Read(CodecAt(k), tokens[start + k])

WrittenAs(tokens, start, k, v) ==
  /\ CanWrite(CodecAt(k), v[FieldAt(k)])
  /\ tokens[start + k] = ItemOf(CodecAt(k), v[FieldAt(k)])

\* The certificate was read from the bytes, or the bytes were written for it.
ReadFromAll(tokens, v) ==
  /\ ProperHeader(tokens) /\ Len(tokens) >= Lead(tokens) + FIELD_COUNT
  /\ \A k \in 1 .. FIELD_COUNT : ReadFrom(tokens, Lead(tokens), k, v)

WrittenAsAll(tokens, v) ==
  /\ ProperHeader(tokens) /\ Len(tokens) >= Lead(tokens) + FIELD_COUNT
  /\ \A k \in 1 .. FIELD_COUNT : WrittenAs(tokens, Lead(tokens), k, v)

EncoderInv ==
  pc = "encoding" =>
    /\ ProperHeader(items)
    /\ Len(items) - Lead(items) \in 0 .. FIELD_COUNT
    /\ \A k \in 1 .. Len(items) - Lead(items) : WrittenAs(items, Lead(items), k, value)

\* Where the decoder began to read fields.
Start == IF decoder = "decode_sequence" THEN 0 ELSE Lead(wire)

FirstFields(n) == {FieldAt(k) : k \in 1 .. n}

HasRead(n) ==
  /\ fields = [f \in FirstFields(n) |-> fields[f]]
  /\ Len(rest) = Len(wire) - (Start + n)
  /\ \A i \in 1 .. Len(rest) : rest[i] = wire[Start + n + i]
  /\ \A k \in 1 .. n : ReadFrom(wire, Start, k, fields)

DecoderInv ==
  pc = "decoding" =>
    /\ decoder \in Decoders
    /\ decoder = "decode" => HasHeader(wire)
    /\ decoder # "decode_sequence" => ProperHeader(wire)
    /\ \E n \in 0 .. FIELD_COUNT : HasRead(n)

HeldInv ==
  /\ value # NoValue /\ wire # NoWire => ReadFromAll(wire, value) \/ WrittenAsAll(wire, value)
  /\ pc \in {"encode", "encoding", "panicked"} => value # NoValue
  /\ pc \in {"decode", "decoding", "refused"} /\ value # NoValue => wire # NoWire

IInv == TypeOK /\ EncoderInv /\ DecoderInv /\ HeldInv

-----------------------------------------------------------------------------
(* The plan                                                                *)

LEMMA Eleven ==
  ASSUME NEW k \in 1 .. FIELD_COUNT
  PROVE  k \in {1, 2, 3, 4, 5, 6, 7, 8, 9, 10, 11}
BY DEF FIELD_COUNT

\* The fields and codecs one by one.
LEMMA PlanTable ==
  /\ FieldAt(1) = "c509_certificate_type"      /\ CodecAt(1) = "i32"
  /\ FieldAt(2) = "certificate_serial_number"  /\ CodecAt(2) = "biguint"
  /\ FieldAt(3) = "issuer_signature_algorithm" /\ CodecAt(3) = "algorithm"
  /\ FieldAt(4) = "issuer"                     /\ CodecAt(4) = "optional name"
  /\ FieldAt(5) = "validity_not_before"        /\ CodecAt(5) = "time"
  /\ FieldAt(6) = "validity_not_after"         /\ CodecAt(6) = "optional time"
  /\ FieldAt(7) = "subject"                    /\ CodecAt(7) = "name"
  /\ FieldAt(8) = "subject_public_key_algorithm" /\ CodecAt(8) = "algorithm"
  /\ FieldAt(9) = "subject_public_key"         /\ CodecAt(9) = "bytes"
  /\ FieldAt(10) = "extensions"                /\ CodecAt(10) = "extensions"
  /\ FieldAt(11) = "issuer_signature_value"    /\ CodecAt(11) = "bytes"
BY DEF FieldAt, CodecAt, DecodePlan

\* Both sides treat the same fields in the same order, with the codecs that
\* belong to them, and no field twice.
LEMMA PlanFacts ==
  /\ EncodePlan = DecodePlan
  /\ \A k \in 1 .. FIELD_COUNT : CodecAt(k) \in Codecs /\ FieldAt(k) \in FieldNames
  /\ \A j, k \in 1 .. FIELD_COUNT : FieldAt(j) = FieldAt(k) => j = k
  /\ FieldNames = FirstFields(FIELD_COUNT)
<1>1. EncodePlan = DecodePlan
  BY DEF EncodePlan, DecodePlan
<1>2. \A k \in 1 .. FIELD_COUNT : CodecAt(k) \in Codecs
  BY PlanTable, Eleven DEF Codecs
<1>3. \A j, k \in 1 .. FIELD_COUNT : FieldAt(j) = FieldAt(k) => j = k
  <2>. DEFINE Apart(j) == \A k \in 1 .. FIELD_COUNT : k # j => FieldAt(k) # FieldAt(j)
  <2>1. Apart(1)
    BY PlanTable, Eleven
  <2>2. Apart(2)
    BY PlanTable, Eleven
  <2>3. Apart(3)
    BY PlanTable, Eleven
  <2>4. Apart(4)
    BY PlanTable, Eleven
  <2>5. Apart(5)
    BY PlanTable, Eleven
  <2>6. Apart(6)
    BY PlanTable, Eleven
  <2>7. Apart(7)
    BY PlanTable, Eleven
  <2>8. Apart(8)
    BY PlanTable, Eleven
  <2>9. Apart(9)
    BY PlanTable, Eleven
  <2>10. Apart(10)
    BY PlanTable, Eleven
  <2>11. Apart(11)
    BY PlanTable, Eleven
  <2>. HIDE DEF Apart
  <2>12. \A j \in 1 .. FIELD_COUNT : Apart(j)
    BY <2>1, <2>2, <2>3, <2>4, <2>5, <2>6, <2>7, <2>8, <2>9, <2>10, <2>11, Eleven
  <2>. QED
    BY <2>12 DEF Apart
<1>4. FieldNames = FirstFields(FIELD_COUNT)
  BY DEF FieldNames, FirstFields, FieldAt
<1>. QED
  BY <1>1, <1>2, <1>3, <1>4 DEF FirstFields

\* The certificates are the functions from the fields to values of their types.
LEMMA ValueFacts ==
  /\ \A v \in Value : /\ v = [f \in FieldNames |-> v[f]]
                      /\ \A k \in 1 .. FIELD_COUNT : v[FieldAt(k)] \in TypeOf(CodecAt(k))
  /\ \A v : /\ v = [f \in FieldNames |-> v[f]]
            /\ \A k \in 1 .. FIELD_COUNT : v[FieldAt(k)] \in TypeOf(CodecAt(k))
            => v \in Value
  /\ NoValue \notin Value
<1>0. FieldNames = {"c509_certificate_type", "certificate_serial_number",
                    "issuer_signature_algorithm", "issuer", "validity_not_before",
                    "validity_not_after", "subject", "subject_public_key_algorithm",
                    "subject_public_key", "extensions", "issuer_signature_value"}
  <2>1. 1 .. FIELD_COUNT = {1, 2, 3, 4, 5, 6, 7, 8, 9, 10, 11}
    BY DEF FIELD_COUNT
  <2>2. FieldNames = {FieldAt(k) : k \in {1, 2, 3, 4, 5, 6, 7, 8, 9, 10, 11}}
    BY <2>1 DEF FieldNames, FieldAt
  <2>3. \A f : f \in FieldNames <=> \/ f = FieldAt(1) \/ f = FieldAt(2) \/ f = FieldAt(3)
                                   \/ f = FieldAt(4) \/ f = FieldAt(5) \/ f = FieldAt(6)
                                   \/ f = FieldAt(7) \/ f = FieldAt(8) \/ f = FieldAt(9)
                                   \/ f = FieldAt(10) \/ f = FieldAt(11)
    BY <2>2
  <2>4. FieldNames = {FieldAt(1), FieldAt(2), FieldAt(3), FieldAt(4), FieldAt(5), FieldAt(6),
                      FieldAt(7), FieldAt(8), FieldAt(9), FieldAt(10), FieldAt(11)}
    BY <2>3
  <2>. QED
    BY <2>4, PlanTable
<1>1. ASSUME NEW v \in Value
      PROVE  /\ v = [f \in FieldNames |-> v[f]]
             /\ \A k \in 1 .. FIELD_COUNT : v[FieldAt(k)] \in TypeOf(CodecAt(k))
  <2>1. v = [f \in FieldNames |-> v[f]]
    BY <1>0 DEF Value
  <2>2. /\ v["c509_certificate_type"] \in TypeOf("i32")
        /\ v["certificate_serial_number"] \in TypeOf("biguint")
        /\ v["issuer_signature_algorithm"] \in TypeOf("algorithm")
        /\ v["issuer"] \in TypeOf("optional name")
        /\ v["validity_not_before"] \in TypeOf("time")
        /\ v["validity_not_after"] \in TypeOf("optional time")
        /\ v["subject"] \in TypeOf("name")
        /\ v["subject_public_key_algorithm"] \in TypeOf("algorithm")
        /\ v["subject_public_key"] \in TypeOf("bytes")
        /\ v["extensions"] \in TypeOf("extensions")
        /\ v["issuer_signature_value"] \in TypeOf("bytes")
    BY DEF Value
  <2>3. \A k \in 1 .. FIELD_COUNT : v[FieldAt(k)] \in TypeOf(CodecAt(k))
    <3>. DEFINE P(k) == v[FieldAt(k)] \in TypeOf(CodecAt(k))
    <3>1. P(1)
      BY <2>2, PlanTable
    <3>2. P(2)
      BY <2>2, PlanTable
    <3>3. P(3)
      BY <2>2, PlanTable
    <3>4. P(4)
      BY <2>2, PlanTable
    <3>5. P(5)
      BY <2>2, PlanTable
    <3>6. P(6)
      BY <2>2, PlanTable
    <3>7. P(7)
      BY <2>2, PlanTable
    <3>8. P(8)
      BY <2>2, PlanTable
    <3>9. P(9)
      BY <2>2, PlanTable
    <3>10. P(10)
      BY <2>2, PlanTable
    <3>11. P(11)
      BY <2>2, PlanTable
    <3>. HIDE DEF P
    <3>12. \A k \in 1 .. FIELD_COUNT : P(k)
      BY <3>1, <3>2, <3>3, <3>4, <3>5, <3>6, <3>7, <3>8, <3>9, <3>10, <3>11, Eleven
    <3>. QED
      BY <3>12 DEF P
  <2>. QED
    BY <2>1, <2>3
<1>2. ASSUME NEW v, v = [f \in FieldNames |-> v[f]],
             \A k \in 1 .. FIELD_COUNT : v[FieldAt(k)] \in TypeOf(CodecAt(k))
      PROVE  v \in Value
  <2>1. \A k \in {1, 2, 3, 4, 5, 6, 7, 8, 9, 10, 11} : v[FieldAt(k)] \in TypeOf(CodecAt(k))
    BY <1>2 DEF FIELD_COUNT
  <2>2. /\ v["c509_certificate_type"] \in TypeOf("i32")
        /\ v["certificate_serial_number"] \in TypeOf("biguint")
        /\ v["issuer_signature_algorithm"] \in TypeOf("algorithm")
        /\ v["issuer"] \in TypeOf("optional name")
        /\ v["validity_not_before"] \in TypeOf("time")
        /\ v["validity_not_after"] \in TypeOf("optional time")
        /\ v["subject"] \in TypeOf("name")
        /\ v["subject_public_key_algorithm"] \in TypeOf("algorithm")
        /\ v["subject_public_key"] \in TypeOf("bytes")
        /\ v["extensions"] \in TypeOf("extensions")
        /\ v["issuer_signature_value"] \in TypeOf("bytes")
    BY <2>1, PlanTable
  <2>. QED
    BY <1>0, <1>2, <2>2 DEF Value
<1>3. NoValue \notin Value
  BY DEF NoValue, Value
<1>. QED
  BY <1>1, <1>2, <1>3
-----------------------------------------------------------------------------
(* Tokens and fields                                                       *)

\* A header is no item of a field, and no decoder of a field accepts it.
LEMMA TokenFacts ==
  /\ \A item \in FieldItem : /\ item \in Token
                             /\ item.type \notin {"header", "header_indef"}
  /\ \A codec \in Codecs, token \in Token :
       Accepts(codec, token) => token \in FieldItem
<1>1. ASSUME NEW item \in FieldItem
      PROVE  item \in Token /\ item.type \notin {"header", "header_indef"}
  BY OpaqueShape DEF Token
<1>2. ASSUME NEW codec \in Codecs, NEW token \in Token, Accepts(codec, token)
      PROVE  token \in FieldItem
  <2>1. token.type \in {"header", "header_indef"} => ~Accepts(codec, token)
    BY DEF Codecs, Accepts, ReadsI32, ReadsAlgorithm, ReadsOid, ReadsTime, IsInt, IsBytes,
           IsNull, IsOpaque
  <2>2. token \in FieldItem \/ token.type \in {"header", "header_indef"}
    BY DEF Token, IndefiniteHeader
  <2>. QED
    BY <1>2, <2>1, <2>2
<1>. QED
  BY <1>1, <1>2

\* A field that was read has its type and is written as the item it came from.
LEMMA ReadFieldFacts ==
  ASSUME NEW tokens \in Seq(Token), NEW start, NEW k \in 1 .. FIELD_COUNT, NEW v,
         start + k \in 1 .. Len(tokens), ReadFrom(tokens, start, k, v)
  PROVE  LET item == tokens[start + k]
         IN  /\ item \in FieldItem
             /\ v[FieldAt(k)] \in TypeOf(CodecAt(k))
             /\ ItemOf(CodecAt(k), v[FieldAt(k)]) = RewrittenItem(CodecAt(k), item)
             /\ \/ CanWrite(CodecAt(k), v[FieldAt(k)])
                \/ CodecAt(k) = "extensions" /\ v[FieldAt(k)].content \in Unencodable
<1>1. tokens[start + k] \in Token
  OBVIOUS
<1>2. CodecAt(k) \in Codecs
  BY PlanFacts
<1>3. tokens[start + k] \in FieldItem
  BY <1>1, <1>2, TokenFacts DEF ReadFrom
<1>. QED
  BY <1>2, <1>3, ReadIsWritten DEF ReadFrom

\* A field that was written is accepted and arrives.
LEMMA WrittenFieldFacts ==
  ASSUME NEW tokens, NEW start, NEW k \in 1 .. FIELD_COUNT, NEW v \in Value,
         WrittenAs(tokens, start, k, v)
  PROVE  LET item == tokens[start + k]
         IN  /\ item \in FieldItem
             /\ Accepts(CodecAt(k), item)
             /\ Read(CodecAt(k), item) = ArrivingField(CodecAt(k), v[FieldAt(k)])
             /\ RewrittenItem(CodecAt(k), item) = item
<1>1. CodecAt(k) \in Codecs /\ v[FieldAt(k)] \in TypeOf(CodecAt(k))
  BY PlanFacts, ValueFacts
<1>. QED
  BY <1>1, WrittenIsRead DEF WrittenAs

\* What arrives of a certificate is what arrives of its fields.
LEMMA ArrivingFacts ==
  ASSUME NEW v \in Value
  PROVE  /\ Arriving(v) = [f \in FieldNames |-> Arriving(v)[f]]
         /\ \A k \in 1 .. FIELD_COUNT :
              Arriving(v)[FieldAt(k)] = ArrivingField(CodecAt(k), v[FieldAt(k)])
<1>. DEFINE w == Whole(v)
<1>1. v = [f \in FieldNames |-> v[f]]
  BY ValueFacts
<1>2. \A k \in 1 .. FIELD_COUNT : FieldAt(k) \in FieldNames
  BY PlanFacts
<1>3. /\ "issuer" \in FieldNames /\ "validity_not_before" \in FieldNames
      /\ "validity_not_after" \in FieldNames /\ "subject" \in FieldNames
      /\ "extensions" \in FieldNames
  <2>1. /\ 4 \in 1 .. FIELD_COUNT /\ 5 \in 1 .. FIELD_COUNT /\ 6 \in 1 .. FIELD_COUNT
        /\ 7 \in 1 .. FIELD_COUNT /\ 10 \in 1 .. FIELD_COUNT
    BY DEF FIELD_COUNT
  <2>. QED
    BY <1>2, <2>1, PlanTable
<1>4. /\ w = [f \in FieldNames |-> w[f]]
      /\ w["validity_not_before"] = WholeSeconds(v["validity_not_before"])
      /\ w["validity_not_after"] = WholeSeconds(v["validity_not_after"])
      /\ \A f \in FieldNames \ {"validity_not_before", "validity_not_after"} : w[f] = v[f]
  BY <1>1, <1>3 DEF Whole
<1>. HIDE DEF w
<1>5. /\ Arriving(v) = [f \in FieldNames |-> Arriving(v)[f]]
      /\ Arriving(v)["issuer"] = NameArriving(w["issuer"])
      /\ Arriving(v)["subject"] = NameArriving(w["subject"])
      /\ Arriving(v)["extensions"] = ExtensionsOf(ExtWritten[w["extensions"].content])
      /\ \A f \in FieldNames \ {"issuer", "subject", "extensions"} : Arriving(v)[f] = w[f]
  BY <1>3, <1>4 DEF w, Arriving
<1>6. /\ v["issuer"] \in TypeOf("optional name") /\ v["subject"] \in TypeOf("name")
      /\ v["validity_not_before"] \in TypeOf("time")
      /\ v["validity_not_after"] \in TypeOf("optional time")
  BY DEF Value
<1>7. \A t \in OffsetDateTime : WholeSeconds(t) = Time(t.secs, FALSE)
  <2>. SUFFICES ASSUME NEW t \in OffsetDateTime
                PROVE  WholeSeconds(t) = Time(t.secs, FALSE)
    OBVIOUS
  <2>1. t # None
    BY TimeShape
  <2>2. [t EXCEPT !.fraction = FALSE] = Time(t.secs, FALSE)
    <3>1. \A r, s, f, g : r = Time(s, f) => [r EXCEPT !.fraction = g] = Time(s, g)
      BY DEF Time
    <3>2. t = Time(t.secs, t.fraction)
      BY TimeShape
    <3>3. \A g : [t EXCEPT !.fraction = g] = Time(t.secs, g)
      BY <3>1, <3>2
    <3>. QED
      BY <3>3
  <2>. QED
    BY <2>1, <2>2 DEF WholeSeconds
<1>8. /\ WholeSeconds(v["validity_not_before"]) = ArrivingField("time", v["validity_not_before"])
      /\ WholeSeconds(v["validity_not_after"])
           = ArrivingField("optional time", v["validity_not_after"])
  <2>1. v["validity_not_before"] \in OffsetDateTime
    BY <1>6 DEF TypeOf
  <2>2. v["validity_not_after"] \in OffsetDateTime \cup {None}
    BY <1>6 DEF TypeOf
  <2>3. \A t \in OffsetDateTime : t # None
    BY TimeShape
  <2>4. \A t \in OffsetDateTime : /\ ArrivingField("time", t) = Time(t.secs, FALSE)
                                  /\ ArrivingField("optional time", t) = Time(t.secs, FALSE)
    BY <2>3 DEF ArrivingField
  <2>5. WholeSeconds(None) = None /\ ArrivingField("optional time", None) = None
    BY DEF WholeSeconds, ArrivingField
  <2>. QED
    BY <1>7, <2>1, <2>2, <2>4, <2>5
<1>9. \A f \in FieldNames \ {"issuer", "validity_not_before", "validity_not_after", "subject",
                            "extensions"} : Arriving(v)[f] = v[f]
  BY <1>4, <1>5
<1>10. \A x : /\ ArrivingField("name", x) = NameArriving(x)
             /\ ArrivingField("optional name", x) = NameArriving(x)
             /\ ArrivingField("extensions", x) = ExtensionsOf(ExtWritten[x.content])
  BY DEF ArrivingField, NameArriving
<1>11. \A x, codec : codec \in {"i32", "biguint", "algorithm", "bytes"} =>
                       ArrivingField(codec, x) = x
  BY DEF ArrivingField
<1>. DEFINE P(k) == Arriving(v)[FieldAt(k)] = ArrivingField(CodecAt(k), v[FieldAt(k)])
<1>12. /\ Arriving(v)["issuer"] = NameArriving(v["issuer"])
       /\ Arriving(v)["subject"] = NameArriving(v["subject"])
       /\ Arriving(v)["extensions"] = ExtensionsOf(ExtWritten[v["extensions"].content])
       /\ Arriving(v)["validity_not_before"] = WholeSeconds(v["validity_not_before"])
       /\ Arriving(v)["validity_not_after"] = WholeSeconds(v["validity_not_after"])
  BY <1>3, <1>4, <1>5
<1>13. P(1)
  <2>1. FieldAt(1) = "c509_certificate_type" /\ CodecAt(1) = "i32"
    BY PlanTable
  <2>2. FieldAt(1) \in FieldNames
    BY <1>2 DEF FIELD_COUNT
  <2>3. Arriving(v)[FieldAt(1)] = v[FieldAt(1)]
    BY <1>9, <2>1, <2>2
  <2>. QED
    BY <1>11, <2>1, <2>3
<1>14. P(2)
  <2>1. FieldAt(2) = "certificate_serial_number" /\ CodecAt(2) = "biguint"
    BY PlanTable
  <2>2. FieldAt(2) \in FieldNames
    BY <1>2 DEF FIELD_COUNT
  <2>3. Arriving(v)[FieldAt(2)] = v[FieldAt(2)]
    BY <1>9, <2>1, <2>2
  <2>. QED
    BY <1>11, <2>1, <2>3
<1>15. P(3)
  <2>1. FieldAt(3) = "issuer_signature_algorithm" /\ CodecAt(3) = "algorithm"
    BY PlanTable
  <2>2. FieldAt(3) \in FieldNames
    BY <1>2 DEF FIELD_COUNT
  <2>3. Arriving(v)[FieldAt(3)] = v[FieldAt(3)]
    BY <1>9, <2>1, <2>2
  <2>. QED
    BY <1>11, <2>1, <2>3
<1>16. P(4)
  BY <1>10, <1>12, PlanTable
<1>17. P(5)
  BY <1>8, <1>12, PlanTable
<1>18. P(6)
  BY <1>8, <1>12, PlanTable
<1>19. P(7)
  BY <1>10, <1>12, PlanTable
<1>20. P(8)
  <2>1. FieldAt(8) = "subject_public_key_algorithm" /\ CodecAt(8) = "algorithm"
    BY PlanTable
  <2>2. FieldAt(8) \in FieldNames
    BY <1>2 DEF FIELD_COUNT
  <2>3. Arriving(v)[FieldAt(8)] = v[FieldAt(8)]
    BY <1>9, <2>1, <2>2
  <2>. QED
    BY <1>11, <2>1, <2>3
<1>21. P(9)
  <2>1. FieldAt(9) = "subject_public_key" /\ CodecAt(9) = "bytes"
    BY PlanTable
  <2>2. FieldAt(9) \in FieldNames
    BY <1>2 DEF FIELD_COUNT
  <2>3. Arriving(v)[FieldAt(9)] = v[FieldAt(9)]
    BY <1>9, <2>1, <2>2
  <2>. QED
    BY <1>11, <2>1, <2>3
<1>22. P(10)
  BY <1>10, <1>12, PlanTable
<1>23. P(11)
  <2>1. FieldAt(11) = "issuer_signature_value" /\ CodecAt(11) = "bytes"
    BY PlanTable
  <2>2. FieldAt(11) \in FieldNames
    BY <1>2 DEF FIELD_COUNT
  <2>3. Arriving(v)[FieldAt(11)] = v[FieldAt(11)]
    BY <1>9, <2>1, <2>2
  <2>. QED
    BY <1>11, <2>1, <2>3
<1>. HIDE DEF P
<1>24. \A k \in 1 .. FIELD_COUNT : P(k)
  BY <1>13, <1>14, <1>15, <1>16, <1>17, <1>18,
     <1>19, <1>20, <1>21, <1>22, <1>23, Eleven
<1>. QED
  BY <1>5, <1>24 DEF P

\* The fields of a token sequence, behind the header if there is one.
LEMMA BodyFacts ==
  ASSUME NEW tokens \in Seq(Token), Len(tokens) >= Lead(tokens) + FIELD_COUNT
  PROVE  /\ Body(tokens) = [k \in 1 .. FIELD_COUNT |-> tokens[Lead(tokens) + k]]
         /\ Lead(tokens) \in {0, 1}
         /\ tokens # NoWire
<1>1. Lead(tokens) \in {0, 1}
  BY DEF Lead
<1>2. Body(tokens) = SubSeq(tokens, Lead(tokens) + 1, Lead(tokens) + FIELD_COUNT)
  <2>1. CASE HasHeader(tokens)
    BY <2>1 DEF Body, Lead, FIELD_COUNT
  <2>2. CASE ~HasHeader(tokens)
    BY <2>2 DEF Body, Lead, FIELD_COUNT
  <2>. QED
    BY <2>1, <2>2
<1>. DEFINE n == Lead(tokens)
<1>. HIDE DEF n
<1>3. n \in {0, 1} /\ Len(tokens) >= n + 11 /\ Len(tokens) \in Nat
  BY <1>1 DEF n, FIELD_COUNT
<1>4. SubSeq(tokens, n + 1, n + 11) = [k \in 1 .. 11 |-> tokens[n + k]]
  BY <1>3
<1>5. tokens # NoWire
  BY <1>3 DEF NoWire
<1>. QED
  BY <1>1, <1>2, <1>4, <1>5 DEF n, FIELD_COUNT

\* Rewriting the body rewrites each item for its codec.
LEMMA RewrittenFacts ==
  ASSUME NEW body, body = [k \in 1 .. FIELD_COUNT |-> body[k]],
         IsOpaque(body[10], "extensions"), body[10] \in FieldItem
  PROVE  Rewritten(body) = [k \in 1 .. FIELD_COUNT |-> RewrittenItem(CodecAt(k), body[k])]
<1>1. PICK c : body[10] = OpaqueItem("extensions", c)
  BY OpaqueShape
<1>2. FIELD_COUNT = 11
  BY DEF FIELD_COUNT
<1>3. Rewritten(body) = [k \in 1 .. 11 |-> Rewritten(body)[k]]
  BY <1>2 DEF Rewritten
<1>4. Rewritten(body)[2] = BytesItem(ToBytesBe(FromBytesBe(body[2].bytes)))
  BY <1>2 DEF Rewritten
<1>5. Rewritten(body)[10] = OpaqueItem("extensions", ExtWritten[c])
  BY <1>1, <1>2 DEF Rewritten, OpaqueItem
<1>6. \A k \in 1 .. 11 : k \notin {2, 10} => Rewritten(body)[k] = body[k]
  BY <1>2 DEF Rewritten
<1>7. ASSUME NEW k \in 1 .. FIELD_COUNT
      PROVE  Rewritten(body)[k] = RewrittenItem(CodecAt(k), body[k])
  <2>1. CASE k = 2
    BY <1>4, <2>1, PlanTable DEF RewrittenItem
  <2>2. CASE k = 10
    <3>1. body[10].content = c
      BY <1>1 DEF OpaqueItem
    <3>2. RewrittenItem("extensions", body[10]) = OpaqueItem("extensions", ExtWritten[c])
      BY <3>1 DEF RewrittenItem
    <3>. QED
      BY <1>5, <2>2, <3>2, PlanTable
  <2>3. CASE k \notin {2, 10}
    <3>1. CodecAt(k) \notin {"biguint", "extensions"}
      BY <2>3, PlanTable, Eleven
    <3>. QED
      BY <1>2, <1>6, <2>3, <3>1 DEF RewrittenItem
  <2>. QED
    BY <2>1, <2>2, <2>3
<1>. QED
  BY <1>2, <1>3, <1>7
-----------------------------------------------------------------------------
(* The invariant, action by action                                         *)

LEMMA InitIInv == Init => IInv
<1>. SUFFICES ASSUME Init PROVE IInv
  OBVIOUS
<1>1. /\ items = <<>> /\ rest = <<>> /\ fields = <<>> /\ decoder = "none"
      /\ \/ pc = "encode" /\ value \in Callers /\ wire = NoWire
         \/ pc = "decode" /\ value = NoValue /\ wire \in Foreign
  BY DEF Init
<1>2. <<>> \in Seq(Token) /\ DOMAIN fields = {}
  BY <1>1
<1>3. value \in Value \cup {NoValue} /\ wire \in Seq(Token)
  BY <1>1, <1>2, CallersAssumption, ForeignAssumption DEF NoWire
<1>4. TypeOK
  BY <1>1, <1>2, <1>3 DEF TypeOK, DataTypeOK, Calls
<1>5. EncoderInv /\ DecoderInv
  BY <1>1 DEF EncoderInv, DecoderInv
<1>6. HeldInv
  BY <1>1, CallersAssumption, ValueFacts DEF HeldInv
<1>. QED
  BY <1>4, <1>5, <1>6 DEF IInv

\* An item that is appended does not turn into a header.
LEMMA AppendFacts ==
  ASSUME NEW tokens \in Seq(Token), NEW item \in FieldItem
  PROVE  /\ Append(tokens, item) \in Seq(Token)
         /\ Lead(Append(tokens, item)) = Lead(tokens)
         /\ ProperHeader(tokens) => ProperHeader(Append(tokens, item))
<1>1. item \in Token /\ item.type \notin {"header", "header_indef"}
  BY TokenFacts
<1>2. CASE tokens = <<>>
  <2>1. Append(tokens, item)[1] = item
    BY <1>2
  <2>2. ~HasHeader(tokens) /\ ~HasHeader(Append(tokens, item))
    BY <1>1, <1>2, <2>1 DEF HasHeader
  <2>. QED
    BY <1>1, <2>2 DEF Lead, ProperHeader
<1>3. CASE tokens # <<>>
  <2>1. Append(tokens, item)[1] = tokens[1] /\ Append(tokens, item) # <<>>
    BY <1>1, <1>3
  <2>. QED
    BY <1>1, <1>3, <2>1 DEF Lead, ProperHeader, HasHeader, HasElevenHeader
<1>. QED
  BY <1>2, <1>3

LEMMA StartEncodeStep ==
  ASSUME IInv, NEW form \in Forms, StartEncode(form)
  PROVE  IInv'
<1>1. /\ pc = "encode" /\ pc' = "encoding"
      /\ UNCHANGED <<value, wire, rest, fields, decoder>>
      /\ items' = IF form = "array" THEN <<Header(FIELD_COUNT)>> ELSE <<>>
  BY DEF StartEncode, reading
<1>2. items' \in Seq(Token)
  <2>1. Header(FIELD_COUNT) \in Token
    BY DEF Header, FIELD_COUNT, Token
  <2>. QED
    BY <1>1, <2>1
<1>3. Len(items') = Lead(items') /\ ProperHeader(items')
  <2>1. CASE form = "array"
    <3>1. items' # <<>> /\ items'[1] = Header(FIELD_COUNT) /\ Len(items') = 1
      BY <1>1, <2>1
    <3>. QED
      BY <3>1 DEF Lead, ProperHeader, HasHeader, HasElevenHeader, Header
  <2>2. CASE form # "array"
    <3>1. items' = <<>> /\ Len(items') = 0
      BY <1>1, <2>2
    <3>. QED
      BY <3>1 DEF Lead, ProperHeader, HasHeader
  <2>. QED
    BY <2>1, <2>2
<1>4. TypeOK'
  BY <1>1, <1>2 DEF IInv, TypeOK, DataTypeOK, Calls
<1>5. EncoderInv'
  <2>1. Len(items') - Lead(items') = 0
    BY <1>2, <1>3
  <2>. QED
    BY <1>3, <2>1 DEF EncoderInv, FIELD_COUNT
<1>6. DecoderInv' /\ HeldInv'
  BY <1>1 DEF IInv, DecoderInv, HeldInv
<1>. QED
  BY <1>4, <1>5, <1>6 DEF IInv

\* While encoding, the number of fields written tells which one is next.
LEMMA EncodingFacts ==
  ASSUME IInv, pc = "encoding"
  PROVE  /\ value \in Value
         /\ WrittenFields = Len(items) - Lead(items)
         /\ WrittenFields \in 0 .. FIELD_COUNT
         /\ Encoding => /\ NextField = FieldAt(WrittenFields + 1)
                        /\ FieldEncoder = CodecAt(WrittenFields + 1)
                        /\ WrittenFields + 1 \in 1 .. FIELD_COUNT
<1>1. value \in Value
  BY DEF IInv, TypeOK, DataTypeOK, Calls, HeldInv
<1>2. WrittenFields = Len(items) - Lead(items)
  BY DEF WrittenFields, Lead
<1>3. WrittenFields \in 0 .. FIELD_COUNT
  BY <1>2 DEF IInv, EncoderInv
<1>4. NextField = FieldAt(WrittenFields + 1) /\ FieldEncoder = CodecAt(WrittenFields + 1)
  BY PlanFacts DEF NextField, FieldEncoder, FieldAt, CodecAt
<1>5. Encoding => WrittenFields + 1 \in 1 .. FIELD_COUNT
  BY <1>3 DEF Encoding, FIELD_COUNT
<1>. QED
  BY <1>1, <1>2, <1>3, <1>4, <1>5

LEMMA EncodeFieldStep ==
  ASSUME IInv, EncodeField
  PROVE  IInv'
<1>. DEFINE n == WrittenFields
            item == ItemOf(CodecAt(n + 1), value[FieldAt(n + 1)])
<1>1. /\ pc = "encoding" /\ Encoding /\ UNCHANGED <<pc, value, wire, rest, fields, decoder>>
      /\ CanWrite(FieldEncoder, value[NextField])
      /\ items' = Append(items, ItemOf(FieldEncoder, value[NextField]))
  BY DEF EncodeField, Encoding, reading
<1>2. /\ value \in Value /\ n = Len(items) - Lead(items) /\ n \in 0 .. FIELD_COUNT
      /\ n + 1 \in 1 .. FIELD_COUNT
      /\ NextField = FieldAt(n + 1) /\ FieldEncoder = CodecAt(n + 1)
  BY <1>1, EncodingFacts
<1>3. items' = Append(items, item) /\ CanWrite(CodecAt(n + 1), value[FieldAt(n + 1)])
  BY <1>1, <1>2
<1>. HIDE DEF n
<1>4. item \in FieldItem
  BY <1>2, <1>3, PlanFacts, ValueFacts, WrittenIsRead
<1>. HIDE DEF item
<1>5. items \in Seq(Token) /\ Lead(items) \in {0, 1}
  BY DEF IInv, TypeOK, DataTypeOK, Calls, Lead
<1>6. items' \in Seq(Token) /\ Lead(items') = Lead(items) /\ ProperHeader(items')
  BY <1>1, <1>3, <1>4, <1>5, AppendFacts DEF IInv, EncoderInv
<1>7. Len(items') = Len(items) + 1 /\ Len(items) \in Nat
  BY <1>3, <1>5
<1>8. Len(items') - Lead(items') = n + 1
  BY <1>2, <1>5, <1>6, <1>7 DEF FIELD_COUNT
<1>9. ASSUME NEW k \in 1 .. n + 1
      PROVE  WrittenAs(items', Lead(items'), k, value')
  <2>1. CASE k = n + 1
    <3>1. items'[Lead(items) + k] = item
      <4>1. Lead(items) + k = Len(items) + 1
        BY <1>2, <1>5, <1>7, <2>1 DEF FIELD_COUNT
      <4>. QED
        BY <1>3, <1>5, <4>1
    <3>. QED
      BY <1>1, <1>3, <1>6, <2>1, <3>1 DEF WrittenAs, item
  <2>2. CASE k # n + 1
    <3>1. k \in 1 .. n
      BY <1>2, <2>2 DEF FIELD_COUNT
    <3>2. WrittenAs(items, Lead(items), k, value)
      BY <1>1, <1>2, <3>1 DEF IInv, EncoderInv
    <3>3. Lead(items) + k \in 1 .. Len(items)
      BY <1>2, <1>5, <1>7, <3>1 DEF FIELD_COUNT
    <3>4. items'[Lead(items) + k] = items[Lead(items) + k]
      BY <1>3, <1>5, <3>3
    <3>. QED
      BY <1>1, <1>6, <3>2, <3>4 DEF WrittenAs
  <2>. QED
    BY <2>1, <2>2
<1>10. TypeOK'
  BY <1>1, <1>6 DEF IInv, TypeOK, DataTypeOK, Calls
<1>11. EncoderInv'
  <2>1. n + 1 \in 0 .. FIELD_COUNT
    BY <1>2 DEF FIELD_COUNT
  <2>. QED
    BY <1>6, <1>8, <1>9, <2>1 DEF EncoderInv
<1>12. DecoderInv' /\ HeldInv'
  BY <1>1 DEF IInv, DecoderInv, HeldInv
<1>. QED
  BY <1>10, <1>11, <1>12 DEF IInv

LEMMA PanicStep ==
  ASSUME IInv, Panic
  PROVE  IInv'
<1>1. pc = "encoding" /\ pc' = "panicked" /\ UNCHANGED <<value, wire, items, rest, fields, decoder>>
  BY DEF Panic, Encoding, reading
<1>2. TypeOK' /\ EncoderInv' /\ DecoderInv' /\ HeldInv'
  BY <1>1 DEF IInv, TypeOK, DataTypeOK, Calls, EncoderInv, DecoderInv, HeldInv
<1>. QED
  BY <1>2 DEF IInv

\* When the encoder ends, the bytes were written for the certificate.
LEMMA EncodeEndFacts ==
  ASSUME IInv, EncodeEnd
  PROVE  /\ pc = "encoding" /\ value \in Value /\ wire' = items
         /\ WrittenAsAll(items, value)
<1>1. pc = "encoding" /\ WrittenFields = FIELD_COUNT /\ wire' = items
  BY DEF EncodeEnd
<1>2. value \in Value /\ Len(items) - Lead(items) = FIELD_COUNT
  BY <1>1, EncodingFacts
<1>3. Len(items) >= Lead(items) + FIELD_COUNT
  <2>1. Len(items) \in Nat /\ Lead(items) \in {0, 1}
    BY DEF IInv, TypeOK, DataTypeOK, Calls, Lead
  <2>. QED
    BY <1>2, <2>1 DEF FIELD_COUNT
<1>. QED
  BY <1>1, <1>2, <1>3 DEF IInv, EncoderInv, WrittenAsAll

LEMMA EncodeEndStep ==
  ASSUME IInv, EncodeEnd
  PROVE  IInv'
<1>1. pc' = "decode" /\ wire' = items /\ UNCHANGED <<value, items, rest, fields, decoder>>
  BY DEF EncodeEnd, reading
<1>2. WrittenAsAll(items, value) /\ items \in Seq(Token)
  BY EncodeEndFacts DEF IInv, TypeOK, DataTypeOK, Calls
<1>3. wire' # NoWire
  BY <1>1, <1>2, BodyFacts DEF WrittenAsAll
<1>4. TypeOK'
  BY <1>1 DEF IInv, TypeOK, DataTypeOK, Calls
<1>5. EncoderInv' /\ DecoderInv'
  BY <1>1 DEF EncoderInv, DecoderInv
<1>6. HeldInv'
  BY <1>1, <1>2, <1>3 DEF HeldInv
<1>. QED
  BY <1>4, <1>5, <1>6 DEF IInv

-----------------------------------------------------------------------------
(* The decoder's actions                                                   *)

LEMMA RefuseStep ==
  ASSUME IInv, pc \in {"decode", "decoding", "refused"}, NEW with \in Decoders, Refuse(with)
  PROVE  IInv'
<1>1. pc' = "refused" /\ decoder' = with /\ UNCHANGED <<value, wire, items, rest, fields>>
  BY DEF Refuse
<1>2. TypeOK' /\ EncoderInv' /\ DecoderInv' /\ HeldInv'
  BY <1>1 DEF IInv, TypeOK, DataTypeOK, Calls, EncoderInv, DecoderInv, HeldInv
<1>. QED
  BY <1>2 DEF IInv

\* A decoder begins behind the header it looked at.
LEMMA StartFieldsStep ==
  ASSUME IInv, MayDecode, NEW with \in Decoders, NEW input, StartFields(with, input),
         with = "decode" => HasHeader(wire),
         with # "decode_sequence" => ProperHeader(wire),
         input = IF with # "decode_sequence" /\ HasHeader(wire) THEN Tail(wire) ELSE wire
  PROVE  IInv'
<1>1. /\ pc' = "decoding" /\ decoder' = with /\ rest' = input /\ fields' = <<>>
      /\ UNCHANGED <<value, wire, items>>
  BY DEF StartFields
<1>2. wire \in Seq(Token)
  BY DEF IInv, TypeOK, DataTypeOK, Calls
<1>. DEFINE lead == IF with = "decode_sequence" THEN 0 ELSE Lead(wire)
<1>3. /\ input \in Seq(Token) /\ Len(input) = Len(wire) - lead /\ lead \in {0, 1}
      /\ \A i \in 1 .. Len(input) : input[i] = wire[lead + i]
  <2>1. CASE with # "decode_sequence" /\ HasHeader(wire)
    <3>1. wire # <<>> /\ input = Tail(wire) /\ lead = 1
      BY <2>1 DEF HasHeader, Lead
    <3>. HIDE DEF lead
    <3>2. Len(input) = Len(wire) - 1 /\ input \in Seq(Token)
      BY <1>2, <3>1
    <3>3. \A i \in 1 .. Len(input) : input[i] = wire[1 + i]
      <4>. SUFFICES ASSUME NEW i \in 1 .. Len(input)
                    PROVE  input[i] = wire[1 + i]
        OBVIOUS
      <4>. QED
        BY <1>2, <3>1, <3>2
    <3>. QED
      BY <3>1, <3>2, <3>3
  <2>2. CASE ~(with # "decode_sequence" /\ HasHeader(wire))
    <3>1. input = wire /\ lead = 0
      BY <2>2 DEF Lead
    <3>. HIDE DEF lead
    <3>2. \A i \in 1 .. Len(wire) : i = 0 + i
      BY <1>2
    <3>3. Len(wire) = Len(wire) - 0
      BY <1>2
    <3>. QED
      BY <1>2, <3>1, <3>2, <3>3, Zenon
  <2>. QED
    BY <2>1, <2>2
<1>4. Start' = lead
  BY <1>1 DEF Start, Lead, HasHeader
<1>. HIDE DEF lead
<1>5. HasRead(0)'
  <2>1. FirstFields(0) = {} /\ fields' = [f \in FirstFields(0) |-> fields'[f]]
    BY <1>1 DEF FirstFields
  <2>2. Len(rest') = Len(wire') - (Start' + 0)
    BY <1>1, <1>3, <1>4
  <2>3. \A i \in 1 .. Len(rest') : rest'[i] = wire'[Start' + 0 + i]
    BY <1>1, <1>3, <1>4
  <2>. QED
    BY <2>1, <2>2, <2>3 DEF HasRead
<1>6. TypeOK'
  <2>1. DOMAIN fields' = {}
    BY <1>1
  <2>. QED
    BY <1>1, <1>3, <2>1 DEF IInv, TypeOK, DataTypeOK, Calls
<1>7. DecoderInv'
  <2>1. ProperHeader(wire)' = ProperHeader(wire) /\ HasHeader(wire)' = HasHeader(wire)
    BY <1>1 DEF ProperHeader, HasHeader, HasElevenHeader
  <2>2. 0 \in 0 .. FIELD_COUNT
    BY DEF FIELD_COUNT
  <2>. QED
    BY <1>1, <1>5, <2>1, <2>2 DEF DecoderInv
<1>8. EncoderInv' /\ HeldInv'
  BY <1>1 DEF IInv, EncoderInv, HeldInv, MayDecode
<1>. QED
  BY <1>6, <1>7, <1>8 DEF IInv

LEMMA DecodeStep ==
  ASSUME IInv, Decode \/ DecodeSequence \/ DecodeCertificate
  PROVE  IInv'
<1>0. MayDecode /\ pc \in {"decode", "decoding", "refused"}
  BY DEF Decode, DecodeSequence, DecodeCertificate, MayDecode
<1>1. HasElevenHeader(wire) => HasHeader(wire) /\ ProperHeader(wire)
  BY DEF HasElevenHeader, HasHeader, ProperHeader, Header
<1>2. ASSUME NEW with \in {"decode", "decode_certificate"}, DecodeArray(with)
      PROVE  IInv'
  <2>1. CASE HasElevenHeader(wire)
    <3>1. StartFields(with, Tail(wire))
      BY <1>2, <2>1 DEF DecodeArray
    <3>. QED
      BY <1>0, <1>1, <2>1, <3>1, StartFieldsStep DEF Decoders
  <2>2. CASE ~HasElevenHeader(wire)
    <3>1. Refuse(with)
      BY <1>2, <2>2 DEF DecodeArray
    <3>. QED
      BY <1>0, <3>1, RefuseStep DEF Decoders
  <2>. QED
    BY <2>1, <2>2
<1>3. CASE Decode
  BY <1>2, <1>3 DEF Decode
<1>4. CASE DecodeSequence
  BY <1>0, <1>4, StartFieldsStep DEF DecodeSequence, Decoders
<1>5. CASE DecodeCertificate
  <2>1. CASE HasHeader(wire)
    BY <1>2, <1>5, <2>1 DEF DecodeCertificate
  <2>2. CASE ~HasHeader(wire)
    <3>1. StartFields("decode_certificate", wire) /\ ProperHeader(wire)
      BY <1>5, <2>2 DEF DecodeCertificate, ProperHeader
    <3>. QED
      BY <1>0, <2>2, <3>1, StartFieldsStep DEF Decoders
  <2>. QED
    BY <2>1, <2>2
<1>. QED
  BY <1>3, <1>4, <1>5

\* n distinct fields are n fields.
LEMMA FieldCount ==
  ASSUME NEW n \in 0 .. FIELD_COUNT
  PROVE  Cardinality(FirstFields(n)) = n
<1>. DEFINE f == [k \in 1 .. n |-> FieldAt(k)]
<1>1. \A k \in 1 .. n : k \in 1 .. FIELD_COUNT
  BY DEF FIELD_COUNT
<1>2. f \in Injection(1 .. n, FirstFields(n))
  <2>1. f \in [1 .. n -> FirstFields(n)]
    BY DEF FirstFields
  <2>2. ASSUME NEW a \in 1 .. n, NEW b \in 1 .. n, f[a] = f[b]
        PROVE  a = b
    <3>1. FieldAt(a) = FieldAt(b)
      BY <2>2
    <3>. QED
      BY <1>1, <3>1, PlanFacts
  <2>3. IsInjective(f)
    BY <2>2 DEF IsInjective
  <2>. HIDE DEF f
  <2>. QED
    BY <2>1, <2>3 DEF Injection
<1>3. f \in Surjection(1 .. n, FirstFields(n))
  BY DEF Surjection, FirstFields
<1>4. ExistsBijection(1 .. n, FirstFields(n))
  BY <1>2, <1>3 DEF ExistsBijection, Bijection
<1>5. n \in Nat
  BY DEF FIELD_COUNT
<1>. QED
  BY <1>4, <1>5, FS_CountingElements

\* While decoding, the number of fields read tells which one is next.
LEMMA DecodingFacts ==
  ASSUME IInv, pc = "decoding"
  PROVE  /\ ReadFields \in 0 .. FIELD_COUNT /\ HasRead(ReadFields)
         /\ Start \in {0, 1} /\ decoder \in Decoders
         /\ Len(rest) \in Nat /\ Len(wire) \in Nat
         /\ Decoding => /\ Field = FieldAt(ReadFields + 1)
                        /\ FieldDecoder = CodecAt(ReadFields + 1)
                        /\ ReadFields + 1 \in 1 .. FIELD_COUNT
<1>1. PICK n \in 0 .. FIELD_COUNT : HasRead(n)
  BY DEF IInv, DecoderInv
<1>2. DOMAIN fields = FirstFields(n)
  BY <1>1 DEF HasRead
<1>3. ReadFields = n
  BY <1>2, FieldCount DEF ReadFields
<1>4. Start \in {0, 1} /\ decoder \in Decoders /\ Len(rest) \in Nat /\ Len(wire) \in Nat
  BY DEF IInv, DecoderInv, TypeOK, DataTypeOK, Calls, Start, Lead
<1>5. Field = FieldAt(ReadFields + 1) /\ FieldDecoder = CodecAt(ReadFields + 1)
  BY DEF Field, FieldDecoder, FieldAt, CodecAt
<1>6. Decoding => ReadFields + 1 \in 1 .. FIELD_COUNT
  BY <1>3 DEF Decoding, FIELD_COUNT
<1>. QED
  BY <1>1, <1>3, <1>4, <1>5, <1>6

LEMMA DecodeFieldStep ==
  ASSUME IInv, DecodeField
  PROVE  IInv'
<1>. DEFINE item == rest[1]
<1>0. pc = "decoding"
  BY DEF DecodeField, Decoding
<1>. PICK n \in 0 .. FIELD_COUNT : n = ReadFields
  BY <1>0, DecodingFacts
<1>1. /\ pc = "decoding" /\ Decoding /\ rest # <<>> /\ Accepts(FieldDecoder, item)
      /\ rest' = Tail(rest) /\ UNCHANGED <<pc, value, wire, items, decoder>>
      /\ fields' = [f \in DOMAIN fields \cup {Field} |->
                       IF f = Field THEN Read(FieldDecoder, item) ELSE fields[f]]
  BY DEF DecodeField, Decoding, HasNext
<1>2. /\ n \in 0 .. FIELD_COUNT /\ HasRead(n) /\ Start \in {0, 1} /\ decoder \in Decoders
      /\ Len(rest) \in Nat /\ Len(wire) \in Nat
      /\ Field = FieldAt(n + 1) /\ FieldDecoder = CodecAt(n + 1) /\ n + 1 \in 1 .. FIELD_COUNT
  BY <1>1, DecodingFacts
<1>. HIDE DEF item
<1>3. Accepts(CodecAt(n + 1), item)
  BY <1>1, <1>2
<1>4. DOMAIN fields = FirstFields(n)
  BY <1>2 DEF HasRead
<1>5. FirstFields(n + 1) = FirstFields(n) \cup {FieldAt(n + 1)}
  <2>1. 1 .. n + 1 = (1 .. n) \cup {n + 1}
    BY <1>2 DEF FIELD_COUNT
  <2>. QED
    BY <2>1 DEF FirstFields
<1>6. fields' = [f \in FirstFields(n + 1) |->
                   IF f = FieldAt(n + 1) THEN Read(CodecAt(n + 1), item) ELSE fields[f]]
  BY <1>1, <1>2, <1>4, <1>5
<1>7. /\ rest \in Seq(Token) /\ rest' \in Seq(Token) /\ Len(rest') = Len(rest) - 1
      /\ \A i \in 1 .. Len(rest') : rest'[i] = rest[i + 1] /\ i + 1 \in 1 .. Len(rest)
      /\ 1 \in 1 .. Len(rest)
  BY <1>1 DEF IInv, TypeOK, DataTypeOK, Calls
<1>8. item \in Token /\ item = wire[Start + n + 1]
  BY <1>2, <1>7 DEF HasRead, item
<1>9. Start' = Start
  BY <1>1 DEF Start, Lead, HasHeader
<1>10. ASSUME NEW k \in 1 .. n + 1
       PROVE  ReadFrom(wire, Start, k, fields')
  <2>0. FieldAt(k) \in FirstFields(n + 1)
    BY DEF FirstFields
  <2>1. CASE k = n + 1
    <3>1. fields'[FieldAt(k)] = Read(CodecAt(k), item)
      BY <1>6, <2>0, <2>1
    <3>2. Start + k = Start + n + 1
      BY <1>2, <2>1 DEF FIELD_COUNT
    <3>. QED
      BY <1>3, <1>8, <2>1, <3>1, <3>2 DEF ReadFrom
  <2>2. CASE k # n + 1
    <3>1. k \in 1 .. n /\ k \in 1 .. FIELD_COUNT
      BY <1>2, <2>2 DEF FIELD_COUNT
    <3>2. FieldAt(k) # FieldAt(n + 1)
      BY <1>2, <2>2, <3>1, PlanFacts
    <3>3. fields'[FieldAt(k)] = fields[FieldAt(k)]
      BY <1>6, <2>0, <3>2
    <3>4. ReadFrom(wire, Start, k, fields)
      BY <1>2, <3>1 DEF HasRead
    <3>. QED
      BY <3>3, <3>4 DEF ReadFrom
  <2>. QED
    BY <2>1, <2>2
<1>11. HasRead(n + 1)'
  <2>1. fields' = [f \in FirstFields(n + 1) |-> fields'[f]]
    BY <1>6
  <2>2. Len(rest') = Len(wire') - (Start' + (n + 1))
    <3>1. Len(rest) = Len(wire) - (Start + n)
      BY <1>2 DEF HasRead
    <3>2. n \in Nat /\ Start \in Nat
      BY <1>2 DEF FIELD_COUNT
    <3>3. Len(rest') = Len(wire) - (Start + (n + 1))
      BY <1>2, <1>7, <3>1, <3>2
    <3>. QED
      BY <1>1, <1>9, <3>3
  <2>3. \A i \in 1 .. Len(rest') : rest'[i] = wire'[Start' + (n + 1) + i]
    <3>. SUFFICES ASSUME NEW i \in 1 .. Len(rest')
                  PROVE  rest'[i] = wire'[Start' + (n + 1) + i]
      OBVIOUS
    <3>1. rest'[i] = wire[Start + n + (i + 1)]
      BY <1>2, <1>7 DEF HasRead
    <3>2. Start + n + (i + 1) = Start + (n + 1) + i
      BY <1>2, <1>7 DEF FIELD_COUNT
    <3>. QED
      BY <1>1, <1>9, <3>1, <3>2
  <2>4. \A k \in 1 .. n + 1 : ReadFrom(wire, Start, k, fields)'
    BY <1>1, <1>9, <1>10 DEF ReadFrom
  <2>. QED
    BY <2>1, <2>2, <2>3, <2>4 DEF HasRead
<1>12. TypeOK'
  <2>1. CodecAt(n + 1) \in Codecs /\ FieldAt(n + 1) \in FieldNames
    BY <1>2, PlanFacts
  <2>2. Read(CodecAt(n + 1), item) \in TypeOf(CodecAt(n + 1))
    BY <1>3, <1>8, <2>1, TokenFacts, ReadIsWritten
  <2>3. DOMAIN fields' \subseteq FieldNames
    BY <1>1, <1>2, <2>1 DEF IInv, TypeOK, DataTypeOK, Calls
  <2>4. ASSUME NEW k \in 1 .. FIELD_COUNT, FieldAt(k) \in DOMAIN fields'
        PROVE  fields'[FieldAt(k)] \in TypeOf(CodecAt(k))
    <3>1. CASE k = n + 1
      BY <1>6, <2>2, <2>4, <3>1
    <3>2. CASE k # n + 1
      <4>1. FieldAt(k) # FieldAt(n + 1)
        BY <1>2, <3>2, PlanFacts
      <4>2. FieldAt(k) \in DOMAIN fields /\ fields'[FieldAt(k)] = fields[FieldAt(k)]
        BY <1>4, <1>5, <1>6, <2>4, <4>1
      <4>. QED
        BY <4>2 DEF IInv, TypeOK, DataTypeOK, Calls, FieldAt, CodecAt
    <3>. QED
      BY <3>1, <3>2
  <2>. QED
    BY <1>1, <1>7, <2>3, <2>4 DEF IInv, TypeOK, DataTypeOK, Calls, FieldAt, CodecAt
<1>13. DecoderInv'
  <2>1. n + 1 \in 0 .. FIELD_COUNT
    BY <1>2 DEF FIELD_COUNT
  <2>2. ProperHeader(wire)' = ProperHeader(wire) /\ HasHeader(wire)' = HasHeader(wire)
    BY <1>1 DEF ProperHeader, HasHeader, HasElevenHeader
  <2>. QED
    BY <1>1, <1>11, <2>1, <2>2 DEF IInv, DecoderInv
<1>14. EncoderInv' /\ HeldInv'
  BY <1>1 DEF IInv, EncoderInv, HeldInv
<1>. QED
  BY <1>12, <1>13, <1>14 DEF IInv

LEMMA RefuseFieldStep ==
  ASSUME IInv, RefuseField
  PROVE  IInv'
<1>1. pc = "decoding" /\ Refuse(decoder)
  BY DEF RefuseField, Decoding
<1>. QED
  BY <1>1, DecodingFacts, RefuseStep

\* When the decoder ends, it has read all fields of bytes of its own form.
LEMMA DecodeEndFacts ==
  ASSUME IInv, DecodeEnd
  PROVE  /\ pc = "decoding" /\ pc' = "encode" /\ value' = fields
         /\ UNCHANGED <<wire, items, rest, fields, decoder>>
         /\ wire \in Seq(Token) /\ wire # NoWire
         /\ ~WrongForm(decoder, wire)
         /\ ReadFromAll(wire, fields) /\ fields \in Value
<1>1. /\ pc = "decoding" /\ pc' = "encode" /\ value' = fields /\ ReadFields = FIELD_COUNT
      /\ UNCHANGED <<wire, items, rest, fields, decoder>>
  BY DEF DecodeEnd, reading
<1>2. /\ HasRead(FIELD_COUNT) /\ Start \in {0, 1} /\ decoder \in Decoders
      /\ Len(rest) \in Nat /\ Len(wire) \in Nat
  BY <1>1, DecodingFacts
<1>3. wire \in Seq(Token)
  BY DEF IInv, TypeOK, DataTypeOK, Calls
<1>4. Len(wire) >= Start + FIELD_COUNT
  BY <1>2 DEF HasRead, FIELD_COUNT
<1>5. \A k \in 1 .. FIELD_COUNT : Start + k \in 1 .. Len(wire)
  BY <1>2, <1>4 DEF FIELD_COUNT
<1>6. \A k \in 1 .. FIELD_COUNT : ReadFrom(wire, Start, k, fields)
  BY <1>2 DEF HasRead
<1>7. \A k \in 1 .. FIELD_COUNT : /\ wire[Start + k] \in FieldItem
                                 /\ fields[FieldAt(k)] \in TypeOf(CodecAt(k))
  BY <1>3, <1>5, <1>6, ReadFieldFacts
<1>8. decoder = "decode_sequence" => ~HasHeader(wire)
  <2>1. Start = 0 => wire[1] \in FieldItem
    BY <1>7 DEF FIELD_COUNT
  <2>. QED
    BY <2>1, TokenFacts DEF Start, HasHeader
<1>9. Start = Lead(wire) /\ ProperHeader(wire)
  BY <1>1, <1>8 DEF Start, Lead, IInv, DecoderInv, ProperHeader
<1>10. ~WrongForm(decoder, wire)
  BY <1>1, <1>8 DEF WrongForm, IInv, DecoderInv
<1>11. fields \in Value
  BY <1>2, <1>7, PlanFacts, ValueFacts DEF HasRead
<1>12. ReadFromAll(wire, fields)
  BY <1>4, <1>6, <1>9 DEF ReadFromAll
<1>13. wire # NoWire
  BY <1>3, <1>12, BodyFacts DEF ReadFromAll
<1>. QED
  BY <1>1, <1>3, <1>10, <1>11, <1>12, <1>13

LEMMA DecodeEndStep ==
  ASSUME IInv, DecodeEnd
  PROVE  IInv'
<1>1. /\ pc' = "encode" /\ value' = fields
      /\ UNCHANGED <<wire, items, rest, fields, decoder>>
      /\ ReadFromAll(wire, fields) /\ fields \in Value /\ fields # NoValue
  BY DecodeEndFacts, ValueFacts
<1>2. TypeOK'
  BY <1>1 DEF IInv, TypeOK, DataTypeOK, Calls
<1>3. EncoderInv' /\ DecoderInv'
  BY <1>1 DEF EncoderInv, DecoderInv
<1>4. HeldInv'
  BY <1>1 DEF HeldInv
<1>. QED
  BY <1>2, <1>3, <1>4 DEF IInv

LEMMA StepIInv == IInv /\ [Next]_vars => IInv'
<1>. SUFFICES ASSUME IInv, [Next]_vars PROVE IInv'
  OBVIOUS
<1>1. ASSUME NEW form \in Forms, StartEncode(form) PROVE IInv'
  BY <1>1, StartEncodeStep
<1>2. CASE EncodeField
  BY <1>2, EncodeFieldStep
<1>3. CASE Panic
  BY <1>3, PanicStep
<1>4. CASE EncodeEnd
  BY <1>4, EncodeEndStep
<1>5. CASE Decode \/ DecodeSequence \/ DecodeCertificate
  BY <1>5, DecodeStep
<1>6. CASE DecodeField
  BY <1>6, DecodeFieldStep
<1>7. CASE RefuseField
  BY <1>7, RefuseFieldStep
<1>8. CASE DecodeEnd
  BY <1>8, DecodeEndStep
<1>9. CASE UNCHANGED vars
  <2>1. UNCHANGED <<pc, value, wire, items, rest, fields, decoder>>
    BY <1>9 DEF vars
  <2>2. Start' = Start
    BY <2>1 DEF Start, Lead, HasHeader
  <2>3. DecoderInv'
    BY <2>1, <2>2 DEF IInv, DecoderInv, HasRead, ProperHeader, HasHeader, HasElevenHeader
  <2>. QED
    BY <2>1, <2>3 DEF IInv, TypeOK, DataTypeOK, Calls, EncoderInv, HeldInv
<1>. QED
  BY <1>1, <1>2, <1>3, <1>4, <1>5, <1>6, <1>7, <1>8, <1>9 DEF Next

-----------------------------------------------------------------------------
(* The theorems                                                            *)

\* A session always relates the certificate to the bytes: the invariant.
THEOREM Invariance == Spec => []IInv
BY InitIInv, StepIInv, PTL DEF Spec

\* Whatever is called in whatever order, every variable keeps its type: what
\* decode_fields returns is a certificate with all its fields.
THEOREM TypeCorrect == Spec => []TypeOK
<1>1. IInv => TypeOK
  BY DEF IInv
<1>. QED
  BY <1>1, Invariance, PTL

\* The refusal of an input without the right header.
RefusesHeader ==
  /\ MayDecode /\ ~HasElevenHeader(wire)
  /\ \/ decoder' = "decode"
     \/ decoder' = "decode_certificate" /\ HasHeader(wire)

\* Only these actions change the certificate, the bytes, or end in a refusal.
LEMMA ChangeFacts ==
  ASSUME IInv, Next
  PROVE  /\ value' # value => DecodeEnd
         /\ wire' # wire => EncodeEnd
         /\ pc' = "refused" => /\ UNCHANGED <<value, wire>>
                               /\ RefusesHeader \/ RefuseField
         /\ pc = "decoding" /\ pc' = "encode" => DecodeEnd
<1>1. ASSUME NEW form \in Forms, StartEncode(form)
      PROVE  UNCHANGED <<value, wire>> /\ pc = "encode" /\ pc' = "encoding"
  BY <1>1 DEF StartEncode
<1>2. CASE EncodeField
  BY <1>2 DEF EncodeField, Encoding
<1>3. CASE Panic
  BY <1>3 DEF Panic, Encoding
<1>4. CASE EncodeEnd
  BY <1>4 DEF EncodeEnd
<1>5. CASE Decode
  BY <1>5 DEF Decode, DecodeArray, StartFields, Refuse, RefusesHeader, MayDecode
<1>6. CASE DecodeSequence
  BY <1>6 DEF DecodeSequence, StartFields, MayDecode
<1>7. CASE DecodeCertificate
  BY <1>7 DEF DecodeCertificate, DecodeArray, StartFields, Refuse, RefusesHeader, MayDecode
<1>8. CASE DecodeField
  BY <1>8 DEF DecodeField, Decoding
<1>9. CASE RefuseField
  BY <1>9 DEF RefuseField, Refuse, Decoding
<1>10. CASE DecodeEnd
  BY <1>10 DEF DecodeEnd
<1>. QED
  BY <1>1, <1>2, <1>3, <1>4, <1>5, <1>6, <1>7, <1>8, <1>9, <1>10 DEF Next

\* Bytes that belong to a certificate are accepted, field by field.
LEMMA HeldIsAccepted ==
  ASSUME NEW tokens \in Seq(Token), NEW v \in Value,
         ReadFromAll(tokens, v) \/ WrittenAsAll(tokens, v)
  PROVE  /\ ProperHeader(tokens)
         /\ Len(tokens) >= Lead(tokens) + FIELD_COUNT
         /\ \A k \in 1 .. FIELD_COUNT : Accepts(CodecAt(k), tokens[Lead(tokens) + k])
<1>1. CASE ReadFromAll(tokens, v)
  BY <1>1 DEF ReadFromAll, ReadFrom
<1>2. CASE WrittenAsAll(tokens, v)
  BY <1>2, WrittenFieldFacts DEF WrittenAsAll
<1>. QED
  BY <1>1, <1>2

\* Bytes that belong to a certificate, held or not, are refused by the function
\* for the other form only.
LEMMA BelongingIsRead ==
  ASSUME IInv, NEW v \in Value, ReadFromAll(wire, v) \/ WrittenAsAll(wire, v),
         RefusesHeader \/ RefuseField, ~WrongForm(decoder', wire)
  PROVE  FALSE
<1>1. wire \in Seq(Token)
  BY DEF IInv, TypeOK, DataTypeOK, Calls
<1>2. /\ ProperHeader(wire) /\ Len(wire) >= Lead(wire) + FIELD_COUNT
      /\ \A k \in 1 .. FIELD_COUNT : Accepts(CodecAt(k), wire[Lead(wire) + k])
  BY <1>1, HeldIsAccepted
<1>3. CASE RefuseField
  <2>1. pc = "decoding" /\ Decoding /\ ~HasNext /\ decoder' = decoder
    BY <1>3 DEF RefuseField, Decoding, Refuse
  <2>. PICK n \in 0 .. FIELD_COUNT : n = ReadFields
    BY <2>1, DecodingFacts
  <2>2. /\ HasRead(n) /\ decoder \in Decoders /\ Len(rest) \in Nat /\ Len(wire) \in Nat
        /\ FieldDecoder = CodecAt(n + 1) /\ n + 1 \in 1 .. FIELD_COUNT
    BY <2>1, DecodingFacts
  <2>3. Start = Lead(wire)
    BY <2>1, <2>2 DEF WrongForm, Start, Lead
  <2>4. Lead(wire) \in {0, 1}
    BY DEF Lead
  <2>5. Len(rest) >= 1
    <3>1. Len(rest) = Len(wire) - (Lead(wire) + n)
      BY <2>2, <2>3 DEF HasRead
    <3>2. Len(wire) >= Lead(wire) + 11 /\ n + 1 \in 1 .. 11
      BY <1>2, <2>2 DEF FIELD_COUNT
    <3>. HIDE DEF FIELD_COUNT
    <3>. QED
      BY <2>2, <2>4, <3>1, <3>2
  <2>6. rest[1] = wire[Lead(wire) + n + 1] /\ rest # <<>>
    BY <2>2, <2>3, <2>5 DEF HasRead
  <2>7. Lead(wire) + n + 1 = Lead(wire) + (n + 1)
    BY <2>2, <2>4 DEF FIELD_COUNT
  <2>8. Accepts(FieldDecoder, rest[1])
    BY <1>2, <2>2, <2>6, <2>7
  <2>. QED
    BY <2>1, <2>6, <2>8 DEF HasNext
<1>4. CASE RefusesHeader
  <2>1. ~HasElevenHeader(wire) /\ HasHeader(wire)
    BY <1>4 DEF RefusesHeader, WrongForm
  <2>. QED
    BY <1>2, <2>1 DEF ProperHeader
<1>. QED
  BY <1>3, <1>4

\* The encoder writes what can be encoded to the end, and panics over the rest.
LEMMA EncodableIsWritten ==
  ASSUME IInv
  PROVE  (EncodeEnd => Encodable(value)) /\ (Panic => ~Encodable(value))
<1>1. \A k \in 1 .. FIELD_COUNT : EncodePlan[k][1] = FieldAt(k) /\ EncodePlan[k][2] = CodecAt(k)
  BY PlanFacts DEF FieldAt, CodecAt
<1>2. ASSUME EncodeEnd PROVE Encodable(value)
  <2>1. WrittenAsAll(items, value)
    BY <1>2, EncodeEndFacts
  <2>. QED
    BY <1>1, <2>1 DEF WrittenAsAll, WrittenAs, Encodable
<1>3. ASSUME Panic PROVE ~Encodable(value)
  <2>1. pc = "encoding" /\ Encoding /\ ~CanWrite(FieldEncoder, value[NextField])
    BY <1>3 DEF Panic, Encoding
  <2>. PICK k \in 1 .. FIELD_COUNT : k = WrittenFields + 1
    BY <2>1, EncodingFacts
  <2>2. NextField = FieldAt(k) /\ FieldEncoder = CodecAt(k)
    BY <2>1, EncodingFacts
  <2>. QED
    BY <1>1, <2>1, <2>2 DEF Encodable
<1>. QED
  BY <1>2, <1>3

\* Bytes of one form are never read by the function for the other; bytes that
\* belong to a certificate are refused by that function only.
LEMMA FormsStep ==
  IInv /\ Next => /\ pc = "decoding" /\ pc' = "encode" => ~WrongForm(decoder, wire)
                  /\ value # NoValue /\ pc' = "refused" => WrongForm(decoder', wire)
<1>. SUFFICES ASSUME IInv, Next
              PROVE  /\ pc = "decoding" /\ pc' = "encode" => ~WrongForm(decoder, wire)
                     /\ value # NoValue /\ pc' = "refused" => WrongForm(decoder', wire)
  OBVIOUS
<1>1. pc = "decoding" /\ pc' = "encode" => ~WrongForm(decoder, wire)
  BY ChangeFacts, DecodeEndFacts
<1>2. ASSUME value # NoValue, pc' = "refused", ~WrongForm(decoder', wire)
      PROVE  FALSE
  <2>1. RefusesHeader \/ RefuseField
    BY <1>2, ChangeFacts
  <2>2. value \in Value
    BY <1>2 DEF IInv, TypeOK, DataTypeOK, Calls
  <2>3. pc \in {"decode", "decoding", "refused"}
    BY <2>1 DEF RefusesHeader, MayDecode, RefuseField, Decoding
  <2>4. ReadFromAll(wire, value) \/ WrittenAsAll(wire, value)
    BY <1>2, <2>3 DEF IInv, HeldInv
  <2>. QED
    BY <1>2, <2>1, <2>2, <2>4, BelongingIsRead
<1>. QED
  BY <1>1, <1>2

\* In every session the forms are told apart.
THEOREM NeverConfused == Spec => FormsAreToldApart
BY Invariance, FormsStep, PTL DEF Spec, FormsAreToldApart

\* What is read can be encoded, unless its extension list cannot.
LEMMA EncodableStep ==
  IInv /\ Next => (value = NoValue /\ value' # NoValue /\ pc = "decoding"
                     => Encodable(value') \/ value'.extensions.content \in Unencodable)
<1>. SUFFICES ASSUME IInv, Next, value = NoValue, value' # NoValue
              PROVE  Encodable(value') \/ value'.extensions.content \in Unencodable
  OBVIOUS
<1>1. DecodeEnd
  BY ChangeFacts
<1>2. value' = fields /\ wire \in Seq(Token) /\ ReadFromAll(wire, fields)
  BY <1>1, DecodeEndFacts
<1>3. ASSUME NEW k \in 1 .. FIELD_COUNT
      PROVE  \/ CanWrite(CodecAt(k), fields[FieldAt(k)])
             \/ CodecAt(k) = "extensions" /\ fields[FieldAt(k)].content \in Unencodable
  <2>1. Lead(wire) + k \in 1 .. Len(wire)
    BY <1>2 DEF ReadFromAll, Lead, FIELD_COUNT
  <2>2. ReadFrom(wire, Lead(wire), k, fields)
    BY <1>2 DEF ReadFromAll
  <2>. QED
    BY <1>2, <2>1, <2>2, ReadFieldFacts
<1>4. \A k \in 1 .. FIELD_COUNT : CodecAt(k) = "extensions" => FieldAt(k) = "extensions"
  BY PlanTable, Eleven
<1>5. fields.extensions = fields["extensions"]
  OBVIOUS
<1>6. fields["extensions"].content \in Unencodable
        \/ \A k \in 1 .. FIELD_COUNT : CanWrite(CodecAt(k), fields[FieldAt(k)])
  BY <1>3, <1>4
<1>. QED
  BY <1>2, <1>5, <1>6, PlanFacts DEF Encodable, FieldAt, CodecAt

\* The expects of encode hold for every certificate a peer sent, but for
\* extension lists that do not encode.
THEOREM ReadIsSound == Spec => ReadIsEncodable
BY Invariance, EncodableStep, PTL DEF Spec, ReadIsEncodable

\* A certificate is its fields.
LEMMA SameFields ==
  ASSUME NEW v, NEW w, v = [f \in FieldNames |-> v[f]], w = [f \in FieldNames |-> w[f]],
         \A k \in 1 .. FIELD_COUNT : v[FieldAt(k)] = w[FieldAt(k)]
  PROVE  v = w
<1>1. \A f \in FieldNames : v[f] = w[f]
  BY PlanFacts DEF FirstFields
<1>. QED
  BY <1>1

\* What is read of the bytes of a certificate is what arrives of it.
LEMMA WrittenArrives ==
  ASSUME NEW tokens, NEW v \in Value, NEW w \in Value,
         WrittenAsAll(tokens, v), ReadFromAll(tokens, w)
  PROVE  w = Arriving(v)
<1>1. \A k \in 1 .. FIELD_COUNT : w[FieldAt(k)] = Arriving(v)[FieldAt(k)]
  <2>. SUFFICES ASSUME NEW k \in 1 .. FIELD_COUNT
                PROVE  w[FieldAt(k)] = Arriving(v)[FieldAt(k)]
    OBVIOUS
  <2>1. w[FieldAt(k)] = Read(CodecAt(k), tokens[Lead(tokens) + k])
    BY DEF ReadFromAll, ReadFrom
  <2>2. WrittenAs(tokens, Lead(tokens), k, v)
    BY DEF WrittenAsAll
  <2>. QED
    BY <2>1, <2>2, WrittenFieldFacts, ArrivingFacts
<1>. QED
  BY <1>1, ValueFacts, ArrivingFacts, SameFields

\* Decoding returns the certificate held, or what arrives of it.
LEMMA LosslessStep ==
  IInv /\ Next => (value # NoValue => value' \in {value, Arriving(value)})
<1>. SUFFICES ASSUME IInv, Next, value # NoValue, value' # value
              PROVE  value' = Arriving(value)
  BY Zenon
<1>1. DecodeEnd
  BY ChangeFacts
<1>2. /\ pc = "decoding" /\ value' = fields /\ wire \in Seq(Token) /\ wire # NoWire
      /\ ReadFromAll(wire, fields) /\ fields \in Value
  BY <1>1, DecodeEndFacts
<1>3. value \in Value
  BY DEF IInv, TypeOK, DataTypeOK, Calls
<1>4. ReadFromAll(wire, value) \/ WrittenAsAll(wire, value)
  BY <1>2 DEF IInv, HeldInv
<1>5. CASE ReadFromAll(wire, value)
  <2>1. \A k \in 1 .. FIELD_COUNT : fields[FieldAt(k)] = value[FieldAt(k)]
    BY <1>2, <1>5 DEF ReadFromAll, ReadFrom
  <2>2. fields = value
    BY <1>2, <1>3, <2>1, ValueFacts, SameFields
  <2>. QED
    BY <1>2, <2>2
<1>6. CASE WrittenAsAll(wire, value)
  BY <1>2, <1>3, <1>6, WrittenArrives
<1>. QED
  BY <1>4, <1>5, <1>6

\* Whatever mixture of forms and functions, a certificate loses nothing but
\* what no item can say, and nothing twice.
THEOREM RoundTripsAreLossless == Spec => LosslessUpToItems
BY Invariance, LosslessStep, PTL DEF Spec, LosslessUpToItems

\* Encoding writes each item that was there, rewritten for its codec.
LEMMA WireStep ==
  IInv /\ Next => (wire # NoWire /\ wire' # wire
                     => wire' # NoWire /\ Body(wire') = Rewritten(Body(wire)))
<1>. SUFFICES ASSUME IInv, Next, wire # NoWire, wire' # wire
              PROVE  wire' # NoWire /\ Body(wire') = Rewritten(Body(wire))
  OBVIOUS
<1>1. EncodeEnd
  BY ChangeFacts
<1>2. /\ pc = "encoding" /\ value \in Value /\ wire' = items /\ WrittenAsAll(items, value)
      /\ items \in Seq(Token) /\ wire \in Seq(Token)
  BY <1>1, EncodeEndFacts DEF IInv, TypeOK, DataTypeOK, Calls
<1>3. ReadFromAll(wire, value) \/ WrittenAsAll(wire, value)
  BY <1>2, ValueFacts DEF IInv, HeldInv
<1>4. /\ Len(wire) >= Lead(wire) + FIELD_COUNT
      /\ \A k \in 1 .. FIELD_COUNT : Accepts(CodecAt(k), wire[Lead(wire) + k])
  BY <1>2, <1>3, HeldIsAccepted
<1>5. /\ Body(items) = [k \in 1 .. FIELD_COUNT |-> items[Lead(items) + k]] /\ items # NoWire
      /\ Body(wire) = [k \in 1 .. FIELD_COUNT |-> wire[Lead(wire) + k]]
      /\ Lead(wire) \in {0, 1}
  BY <1>2, <1>4, BodyFacts DEF WrittenAsAll
<1>6. ASSUME NEW k \in 1 .. FIELD_COUNT
      PROVE  /\ wire[Lead(wire) + k] \in FieldItem
             /\ ItemOf(CodecAt(k), value[FieldAt(k)])
                  = RewrittenItem(CodecAt(k), wire[Lead(wire) + k])
  <2>1. CASE ReadFromAll(wire, value)
    <3>1. Lead(wire) + k \in 1 .. Len(wire)
      <4>1. Len(wire) >= Lead(wire) + 11 /\ k \in 1 .. 11
        BY <1>4 DEF FIELD_COUNT
      <4>2. Len(wire) \in Nat
        BY <1>2
      <4>. QED
        BY <1>5, <4>1, <4>2
    <3>2. ReadFrom(wire, Lead(wire), k, value)
      BY <2>1 DEF ReadFromAll
    <3>. QED
      BY <1>2, <3>1, <3>2, ReadFieldFacts
  <2>2. CASE WrittenAsAll(wire, value)
    <3>1. WrittenAs(wire, Lead(wire), k, value)
      BY <2>2 DEF WrittenAsAll
    <3>2. /\ wire[Lead(wire) + k] \in FieldItem
          /\ RewrittenItem(CodecAt(k), wire[Lead(wire) + k]) = wire[Lead(wire) + k]
      BY <1>2, <3>1, WrittenFieldFacts
    <3>. QED
      BY <3>1, <3>2 DEF WrittenAs
  <2>. QED
    BY <1>3, <2>1, <2>2
<1>7. \A k \in 1 .. FIELD_COUNT : items[Lead(items) + k] = ItemOf(CodecAt(k), value[FieldAt(k)])
  BY <1>2 DEF WrittenAsAll, WrittenAs
<1>. DEFINE body == Body(wire)
<1>8. body = [k \in 1 .. FIELD_COUNT |-> body[k]]
  BY <1>5
<1>9. \A k \in 1 .. FIELD_COUNT : body[k] = wire[Lead(wire) + k]
  BY <1>5
<1>10. body[10] \in FieldItem /\ IsOpaque(body[10], "extensions")
  <2>1. 10 \in 1 .. FIELD_COUNT
    BY DEF FIELD_COUNT
  <2>. QED
    BY <1>4, <1>6, <1>9, <2>1, PlanTable DEF Accepts
<1>. HIDE DEF body
<1>11. Rewritten(body) = [k \in 1 .. FIELD_COUNT |-> RewrittenItem(CodecAt(k), body[k])]
  BY <1>8, <1>10, RewrittenFacts
<1>12. Body(items) = Rewritten(body)
  BY <1>5, <1>6, <1>7, <1>9, <1>11
<1>. QED
  BY <1>2, <1>5, <1>12 DEF body

\* The bytes that were read or written once are written again as they were,
\* but for what Rewritten says: what a signature covers changes once at most.
THEOREM WireIsStable == Spec => WireStable
BY Invariance, WireStep, PTL DEF Spec, WireStable
-----------------------------------------------------------------------------
(* Hex                                                                     *)

\* The two digits of an octet.
LEMMA DigitFacts ==
  /\ \A byte \in Octet : /\ byte \div HexBase \in 0 .. HexBase - 1
                         /\ byte % HexBase \in 0 .. HexBase - 1
                         /\ HexBase * (byte \div HexBase) + (byte % HexBase) = byte
  /\ \A high, low \in 0 .. HexBase - 1 : HexBase * high + low \in Octet
<1>1. Octet = 0 .. 255
  BY HexAssumption DEF Octet, HexBase
<1>2. \A byte \in 0 .. 255 : /\ byte \div 16 \in 0 .. 15
                             /\ byte % 16 \in 0 .. 15
                             /\ 16 * (byte \div 16) + (byte % 16) = byte
  OBVIOUS
<1>3. \A high, low \in 0 .. 15 : 16 * high + low \in 0 .. 255
  OBVIOUS
<1>4. HexBase = 16 /\ HexBase - 1 = 15
  BY DEF HexBase
<1>. QED
  BY <1>1, <1>2, <1>3, <1>4

LEMMA SeqGrows ==
  ASSUME NEW S, NEW T, NEW s \in Seq(S)
  PROVE  s \in Seq(T \cup S)
<1>1. \A i \in 1 .. Len(s) : s[i] \in T \cup S
  OBVIOUS
<1>. QED
  BY <1>1

\* hex::decode undoes hex::encode.
LEMMA HexInverse ==
  ASSUME NEW b \in Seq(Octet)
  PROVE  /\ IsHex(HexEncoded(b))
         /\ HexDecoded(HexEncoded(b)) = b
         /\ Hex(HexEncoded(b)) \in HexString
<1>. DEFINE digits == HexEncoded(b)
            n == Len(b)
<1>1. /\ n \in Nat /\ b = [k \in 1 .. n |-> b[k]] /\ \A k \in 1 .. n : b[k] \in Octet
  OBVIOUS
<1>2. \A k \in 1 .. 2 * n : (k + 1) \div 2 \in 1 .. n
  BY <1>1
<1>3. digits = [k \in 1 .. 2 * n |-> IF k % 2 = 1 THEN b[(k + 1) \div 2] \div HexBase
                                                 ELSE b[(k + 1) \div 2] % HexBase]
  BY DEF HexEncoded
<1>. HIDE DEF digits, n
<1>4. \A k \in 1 .. 2 * n : digits[k] \in 0 .. HexBase - 1
  <2>. SUFFICES ASSUME NEW k \in 1 .. 2 * n PROVE digits[k] \in 0 .. HexBase - 1
    OBVIOUS
  <2>1. b[(k + 1) \div 2] \in Octet
    BY <1>1, <1>2
  <2>. QED
    BY <1>3, <2>1, DigitFacts
<1>5. digits \in Seq(0 .. HexBase - 1) /\ Len(digits) = 2 * n /\ DOMAIN digits = 1 .. 2 * n
  <2>1. 2 * n \in Nat
    BY <1>1
  <2>2. digits \in [1 .. 2 * n -> 0 .. HexBase - 1] /\ DOMAIN digits = 1 .. 2 * n
    <3>1. DOMAIN digits = 1 .. 2 * n /\ digits = [k \in 1 .. 2 * n |-> digits[k]]
      BY <1>3
    <3>. QED
      BY <1>4, <3>1
  <2>3. \A m \in Nat : \A S : \A d \in [1 .. m -> S] : d \in Seq(S) /\ Len(d) = m
    OBVIOUS
  <2>. QED
    BY <2>1, <2>2, <2>3, Zenon
<1>6. IsHex(digits)
  <2>1. \A m \in Nat : (2 * m) % 2 = 0
    OBVIOUS
  <2>2. Len(digits) % 2 = 0
    BY <1>1, <1>5, <2>1
  <2>. QED
    BY <1>4, <1>5, <2>2 DEF IsHex
<1>7. \A k \in 1 .. n : HexBase * digits[2 * k - 1] + digits[2 * k] = b[k]
  <2>. SUFFICES ASSUME NEW k \in 1 .. n
                PROVE  HexBase * digits[2 * k - 1] + digits[2 * k] = b[k]
    OBVIOUS
  <2>1. /\ 2 * k - 1 \in 1 .. 2 * n /\ (2 * k - 1) % 2 = 1 /\ (2 * k - 1 + 1) \div 2 = k
        /\ 2 * k \in 1 .. 2 * n /\ (2 * k) % 2 # 1 /\ (2 * k + 1) \div 2 = k
    <3>1. \A m \in Nat \ {0} : /\ (2 * m - 1) % 2 = 1 /\ (2 * m) % 2 # 1
                              /\ (2 * m - 1 + 1) \div 2 = m /\ (2 * m + 1) \div 2 = m
      OBVIOUS
    <3>2. /\ (2 * k - 1) % 2 = 1 /\ (2 * k) % 2 # 1
          /\ (2 * k - 1 + 1) \div 2 = k /\ (2 * k + 1) \div 2 = k
      BY <3>1
    <3>3. 2 * k - 1 \in 1 .. 2 * n /\ 2 * k \in 1 .. 2 * n
      BY <1>1
    <3>. QED
      BY <3>2, <3>3
  <2>2. digits[2 * k - 1] = b[k] \div HexBase /\ digits[2 * k] = b[k] % HexBase
    BY <1>3, <2>1
  <2>3. b[k] \in Octet
    BY <1>1
  <2>. QED
    BY <2>2, <2>3, DigitFacts
<1>8. HexDecoded(digits) = [k \in 1 .. n |-> HexBase * digits[2 * k - 1] + digits[2 * k]]
  <2>1. \A m \in Nat : (2 * m) \div 2 = m
    OBVIOUS
  <2>2. Len(digits) \div 2 = n
    BY <1>1, <1>5, <2>1
  <2>. QED
    BY <2>2 DEF HexDecoded
<1>9. HexDecoded(digits) = b
  BY <1>1, <1>7, <1>8
<1>10. Hex(digits) \in HexString
  <2>1. digits \in Seq({Space, NotHex} \cup 0 .. HexBase - 1)
    BY <1>5, SeqGrows
  <2>. QED
    BY <2>1 DEF Hex, HexString
<1>. QED
  BY <1>6, <1>9, <1>10 DEF digits

\* What hex::decode returns are octets.
LEMMA HexTyped ==
  ASSUME NEW j \in HexString, IsHex(j.digits)
  PROVE  HexDecoded(j.digits) \in Seq(Octet)
<1>. DEFINE digits == j.digits
            n == Len(digits) \div 2
<1>1. /\ Len(digits) \in Nat /\ DOMAIN digits = 1 .. Len(digits)
      /\ Len(digits) % 2 = 0 /\ \A i \in 1 .. Len(digits) : digits[i] \in 0 .. HexBase - 1
  BY DEF IsHex, HexString
<1>. HIDE DEF digits
<1>2. n \in Nat /\ 2 * n = Len(digits)
  <2>1. \A m \in Nat : m % 2 = 0 => m \div 2 \in Nat /\ 2 * (m \div 2) = m
    OBVIOUS
  <2>. QED
    BY <1>1, <2>1
<1>3. HexDecoded(digits) = [k \in 1 .. n |-> HexBase * digits[2 * k - 1] + digits[2 * k]]
  BY DEF HexDecoded
<1>. HIDE DEF n
<1>4. \A k \in 1 .. n : HexBase * digits[2 * k - 1] + digits[2 * k] \in Octet
  <2>. SUFFICES ASSUME NEW k \in 1 .. n
                PROVE  HexBase * digits[2 * k - 1] + digits[2 * k] \in Octet
    OBVIOUS
  <2>1. 2 * k - 1 \in 1 .. 2 * n /\ 2 * k \in 1 .. 2 * n
    BY <1>2
  <2>. QED
    BY <1>1, <1>2, <2>1, DigitFacts
<1>5. HexDecoded(digits) \in Seq(Octet)
  BY <1>2, <1>3, <1>4
<1>. QED
  BY <1>5 DEF digits

-----------------------------------------------------------------------------
(* The text of a field                                                     *)

\* No text is absent, and an absent value has a text of its own.
LEMMA TextKinds ==
  /\ \A n : Number(n) \notin {Null, Missing} /\ IntMember(n) \notin {Null, Missing}
  /\ \A d : Hex(d) \notin {Null, Missing}
  /\ \A s, f : DateOf(s, f) \notin {Null, Missing}
  /\ \A o, p : OidMember(o, p) \notin {Null, Missing}
  /\ \A c : /\ [json |-> "name", content |-> c] \notin {Null, Missing}
            /\ [json |-> "extensions", content |-> c] \notin {Null, Missing}
  /\ Null.json = "null" /\ Missing.json = "missing" /\ Null # Missing
<1>1. Null.json = "null" /\ Missing.json = "missing"
  BY DEF Null, Missing
<1>2. /\ \A n : Number(n).json = "number" /\ IntMember(n).json = "Int"
      /\ \A d : Hex(d).json = "hex"
      /\ \A s, f : DateOf(s, f).json = "date"
      /\ \A o, p : OidMember(o, p).json = "Oid"
  BY DEF Number, IntMember, Hex, DateOf, OidMember
<1>3. \A x : x \in {Null, Missing} => x.json \in {"null", "missing"}
  BY <1>1
<1>4. \A c : /\ [json |-> "name", content |-> c].json = "name"
             /\ [json |-> "extensions", content |-> c].json = "extensions"
  OBVIOUS
<1>5. \A n : Number(n) \notin {Null, Missing} /\ IntMember(n) \notin {Null, Missing}
  BY <1>2, <1>3
<1>6. \A c : /\ [json |-> "name", content |-> c] \notin {Null, Missing}
             /\ [json |-> "extensions", content |-> c] \notin {Null, Missing}
  <2>. TAKE c
  <2>. QED
    BY <1>3, <1>4
<1>. QED
  BY <1>1, <1>2, <1>3, <1>5, <1>6

\* The text of an algorithm identifier is read as the identifier.
LEMMA AlgorithmTextInverse ==
  ASSUME NEW a \in AlgorithmIdentifier
  PROVE  /\ AlgorithmText(a) \notin {Null, Missing}
         /\ ParsesAlgorithm(AlgorithmText(a))
         /\ AlgorithmParsed(AlgorithmText(a)) = a
<1>1. CASE a.kind = "int"
  <2>1. AlgorithmText(a) = IntMember(a.int) /\ a.int \in I32 /\ a = AlgInt(a.int)
    BY <1>1, AlgorithmShape DEF AlgorithmText
  <2>2. IntMember(a.int).json = "Int" /\ IntMember(a.int).int = a.int
    BY DEF IntMember
  <2>. QED
    BY <2>1, <2>2, TextKinds DEF ParsesAlgorithm, AlgorithmParsed
<1>2. CASE a.kind = "oid"
  <2>1. AlgorithmText(a) = OidMember(a.oid, Null) /\ a.oid \in Oids /\ a = AlgOid(a.oid)
    BY <1>2, AlgorithmShape DEF AlgorithmText
  <2>. DEFINE j == OidMember(a.oid, Null)
  <2>2. j.json = "Oid" /\ j.oid = a.oid /\ j.parameters = Null
    BY DEF OidMember
  <2>3. j \notin {Null, Missing}
    BY TextKinds
  <2>. HIDE DEF j
  <2>4. ParsesAlgorithm(j) /\ AlgorithmParsed(j) = AlgOid(a.oid)
    BY <2>1, <2>2 DEF ParsesAlgorithm, ParsesOid, AlgorithmParsed
  <2>. QED
    BY <2>1, <2>3, <2>4 DEF j
<1>3. CASE a.kind = "oid_parameters"
  <2>. DEFINE h == HexEncoded(a.parameters)
              j == OidMember(a.oid, Hex(h))
  <2>1. /\ AlgorithmText(a) = j /\ a.oid \in Oids /\ a.parameters \in Seq(Octet)
        /\ a = AlgOidParameters(a.oid, a.parameters)
    BY <1>3, AlgorithmShape DEF AlgorithmText
  <2>2. IsHex(h) /\ HexDecoded(h) = a.parameters
    BY <2>1, HexInverse
  <2>. HIDE DEF h
  <2>3. Hex(h).json = "hex" /\ Hex(h).digits = h /\ Hex(h) # Null
    BY TextKinds DEF Hex
  <2>4. j.json = "Oid" /\ j.oid = a.oid /\ j.parameters = Hex(h)
    BY DEF OidMember
  <2>5. j \notin {Null, Missing}
    BY TextKinds
  <2>. HIDE DEF j
  <2>6. ParsesAlgorithm(j)
    BY <2>1, <2>2, <2>3, <2>4 DEF ParsesAlgorithm, ParsesOid, ReadsHex
  <2>7. AlgorithmParsed(j) = AlgOidParameters(a.oid, a.parameters)
    BY <2>2, <2>3, <2>4 DEF AlgorithmParsed
  <2>. QED
    BY <2>1, <2>5, <2>6, <2>7
<1>. QED
  BY <1>1, <1>2, <1>3, AlgorithmShape

\* What an algorithm identifier is read from gives one.
LEMMA AlgorithmTyped ==
  ASSUME NEW j \in Member, ParsesAlgorithm(j)
  PROVE  j \notin {Null, Missing} /\ AlgorithmParsed(j) \in AlgorithmIdentifier
<1>1. CASE j.json = "Int"
  <2>1. j.int \in I32
    BY <1>1 DEF ParsesAlgorithm
  <2>2. AlgorithmParsed(j) = AlgInt(j.int)
    BY <1>1 DEF AlgorithmParsed
  <2>. QED
    BY <1>1, <2>1, <2>2, TextKinds DEF AlgInt, AlgorithmIdentifier
<1>2. CASE j.json = "Oid"
  <2>1. j.oid \in Oids /\ (j.parameters = Null \/ ReadsHex(j.parameters))
    BY <1>2 DEF ParsesAlgorithm, ParsesOid
  <2>2. j.parameters \in OtherText \cup HexString
    BY <1>2 DEF Member, OtherText, HexString, Null, Missing
  <2>3. CASE j.parameters = Null
    <3>1. AlgorithmParsed(j) = AlgOid(j.oid)
      BY <1>2, <2>3 DEF AlgorithmParsed
    <3>. QED
      BY <1>2, <2>1, <3>1, TextKinds DEF AlgOid, AlgorithmIdentifier
  <2>4. CASE j.parameters # Null
    <3>1. ReadsHex(j.parameters) /\ j.parameters \in HexString
      <4>1. j.parameters.json = "hex"
        BY <2>1, <2>4 DEF ReadsHex
      <4>. QED
        BY <2>1, <2>2, <2>4, <4>1, TextKinds DEF OtherText
    <3>2. HexDecoded(j.parameters.digits) \in Seq(Octet)
      BY <3>1, HexTyped DEF ReadsHex
    <3>3. AlgorithmParsed(j) = AlgOidParameters(j.oid, HexDecoded(j.parameters.digits))
      BY <1>2, <2>4 DEF AlgorithmParsed
    <3>. QED
      BY <1>2, <2>1, <3>2, <3>3, TextKinds DEF AlgOidParameters, AlgorithmIdentifier
  <2>. QED
    BY <2>3, <2>4
<1>. QED
  BY <1>1, <1>2 DEF ParsesAlgorithm

\* What the decoder of a member makes of a text that is there.
LEMMA ParsedFacts ==
  ASSUME NEW codec \in Codecs, NEW j, j \notin {Null, Missing}
  PROVE  /\ codec = "i32" /\ j.json = "number" => Parsed(codec, j) = j.number
         /\ codec = "biguint" /\ j.json = "hex" => Parsed(codec, j) = BiguintParsed(j)
         /\ codec = "algorithm" /\ j.json \in {"Int", "Oid"} => Parsed(codec, j) = AlgorithmParsed(j)
         /\ codec = "bytes" /\ j.json = "hex" => Parsed(codec, j) = BytesParsed(j)
         /\ codec \in {"time", "optional time"} /\ j.json = "date" =>
              Parsed(codec, j) = Time(j.secs, j.fraction)
         /\ codec \in {"name", "optional name", "extensions"} /\ j.json \in {"name", "extensions"} =>
              Parsed(codec, j) = [kind |-> j.json, content |-> j.content]
<1>1. codec = "i32" /\ j.json = "number" => Parsed(codec, j) = j.number
  BY DEF Parsed, ReadsDate
<1>2. codec = "biguint" /\ j.json = "hex" => Parsed(codec, j) = BiguintParsed(j)
  BY DEF Parsed, ReadsDate
<1>3. codec = "algorithm" /\ j.json \in {"Int", "Oid"} => Parsed(codec, j) = AlgorithmParsed(j)
  BY DEF Parsed, ReadsDate
<1>4. codec = "bytes" /\ j.json = "hex" => Parsed(codec, j) = BytesParsed(j)
  BY DEF Parsed, ReadsDate
<1>5. codec \in {"time", "optional time"} /\ j.json = "date" =>
        Parsed(codec, j) = Time(j.secs, j.fraction)
  BY DEF Parsed, ReadsDate
<1>6. codec \in {"name", "optional name", "extensions"} /\ j.json \in {"name", "extensions"} =>
        Parsed(codec, j) = [kind |-> j.json, content |-> j.content]
  BY DEF Parsed, ReadsDate
<1>. QED
  BY <1>1, <1>2, <1>3, <1>4, <1>5, <1>6

\* What is absent is read as such, by the codecs that take it.
LEMMA AbsentFacts ==
  ASSUME NEW codec \in Codecs, NEW j \in {Null, Missing}
  PROVE  /\ Parsed(codec, j) = None
         /\ Parses(codec, j) => codec \in {"optional time", "optional name"}
<1>1. j.json \in {"null", "missing"}
  BY TextKinds
<1>2. Parsed(codec, j) = None
  BY DEF Parsed
<1>3. ~ReadsHex(j) /\ ~ReadsDate(j) /\ ~ParsesAlgorithm(j)
  BY <1>1 DEF ReadsHex, ReadsDate, ParsesAlgorithm
<1>4. Parses(codec, j) => codec \in {"optional time", "optional name"}
  BY <1>1, <1>3 DEF Parses, Codecs
<1>. QED
  BY <1>2, <1>4

\* Whatever a member of a certificate is, its text, if it has one, is read as
\* the same member.
LEMMA TextInverse ==
  ASSUME NEW codec \in Codecs, NEW v \in TypeOf(codec), HasText(codec, v)
  PROVE  /\ Parses(codec, TextOf(codec, v))
         /\ Parsed(codec, TextOf(codec, v)) = v
<1>. DEFINE j == TextOf(codec, v)
<1>1. CASE codec = "i32"
  <2>1. j = Number(v) /\ v \in I32
    BY <1>1 DEF TextOf, TypeOf
  <2>2. j.json = "number" /\ j.number = v /\ j \notin {Null, Missing}
    BY <2>1, TextKinds DEF Number
  <2>. HIDE DEF j
  <2>3. Parses(codec, j) /\ Parsed(codec, j) = v
    BY <1>1, <2>1, <2>2, ParsedFacts DEF Parses
  <2>. QED
    BY <2>3 DEF j
<1>2. CASE codec = "biguint"
  <2>. DEFINE h == HexEncoded(ToBytesBe(v))
  <2>1. j = Hex(h) /\ v \in BigUint
    BY <1>2 DEF TextOf, TypeOf, BiguintText
  <2>2. ToBytesBe(v) \in Seq(Octet) /\ FromBytesBe(ToBytesBe(v)) = v
    BY <2>1, BigUintFacts
  <2>3. IsHex(h) /\ HexDecoded(h) = ToBytesBe(v)
    BY <2>2, HexInverse
  <2>. HIDE DEF h
  <2>4. j.json = "hex" /\ j.digits = h /\ j \notin {Null, Missing}
    BY <2>1, TextKinds DEF Hex
  <2>. HIDE DEF j
  <2>5. Parsed(codec, j) = BiguintParsed(j)
    BY <1>2, <2>4, ParsedFacts
  <2>6. Parses(codec, j)
    BY <1>2, <2>3, <2>4 DEF Parses, ReadsHex
  <2>7. Parsed(codec, j) = v
    BY <2>2, <2>3, <2>4, <2>5 DEF BiguintParsed
  <2>. QED
    BY <2>6, <2>7 DEF j
<1>3. CASE codec = "algorithm"
  <2>1. j = AlgorithmText(v) /\ v \in AlgorithmIdentifier
    BY <1>3 DEF TextOf, TypeOf
  <2>. HIDE DEF j
  <2>2. j \notin {Null, Missing} /\ ParsesAlgorithm(j) /\ AlgorithmParsed(j) = v
    BY <2>1, AlgorithmTextInverse
  <2>3. j.json \in {"Int", "Oid"}
    BY <2>2 DEF ParsesAlgorithm
  <2>4. Parses(codec, j) /\ Parsed(codec, j) = v
    BY <1>3, <2>2, <2>3, ParsedFacts DEF Parses
  <2>. QED
    BY <2>4 DEF j
<1>4. CASE codec = "bytes"
  <2>. DEFINE h == HexEncoded(v)
  <2>1. j = Hex(h) /\ v \in Seq(Octet)
    BY <1>4 DEF TextOf, TypeOf, BytesText
  <2>2. IsHex(h) /\ HexDecoded(h) = v
    BY <2>1, HexInverse
  <2>. HIDE DEF h
  <2>3. j.json = "hex" /\ j.digits = h /\ j \notin {Null, Missing}
    BY <2>1, TextKinds DEF Hex
  <2>. HIDE DEF j
  <2>4. Parsed(codec, j) = BytesParsed(j)
    BY <1>4, <2>3, ParsedFacts
  <2>5. Parses(codec, j) /\ Parsed(codec, j) = v
    BY <1>4, <2>2, <2>3, <2>4 DEF Parses, ReadsHex, BytesParsed
  <2>. QED
    BY <2>5 DEF j
<1>5. ASSUME codec \in {"time", "optional time"}, v # None
      PROVE  Parses(codec, j) /\ Parsed(codec, j) = v
  <2>1. v \in OffsetDateTime
    BY <1>5 DEF TypeOf
  <2>2. j = DateOf(v.secs, v.fraction)
    BY <1>5 DEF TextOf, OptionText, DateText
  <2>3. /\ j.json = "date" /\ j.secs = v.secs /\ j.fraction = v.fraction
        /\ j \notin {Null, Missing}
    BY <2>2, TextKinds DEF DateOf
  <2>. HIDE DEF j
  <2>4. Parses(codec, j)
    BY <1>5, <2>3 DEF Parses, ReadsDate
  <2>5. Parsed(codec, j) = v
    <3>1. Parsed(codec, j) = Time(v.secs, v.fraction)
      <4>1. Parsed(codec, j) = Time(j.secs, j.fraction)
        BY <1>5, <2>3, ParsedFacts
      <4>. QED
        BY <2>3, <4>1
    <3>. QED
      BY <2>1, <3>1, TimeShape
  <2>. QED
    BY <2>4, <2>5
<1>6. ASSUME codec \in {"name", "optional name", "extensions"}, v # None
      PROVE  Parses(codec, j) /\ Parsed(codec, j) = v
  <2>. DEFINE kind == IF codec = "extensions" THEN "extensions" ELSE "name"
  <2>1. /\ kind \in {"name", "extensions"} /\ v.kind = kind
        /\ v = [kind |-> kind, content |-> v.content]
    BY <1>6 DEF TypeOf
  <2>2. j = [json |-> kind, content |-> v.content]
    BY <1>6, <2>1 DEF TextOf, OptionText
  <2>3. j \notin {Null, Missing} /\ j.json = kind /\ j.content = v.content
    BY <2>1, <2>2, TextKinds
  <2>. HIDE DEF j
  <2>. HIDE DEF kind
  <2>4. Parsed(codec, j) = [kind |-> kind, content |-> v.content]
    <3>1. Parsed(codec, j) = [kind |-> j.json, content |-> j.content]
      BY <1>6, <2>1, <2>3, ParsedFacts
    <3>. QED
      BY <2>3, <3>1
  <2>5. Parses(codec, j)
    BY <1>6, <2>3 DEF Parses, kind
  <2>. QED
    BY <2>1, <2>4, <2>5
<1>7. ASSUME codec \in {"optional time", "optional name"}, v = None
      PROVE  Parses(codec, j) /\ Parsed(codec, j) = v
  <2>1. j = Null
    BY <1>7 DEF TextOf, OptionText
  <2>2. Parses(codec, Null)
    BY <1>7 DEF Parses
  <2>3. Parsed(codec, Null) = None
    BY AbsentFacts
  <2>. QED
    BY <1>7, <2>1, <2>2, <2>3
<1>8. codec \in {"time", "name", "extensions"} => v # None
  <2>1. CASE codec = "time"
    BY <2>1, TimeShape DEF TypeOf
  <2>2. CASE codec = "name"
    BY <2>2, NameShape
  <2>3. CASE codec = "extensions"
    BY <2>3 DEF TypeOf, None
  <2>. QED
    BY <2>1, <2>2, <2>3
<1>. QED
  BY <1>1, <1>2, <1>3, <1>4, <1>5, <1>6, <1>7, <1>8 DEF Codecs

\* The text of a member is a member of a document.
LEMMA TextTyped ==
  ASSUME NEW codec \in Codecs, NEW v \in TypeOf(codec), HasText(codec, v)
  PROVE  TextOf(codec, v) \in Member
<1>1. Null \in Member /\ HexString \subseteq Member
  BY DEF Member, OtherText
<1>2. CASE codec = "i32"
  <2>1. TextOf(codec, v) = Number(v) /\ v \in Int
    BY <1>2, IntAssumption DEF TextOf, TypeOf, I32
  <2>. QED
    BY <2>1 DEF Number, Member
<1>3. CASE codec = "biguint"
  <2>1. TextOf(codec, v) = Hex(HexEncoded(ToBytesBe(v))) /\ v \in BigUint
    BY <1>3 DEF TextOf, TypeOf, BiguintText
  <2>. QED
    BY <1>1, <2>1, BigUintFacts, HexInverse
<1>4. CASE codec = "algorithm"
  <2>1. TextOf(codec, v) = AlgorithmText(v) /\ v \in AlgorithmIdentifier
    BY <1>4 DEF TextOf, TypeOf
  <2>2. CASE v.kind = "int"
    <3>1. AlgorithmText(v) = IntMember(v.int) /\ v.int \in Int
      BY <2>1, <2>2, AlgorithmShape DEF AlgorithmText
    <3>. QED
      BY <2>1, <3>1 DEF IntMember, Member
  <2>3. CASE v.kind = "oid"
    <3>1. AlgorithmText(v) = OidMember(v.oid, Null) /\ v.oid \in Seq(Octet)
      BY <2>1, <2>3, AlgorithmShape DEF AlgorithmText
    <3>2. Null \in OtherText
      BY DEF OtherText
    <3>. QED
      BY <2>1, <3>1, <3>2 DEF OidMember, Member
  <2>4. CASE v.kind = "oid_parameters"
    <3>1. /\ AlgorithmText(v) = OidMember(v.oid, Hex(HexEncoded(v.parameters)))
          /\ v.oid \in Seq(Octet) /\ v.parameters \in Seq(Octet)
      BY <2>1, <2>4, AlgorithmShape DEF AlgorithmText
    <3>2. Hex(HexEncoded(v.parameters)) \in HexString
      BY <3>1, HexInverse
    <3>. QED
      BY <2>1, <3>1, <3>2 DEF OidMember, Member
  <2>. QED
    BY <2>1, <2>2, <2>3, <2>4, AlgorithmShape
<1>5. CASE codec = "bytes"
  <2>1. TextOf(codec, v) = Hex(HexEncoded(v)) /\ v \in Seq(Octet)
    BY <1>5 DEF TextOf, TypeOf, BytesText
  <2>. QED
    BY <1>1, <2>1, HexInverse
<1>6. CASE codec \in {"time", "optional time"} /\ v # None
  <2>1. v \in OffsetDateTime
    BY <1>6 DEF TypeOf
  <2>2. TextOf(codec, v) = DateOf(v.secs, v.fraction)
    BY <1>6 DEF TextOf, OptionText, DateText
  <2>3. v.secs \in DateMin .. TimeMax /\ v.fraction \in BOOLEAN
    <3>1. v.secs >= DateMin
      BY <1>6 DEF HasText, HasDate
    <3>. QED
      BY <2>1, <3>1, TimeShape, DateAssumption, TimeAssumption
  <2>. QED
    BY <2>2, <2>3 DEF DateOf, Member
<1>7. CASE codec \in {"name", "optional name"} /\ v # None
  <2>1. v.kind = "name" /\ v.content \in NameContents
    BY <1>7 DEF TypeOf
  <2>2. TextOf(codec, v) = [json |-> "name", content |-> v.content]
    BY <1>7, <2>1 DEF TextOf, OptionText
  <2>. QED
    BY <2>1, <2>2 DEF Member
<1>8. CASE codec = "extensions"
  <2>1. v.kind = "extensions" /\ v.content \in ExtContents /\ v # None
    BY <1>8 DEF TypeOf, None
  <2>2. TextOf(codec, v) = [json |-> "extensions", content |-> v.content]
    BY <1>8, <2>1 DEF TextOf, OptionText
  <2>. QED
    BY <2>1, <2>2 DEF Member
<1>9. CASE codec \in {"optional time", "optional name"} /\ v = None
  BY <1>1, <1>9 DEF TextOf, OptionText
<1>10. codec \in {"time", "name"} => v # None
  <2>1. codec = "time" => v # None
    BY TimeShape DEF TypeOf
  <2>2. codec = "name" => v # None
    BY NameShape
  <2>. QED
    BY <2>1, <2>2
<1>. QED
  BY <1>2, <1>3, <1>4, <1>5, <1>6, <1>7, <1>8, <1>9, <1>10 DEF Codecs

\* Whatever is accepted of a document is read as a value of the member's type.
LEMMA ParsedTyped ==
  ASSUME NEW codec \in Codecs, NEW j \in Member, Parses(codec, j)
  PROVE  Parsed(codec, j) \in TypeOf(codec)
<1>1. CASE j \in {Null, Missing}
  <2>1. Parsed(codec, j) = None /\ codec \in {"optional time", "optional name"}
    BY <1>1, AbsentFacts
  <2>. QED
    BY <2>1 DEF TypeOf
<1>2. ASSUME j \notin {Null, Missing}, codec = "i32"
      PROVE  Parsed(codec, j) \in TypeOf(codec)
  <2>1. j.json = "number" /\ j.number \in I32
    BY <1>2 DEF Parses
  <2>2. Parsed(codec, j) = j.number
    BY <1>2, <2>1, ParsedFacts
  <2>. QED
    BY <1>2, <2>1, <2>2 DEF TypeOf
<1>3. ASSUME j \notin {Null, Missing}, codec \in {"biguint", "bytes"}
      PROVE  Parsed(codec, j) \in TypeOf(codec)
  <2>1. j.json = "hex" /\ IsHex(j.digits)
    BY <1>3 DEF Parses, ReadsHex
  <2>2. j \in HexString
    BY <1>3, <2>1 DEF Member, OtherText
  <2>3. HexDecoded(j.digits) \in Seq(Octet)
    BY <2>1, <2>2, HexTyped
  <2>4. FromBytesBe(HexDecoded(j.digits)) \in BigUint
    BY <2>3, BigUintFacts
  <2>5. codec = "bytes" => Parsed(codec, j) = HexDecoded(j.digits)
    BY <1>3, <2>1, ParsedFacts DEF BytesParsed
  <2>6. codec = "biguint" => Parsed(codec, j) = FromBytesBe(HexDecoded(j.digits))
    BY <1>3, <2>1, ParsedFacts DEF BiguintParsed
  <2>. QED
    BY <1>3, <2>3, <2>4, <2>5, <2>6 DEF TypeOf
<1>4. ASSUME j \notin {Null, Missing}, codec = "algorithm"
      PROVE  Parsed(codec, j) \in TypeOf(codec)
  <2>1. ParsesAlgorithm(j)
    BY <1>4 DEF Parses
  <2>2. AlgorithmParsed(j) \in AlgorithmIdentifier /\ j.json \in {"Int", "Oid"}
    BY <2>1, AlgorithmTyped DEF ParsesAlgorithm
  <2>3. Parsed(codec, j) = AlgorithmParsed(j)
    BY <1>4, <2>2, ParsedFacts
  <2>. QED
    BY <1>4, <2>2, <2>3 DEF TypeOf
<1>5. ASSUME j \notin {Null, Missing}, codec \in {"time", "optional time"}
      PROVE  Parsed(codec, j) \in TypeOf(codec)
  <2>1. j.json = "date"
    BY <1>5 DEF Parses, ReadsDate
  <2>2. j.secs \in DateMin .. TimeMax /\ j.fraction \in BOOLEAN
    BY <1>5, <2>1 DEF Member, OtherText, HexString
  <2>3. j.secs \in TimeMin .. TimeMax
    BY <2>2, YearAssumption, DateAssumption, TimeAssumption
  <2>4. Parsed(codec, j) = Time(j.secs, j.fraction)
    BY <1>5, <2>1, ParsedFacts
  <2>5. Parsed(codec, j) \in OffsetDateTime
    BY <2>2, <2>3, <2>4 DEF Time, OffsetDateTime
  <2>. QED
    BY <1>5, <2>5 DEF TypeOf
<1>6. ASSUME j \notin {Null, Missing}, codec \in {"name", "optional name", "extensions"}
      PROVE  Parsed(codec, j) \in TypeOf(codec)
  <2>1. /\ codec \in {"name", "optional name"} => j.json = "name"
        /\ codec = "extensions" => j.json = "extensions"
    BY <1>6 DEF Parses
  <2>2. /\ j.json = "name" => j.content \in NameContents
        /\ j.json = "extensions" => j.content \in ExtContents
    BY <1>6 DEF Member, OtherText, HexString
  <2>3. Parsed(codec, j) = [kind |-> j.json, content |-> j.content]
    BY <1>6, <2>1, ParsedFacts
  <2>4. CASE codec = "extensions"
    <3>1. Parsed(codec, j) \in [kind : {"extensions"}, content : ExtContents]
      BY <2>1, <2>2, <2>3, <2>4
    <3>. QED
      BY <2>4, <3>1 DEF TypeOf
  <2>5. CASE codec \in {"name", "optional name"}
    <3>. DEFINE name == [kind |-> "name", content |-> j.content]
    <3>1. Parsed(codec, j) = name /\ j.content \in NameContents
      BY <2>1, <2>2, <2>3, <2>5
    <3>2. name \in [kind : {"name"}, content : NameContents]
      BY <3>1
    <3>. HIDE DEF name
    <3>3. TypeOf("name") \subseteq TypeOf("optional name") /\ name \in TypeOf("name")
      BY <3>2 DEF TypeOf
    <3>. QED
      BY <2>5, <3>1, <3>3
  <2>. QED
    BY <1>6, <2>4, <2>5
<1>. QED
  BY <1>1, <1>2, <1>3, <1>4, <1>5, <1>6 DEF Codecs

-----------------------------------------------------------------------------
(* The invariant of the session                                            *)

AllHaveText(v) == \A f \in FieldNames : HasText(Codec(f), v[f])

\* A document that is read next is one of others, and nothing is held yet, or
\* the text of the certificate that is held.
TextInv ==
  pc = "from_str" =>
    IF value = NoValue
      THEN wire = NoWire /\ doc \in [FieldNames -> Member]
      ELSE AllHaveText(value) /\ doc = [f \in FieldNames |-> TextOf(Codec(f), value[f])]

MirrorIInv == /\ MirrorTypeOK /\ EncoderInv /\ DecoderInv /\ HeldInv
              /\ TextInv /\ WireHasText

\* Each member has the codec of its field.
LEMMA CodecFacts ==
  /\ \A k \in 1 .. FIELD_COUNT : Codec(FieldAt(k)) = CodecAt(k)
  /\ \A f \in FieldNames : Codec(f) \in Codecs
  /\ \A v \in Value, f \in FieldNames : v[f] \in TypeOf(Codec(f))
<1>1. ASSUME NEW k \in 1 .. FIELD_COUNT PROVE Codec(FieldAt(k)) = CodecAt(k)
  <2>. DEFINE j == CHOOSE i \in 1 .. FIELD_COUNT : DecodePlan[i][1] = FieldAt(k)
  <2>1. j \in 1 .. FIELD_COUNT /\ FieldAt(j) = FieldAt(k)
    BY DEF FieldAt
  <2>2. Codec(FieldAt(k)) = CodecAt(j)
    BY DEF Codec, CodecAt
  <2>. HIDE DEF j
  <2>3. j = k
    BY <2>1, PlanFacts
  <2>. QED
    BY <2>2, <2>3
<1>2. \A f \in FieldNames : \E k \in 1 .. FIELD_COUNT : f = FieldAt(k)
  BY PlanFacts DEF FirstFields
<1>. QED
  BY <1>1, <1>2, PlanFacts, ValueFacts

\* The text of a certificate is a document, and read as the certificate.
LEMMA TextIsRead ==
  ASSUME NEW v \in Value, AllHaveText(v)
  PROVE  LET text == [f \in FieldNames |-> TextOf(Codec(f), v[f])]
         IN  /\ \A f \in FieldNames : Parses(Codec(f), text[f])
             /\ [f \in FieldNames |-> Parsed(Codec(f), text[f])] = v
<1>. DEFINE text == [f \in FieldNames |-> TextOf(Codec(f), v[f])]
<1>1. ASSUME NEW f \in FieldNames
      PROVE  Parses(Codec(f), text[f]) /\ Parsed(Codec(f), text[f]) = v[f]
  <2>1. /\ Codec(f) \in Codecs /\ v[f] \in TypeOf(Codec(f)) /\ HasText(Codec(f), v[f])
    BY CodecFacts DEF AllHaveText
  <2>. QED
    BY <2>1, TextInverse
<1>2. v = [f \in FieldNames |-> v[f]]
  BY ValueFacts
<1>. HIDE DEF text
<1>3. [f \in FieldNames |-> Parsed(Codec(f), text[f])] = v
  BY <1>1, <1>2
<1>. QED
  BY <1>1, <1>3 DEF text

\* The document of a certificate has members.
LEMMA TextIsDocument ==
  ASSUME NEW v \in Value, AllHaveText(v)
  PROVE  [f \in FieldNames |-> TextOf(Codec(f), v[f])] \in [FieldNames -> Member]
<1>1. ASSUME NEW f \in FieldNames PROVE TextOf(Codec(f), v[f]) \in Member
  BY CodecFacts, TextTyped DEF AllHaveText
<1>. QED
  BY <1>1

\* What is read of a document is a certificate.
LEMMA DocumentIsRead ==
  ASSUME NEW text \in [FieldNames -> Member], \A f \in FieldNames : Parses(Codec(f), text[f])
  PROVE  [f \in FieldNames |-> Parsed(Codec(f), text[f])] \in Value
<1>. DEFINE v == [f \in FieldNames |-> Parsed(Codec(f), text[f])]
<1>1. ASSUME NEW k \in 1 .. FIELD_COUNT PROVE v[FieldAt(k)] \in TypeOf(CodecAt(k))
  <2>1. FieldAt(k) \in FieldNames /\ CodecAt(k) \in Codecs /\ Codec(FieldAt(k)) = CodecAt(k)
    BY PlanFacts, CodecFacts
  <2>2. v[FieldAt(k)] = Parsed(CodecAt(k), text[FieldAt(k)])
    BY <2>1
  <2>. QED
    BY <2>1, <2>2, ParsedTyped
<1>2. v = [f \in FieldNames |-> v[f]]
  OBVIOUS
<1>. QED
  BY <1>1, <1>2, ValueFacts, Zenon

LEMMA EpochHasDate == \A s \in Int : s >= 0 => s >= DateMin
BY DateAssumption

\* What can be written as an item has a text: it is not before 1970.
LEMMA WritableHasText ==
  ASSUME NEW codec \in Codecs, NEW v \in TypeOf(codec),
         CanWrite(codec, v) \/ codec = "extensions"
  PROVE  HasText(codec, v)
<1>. SUFFICES ASSUME codec \in {"time", "optional time"}, v # None
              PROVE  HasDate(v)
  BY DEF HasText
<1>1. v \in OffsetDateTime
  BY DEF TypeOf
<1>2. v.secs \in Int /\ v.secs >= 0
  BY <1>1, TimeShape DEF CanWrite
<1>. QED
  BY <1>2, EpochHasDate DEF HasDate

\* So has every certificate that belongs to bytes.
LEMMA HeldHasText ==
  ASSUME NEW tokens \in Seq(Token), NEW v \in Value,
         ReadFromAll(tokens, v) \/ WrittenAsAll(tokens, v)
  PROVE  AllHaveText(v)
<1>1. ASSUME NEW k \in 1 .. FIELD_COUNT PROVE HasText(CodecAt(k), v[FieldAt(k)])
  <2>1. CodecAt(k) \in Codecs /\ v[FieldAt(k)] \in TypeOf(CodecAt(k))
    BY PlanFacts, ValueFacts
  <2>2. CASE ReadFromAll(tokens, v)
    <3>1. ReadFrom(tokens, Lead(tokens), k, v) /\ Len(tokens) >= Lead(tokens) + FIELD_COUNT
      BY <2>2 DEF ReadFromAll
    <3>2. Lead(tokens) + k \in 1 .. Len(tokens)
      BY <3>1 DEF Lead, FIELD_COUNT
    <3>3. CanWrite(CodecAt(k), v[FieldAt(k)]) \/ CodecAt(k) = "extensions"
      BY <3>1, <3>2, ReadFieldFacts
    <3>. QED
      BY <2>1, <3>3, WritableHasText
  <2>3. CASE WrittenAsAll(tokens, v)
    <3>1. CanWrite(CodecAt(k), v[FieldAt(k)])
      BY <2>3 DEF WrittenAsAll, WrittenAs
    <3>. QED
      BY <2>1, <3>1, WritableHasText
  <2>. QED
    BY <2>2, <2>3
<1>. QED
  BY <1>1, CodecFacts, PlanFacts DEF AllHaveText, FirstFields

-----------------------------------------------------------------------------
(* The invariant, action by action                                         *)

\* In a call of Certificate, its invariant holds.
LEMMA CallFacts ==
  /\ MirrorIInv /\ pc \in Calls => IInv
  /\ Next => pc \in Calls
<1>1. MirrorIInv /\ pc \in Calls => IInv
  BY DEF MirrorIInv, MirrorTypeOK, IInv, TypeOK
<1>2. ASSUME NEW form \in Forms, StartEncode(form) PROVE pc \in Calls
  BY <1>2 DEF StartEncode, Calls
<1>3. EncodeField \/ Panic \/ EncodeEnd => pc \in Calls
  BY DEF EncodeField, Panic, EncodeEnd, Encoding, Calls
<1>4. Decode \/ DecodeSequence \/ DecodeCertificate => pc \in Calls
  BY DEF Decode, DecodeSequence, DecodeCertificate, MayDecode, Calls
<1>5. DecodeField \/ RefuseField \/ DecodeEnd => pc \in Calls
  BY DEF DecodeField, RefuseField, DecodeEnd, Decoding, Calls
<1>. QED
  BY <1>1, <1>2, <1>3, <1>4, <1>5 DEF Next

LEMMA MirrorInitIInv == MirrorInit => MirrorIInv
<1>1. ASSUME Init, doc = NoDoc PROVE MirrorIInv
  <2>1. IInv
    BY <1>1, InitIInv
  <2>2. pc \in {"encode", "decode"}
    BY <1>1 DEF Init
  <2>. QED
    BY <1>1, <2>1, <2>2
       DEF MirrorIInv, MirrorTypeOK, IInv, TypeOK, TextInv, WireHasText
<1>2. ASSUME /\ pc = "from_str" /\ value = NoValue /\ wire = NoWire /\ doc \in Documents
             /\ items = <<>> /\ rest = <<>> /\ fields = <<>> /\ decoder = "none"
      PROVE  MirrorIInv
  <2>1. doc \in [FieldNames -> Member]
    BY <1>2, DocumentsAssumption
  <2>2. DataTypeOK
    BY <1>2 DEF DataTypeOK, NoWire
  <2>3. EncoderInv /\ DecoderInv /\ HeldInv
    BY <1>2 DEF EncoderInv, DecoderInv, HeldInv
  <2>. QED
    BY <1>2, <2>1, <2>2, <2>3 DEF MirrorIInv, MirrorTypeOK, TextInv, WireHasText
<1>. QED
  BY <1>1, <1>2 DEF MirrorInit

LEMMA CallStep ==
  ASSUME MirrorIInv, Next, UNCHANGED doc
  PROVE  MirrorIInv'
<1>1. IInv'
  BY CallFacts, StepIInv
<1>2. pc' \in Calls
  BY <1>1 DEF IInv, TypeOK
<1>3. pc' # "from_str" /\ pc' # "textless"
  BY <1>2 DEF Calls
<1>. QED
  BY <1>1, <1>2, <1>3
     DEF MirrorIInv, MirrorTypeOK, IInv, TypeOK, TextInv, WireHasText

\* A step that leaves all but pc and the document alone, and does not go on to
\* a call of Certificate.
LEMMA TextStep ==
  ASSUME MirrorIInv, UNCHANGED <<value, wire, items, reading>>,
         pc' \in {"from_str", "text_refused", "textless"}
  PROVE  DataTypeOK' /\ EncoderInv' /\ DecoderInv' /\ HeldInv'
<1>1. UNCHANGED <<value, wire, items, rest, fields, decoder>>
  BY DEF reading
<1>2. DataTypeOK'
  BY <1>1 DEF MirrorIInv, MirrorTypeOK, DataTypeOK
<1>3. EncoderInv' /\ DecoderInv'
  BY DEF EncoderInv, DecoderInv
<1>4. HeldInv'
  BY <1>1 DEF MirrorIInv, HeldInv
<1>. QED
  BY <1>2, <1>3, <1>4

\* What is held when the caller could encode is a certificate.
LEMMA HeldIsValue ==
  ASSUME MirrorIInv, pc = "encode"
  PROVE  value \in Value /\ value # NoValue /\ wire \in Seq(Token)
BY DEF MirrorIInv, MirrorTypeOK, DataTypeOK, HeldInv

LEMMA ToStringStep ==
  ASSUME MirrorIInv, ToString
  PROVE  MirrorIInv'
<1>1. /\ pc = "encode" /\ pc' = "from_str" /\ UNCHANGED <<value, wire, items, reading>>
      /\ AllHaveText(value)
      /\ doc' = [f \in FieldNames |-> TextOf(Codec(f), value[f])]
  BY DEF ToString, AllHaveText
<1>2. value \in Value /\ value # NoValue
  BY <1>1, HeldIsValue
<1>3. doc' \in [FieldNames -> Member]
  BY <1>1, <1>2, TextIsDocument
<1>4. DataTypeOK' /\ EncoderInv' /\ DecoderInv' /\ HeldInv'
  BY <1>1, TextStep
<1>5. AllHaveText(value)'
  BY <1>1 DEF AllHaveText
<1>6. TextInv' /\ WireHasText'
  BY <1>1, <1>2, <1>5 DEF TextInv, WireHasText
<1>. QED
  BY <1>1, <1>3, <1>4, <1>6 DEF MirrorIInv, MirrorTypeOK

LEMMA NoTextStep ==
  ASSUME MirrorIInv, NoText
  PROVE  MirrorIInv'
<1>1. /\ pc = "encode" /\ pc' = "textless" /\ UNCHANGED <<value, wire, items, reading, doc>>
      /\ ~AllHaveText(value)
  BY DEF NoText, AllHaveText
<1>2. wire = NoWire
  BY <1>1, HeldIsValue, HeldHasText DEF MirrorIInv, HeldInv
<1>3. DataTypeOK' /\ EncoderInv' /\ DecoderInv' /\ HeldInv'
  BY <1>1, TextStep
<1>. QED
  BY <1>1, <1>2, <1>3 DEF MirrorIInv, MirrorTypeOK, TextInv, WireHasText

\* from_str returns the certificate that is held, if one is.
LEMMA FromStrFacts ==
  ASSUME MirrorIInv, FromStr
  PROVE  /\ pc = "from_str" /\ pc' = "encode" /\ UNCHANGED <<wire, items, reading, doc>>
         /\ value' \in Value
         /\ value # NoValue => value' = value
         /\ value = NoValue => wire = NoWire
<1>1. /\ pc = "from_str" /\ pc' = "encode" /\ UNCHANGED <<wire, items, reading, doc>>
      /\ \A f \in FieldNames : Parses(Codec(f), doc[f])
      /\ value' = [f \in FieldNames |-> Parsed(Codec(f), doc[f])]
  BY DEF FromStr
<1>2. CASE value = NoValue
  <2>1. wire = NoWire /\ doc \in [FieldNames -> Member]
    BY <1>1, <1>2 DEF MirrorIInv, TextInv
  <2>. QED
    BY <1>1, <1>2, <2>1, DocumentIsRead
<1>3. CASE value # NoValue
  <2>1. value \in Value
    BY <1>3 DEF MirrorIInv, MirrorTypeOK, DataTypeOK
  <2>2. AllHaveText(value) /\ doc = [f \in FieldNames |-> TextOf(Codec(f), value[f])]
    BY <1>1, <1>3 DEF MirrorIInv, TextInv
  <2>3. [f \in FieldNames |-> Parsed(Codec(f), doc[f])] = value
    BY <2>1, <2>2, TextIsRead, Zenon
  <2>. QED
    BY <1>1, <1>3, <2>1, <2>3
<1>. QED
  BY <1>2, <1>3

LEMMA FromStrStep ==
  ASSUME MirrorIInv, FromStr
  PROVE  MirrorIInv'
<1>1. /\ pc = "from_str" /\ pc' = "encode"
      /\ UNCHANGED <<wire, items, rest, fields, decoder, doc>>
      /\ value' \in Value
      /\ value # NoValue => value' = value
      /\ value = NoValue => wire = NoWire
  BY FromStrFacts DEF reading
<1>2. DataTypeOK'
  BY <1>1 DEF MirrorIInv, MirrorTypeOK, DataTypeOK
<1>3. EncoderInv' /\ DecoderInv'
  BY <1>1 DEF EncoderInv, DecoderInv
<1>4. HeldInv'
  <2>1. value' # NoValue
    BY <1>1, ValueFacts
  <2>. QED
    BY <1>1, <2>1 DEF MirrorIInv, HeldInv
<1>. QED
  BY <1>1, <1>2, <1>3, <1>4 DEF MirrorIInv, MirrorTypeOK, TextInv, WireHasText, Calls

LEMMA RefuseTextStep ==
  ASSUME MirrorIInv, RefuseText
  PROVE  MirrorIInv' /\ value = NoValue
<1>1. /\ pc = "from_str" /\ pc' = "text_refused"
      /\ UNCHANGED <<value, wire, items, reading, doc>>
      /\ \E f \in FieldNames : ~Parses(Codec(f), doc[f])
  BY DEF RefuseText
<1>2. value = NoValue
  <2>1. SUFFICES ASSUME value # NoValue PROVE FALSE
    OBVIOUS
  <2>2. value \in Value
    BY <2>1 DEF MirrorIInv, MirrorTypeOK, DataTypeOK
  <2>3. AllHaveText(value) /\ doc = [f \in FieldNames |-> TextOf(Codec(f), value[f])]
    BY <1>1, <2>1 DEF MirrorIInv, TextInv
  <2>4. \A f \in FieldNames : Parses(Codec(f), doc[f])
    BY <2>2, <2>3, TextIsRead, Zenon
  <2>. QED
    BY <1>1, <2>4
<1>3. DataTypeOK' /\ EncoderInv' /\ DecoderInv' /\ HeldInv'
  BY <1>1, TextStep
<1>. QED
  BY <1>1, <1>2, <1>3 DEF MirrorIInv, MirrorTypeOK, TextInv, WireHasText

LEMMA MirrorStepIInv == MirrorIInv /\ [MirrorNext]_mirrorVars => MirrorIInv'
<1>. SUFFICES ASSUME MirrorIInv, [MirrorNext]_mirrorVars PROVE MirrorIInv'
  OBVIOUS
<1>1. CASE Next /\ UNCHANGED doc
  BY <1>1, CallStep
<1>2. CASE ToString
  BY <1>2, ToStringStep
<1>3. CASE NoText
  BY <1>3, NoTextStep
<1>4. CASE FromStr
  BY <1>4, FromStrStep
<1>5. CASE RefuseText
  BY <1>5, RefuseTextStep
<1>6. CASE UNCHANGED mirrorVars
  <2>1. UNCHANGED <<pc, value, wire, items, rest, fields, decoder, doc>>
    BY <1>6 DEF mirrorVars, vars
  <2>2. DataTypeOK' /\ EncoderInv' /\ HeldInv'
    BY <2>1 DEF MirrorIInv, MirrorTypeOK, DataTypeOK, EncoderInv, HeldInv
  <2>3. DecoderInv'
    <3>1. Start' = Start
      BY <2>1 DEF Start, Lead, HasHeader
    <3>. QED
      BY <2>1, <3>1 DEF MirrorIInv, DecoderInv, HasRead, ProperHeader, HasHeader, HasElevenHeader
  <2>4. TextInv' /\ WireHasText'
    BY <2>1 DEF MirrorIInv, TextInv, WireHasText, AllHaveText
  <2>. QED
    BY <2>1, <2>2, <2>3, <2>4 DEF MirrorIInv, MirrorTypeOK
<1>. QED
  BY <1>1, <1>2, <1>3, <1>4, <1>5, <1>6 DEF MirrorNext

-----------------------------------------------------------------------------
(* The theorems                                                            *)

\* A session with detours through text always relates the certificate to the
\* bytes and the document: the invariant.
THEOREM MirrorInvariance == MirrorSpec => []MirrorIInv
BY MirrorInitIInv, MirrorStepIInv, PTL DEF MirrorSpec

\* What from_str returns of any document is a certificate with all its fields,
\* and what to_string writes is a document.
THEOREM MirrorTypeCorrect == MirrorSpec => []MirrorTypeOK
<1>1. MirrorIInv => MirrorTypeOK
  BY DEF MirrorIInv
<1>. QED
  BY <1>1, MirrorInvariance, PTL

\* to_string never fails on a certificate that was encoded or decoded before.
THEOREM WireMeansText == MirrorSpec => []WireHasText
<1>1. MirrorIInv => WireHasText
  BY DEF MirrorIInv
<1>. QED
  BY <1>1, MirrorInvariance, PTL

\* What a step of the session is: a call of Certificate under its invariant,
\* or a call of serde, which keeps bytes and certificate.
LEMMA MirrorStepFacts ==
  ASSUME MirrorIInv, MirrorNext
  PROVE  \/ IInv /\ Next /\ pc \in Calls
         \/ /\ wire' = wire
            /\ value # NoValue => value' = value
            /\ pc \in {"encode", "from_str"}
            /\ pc = "encode" => pc' \in {"from_str", "textless"} /\ value' = value
            /\ pc' # "refused"
            /\ pc' = "text_refused" => value = NoValue
<1>1. CASE Next
  BY <1>1, CallFacts
<1>2. CASE ToString
  BY <1>2 DEF ToString
<1>3. CASE NoText
  BY <1>3 DEF NoText
<1>4. CASE FromStr
  BY <1>4, FromStrFacts
<1>5. CASE RefuseText
  BY <1>5, RefuseTextStep DEF RefuseText
<1>. QED
  BY <1>1, <1>2, <1>3, <1>4, <1>5 DEF MirrorNext

\* Whatever is called between, a certificate survives to_string and from_str,
\* and what to_string wrote is not refused.
THEOREM TextIsLossless == MirrorSpec => SurvivesText
<1>1. MirrorIInv /\ [MirrorNext]_mirrorVars =>
        [value # NoValue /\ pc = "from_str" => value' = value /\ pc' # "text_refused"]_mirrorVars
  BY MirrorStepFacts DEF Calls
<1>. QED
  BY <1>1, MirrorInvariance, PTL DEF MirrorSpec, SurvivesText

\* With text in between as without, a certificate loses nothing but what no
\* item can say, and nothing twice.
THEOREM MirrorIsLossless == MirrorSpec => LosslessUpToItems
<1>1. MirrorIInv /\ [MirrorNext]_mirrorVars =>
        [value # NoValue => value' \in {value, Arriving(value)}]_vars
  BY MirrorStepFacts, LosslessStep DEF mirrorVars
<1>. QED
  BY <1>1, MirrorInvariance, PTL DEF MirrorSpec, LosslessUpToItems

\* Text does not change what is written: the bytes stay as they were but for
\* what Rewritten says.
THEOREM MirrorWireIsStable == MirrorSpec => WireStable
<1>1. MirrorIInv /\ [MirrorNext]_mirrorVars =>
        [wire # NoWire /\ wire' # wire
           => wire' # NoWire /\ Body(wire') = Rewritten(Body(wire))]_vars
  BY MirrorStepFacts, WireStep DEF mirrorVars
<1>. QED
  BY <1>1, MirrorInvariance, PTL DEF MirrorSpec, WireStable

\* The forms are told apart in sessions with text.
THEOREM MirrorNeverConfused == MirrorSpec => FormsAreToldApart
<1>1. MirrorIInv /\ [MirrorNext]_mirrorVars =>
        [/\ pc = "decoding" /\ pc' = "encode" => ~WrongForm(decoder, wire)
         /\ value # NoValue /\ pc' = "refused" => WrongForm(decoder', wire)]_vars
  BY MirrorStepFacts, FormsStep DEF mirrorVars
<1>. QED
  BY <1>1, MirrorInvariance, PTL DEF MirrorSpec, FormsAreToldApart

\* What a peer sent can be written again in sessions with text.
THEOREM MirrorReadIsSound == MirrorSpec => ReadIsEncodable
<1>1. MirrorIInv /\ [MirrorNext]_mirrorVars =>
        [value = NoValue /\ value' # NoValue /\ pc = "decoding"
           => Encodable(value') \/ value'.extensions.content \in Unencodable]_vars
  BY MirrorStepFacts, EncodableStep DEF mirrorVars
<1>. QED
  BY <1>1, MirrorInvariance, PTL DEF MirrorSpec, ReadIsEncodable
=============================================================================
