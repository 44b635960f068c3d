---------------------------- MODULE NamesProofs ----------------------------
(***************************************************************************)
(* Proofs about Names, for every u16 and i32 width, every set of OIDs, a   *)
(* name that may be absent or not, every caller's name and every item a    *)
(* peer sends.                                                             *)
(*                                                                         *)
(* The argument: an item says a name if it is one of the forms in which    *)
(* the name could have been written.  Once a value and an item are there,  *)
(* the item says the value.  While the encoder runs, what it has written   *)
(* says a prefix of the attributes; while the decoder runs, the attributes *)
(* it has read are said by a prefix of the item, and are those of the      *)
(* value held but for the string type of type 0.                           *)
(***************************************************************************)
EXTENDS Names, CommonProofs

\* The second item of an attribute.
ValueItem(attr) == IF attr.form = "registered" THEN SpecialTextItem(attr.value)
                                               ELSE BytesItem(attr.value)

\* The k-th pair of elements is this attribute.
Pair(elements, k, attr) == /\ elements[2 * k - 1] = TypeItem(attr)
                           /\ elements[2 * k] = ValueItem(attr)

SaysList(item, list) ==
  /\ item.type = "array"
  /\ item.len = 2 * Len(list) /\ Len(item.items) = 2 * Len(list)
  /\ \A k \in 1 .. Len(list) : Pair(item.items, k, list[k])

Says(item, v) ==
  \/ v.kind = "absent" /\ item = NullItem
  \/ /\ v.kind = "name" /\ IsCommonName(v.attrs)
     /\ item = SpecialTextItem(v.attrs[1].value)
  \/ v.kind = "name" /\ SaysList(item, v.attrs)

EncoderInv ==
  pc = "encoding" =>
    /\ value.kind = "name" /\ ~IsCommonName(value.attrs)
    /\ \E n \in 0 .. Len(value.attrs) :
         Len(items) = 2 * n /\ \A k \in 1 .. n : Pair(items, k, value.attrs[k])

DecoderInv ==
  pc = "decoding" =>
    /\ IsAttributeList(wire)
    /\ 2 * Len(attrs) <= Len(wire.items)
    /\ \A k \in 1 .. Len(attrs) : /\ Pair(wire.items, k, attrs[k])
                                 /\ UnsignedAttr(attrs[k]) = attrs[k]
    /\ value # NoValue => \A k \in 1 .. Len(attrs) : attrs[k] = UnsignedAttr(value.attrs[k])

HeldInv ==
  /\ value # NoValue /\ wire # NoWire => Says(wire, value)
  /\ pc \in {"encode", "encoding"} => value # NoValue
  /\ pc \in {"decode", "decoding"} => wire # NoWire
  /\ pc = "refused" => value = NoValue

IInv == TypeOK /\ EncoderInv /\ DecoderInv /\ HeldInv

-----------------------------------------------------------------------------
\* The shapes of RdnAttribute.
LEMMA AttributeShape ==
  ASSUME NEW attr \in RdnAttribute
  PROVE  /\ attr.form \in {"registered", "oid"}
         /\ attr.form = "registered" =>
              /\ attr.id \in 0 .. U16Max /\ attr.printable \in BOOLEAN
              /\ attr.value \in SpecialText
              /\ attr = Registered(attr.id, attr.printable, attr.value)
         /\ attr.form = "oid" => /\ attr.oid \in Oids /\ attr.value \in Seq(Octet)
                                 /\ attr = OfOid(attr.oid, attr.value)
BY DEF RdnAttribute, RdnAttr, Registered, OfOid

\* The shapes of a name.
LEMMA ValueShape ==
  ASSUME NEW v \in Value
  PROVE  /\ v # NoValue
         /\ v.kind \in {"absent", "name"}
         /\ v.kind = "absent" => Optional /\ v = Absent
         /\ v.kind = "name" => v.attrs \in Seq(RdnAttribute) /\ v = Name(v.attrs)
BY OptionalAssumption DEF Value, Absent, Name, NoValue

\* The shapes of an item a peer may send.
LEMMA WireShape ==
  ASSUME NEW item \in Nested2
  PROVE  /\ item # NoWire
         /\ item \in Leaf \/ (item \in ArrayOf(Nested1) /\ item.type \in {"array", "array_indef"})
         /\ item.type = "array" =>
              /\ item.items \in Seq(Nested1) /\ item.len \in Nat
              /\ Len(item.items) <= item.len
              /\ item = [type |-> "array", len |-> item.len, items |-> item.items]
<1>1. CASE item \in Leaf
  BY <1>1, LeafShape DEF NoWire
<1>2. CASE item \in ArrayOf(Nested1)
  BY <1>2, ArrayShape DEF NoWire
<1>. QED
  BY <1>1, <1>2 DEF Nested2

\* Names without a zero type lose nothing, and a loss happens once.
LEMMA UnsignedFacts ==
  /\ \A attr \in RdnAttribute : /\ UnsignedAttr(attr) \in RdnAttribute
                                /\ UnsignedAttr(UnsignedAttr(attr)) = UnsignedAttr(attr)
  /\ \A v \in Value : Unsigned(v) \in Value /\ Unsigned(Unsigned(v)) = Unsigned(v)
<1>1. ASSUME NEW attr \in RdnAttribute
      PROVE  /\ UnsignedAttr(attr) \in RdnAttribute
             /\ UnsignedAttr(UnsignedAttr(attr)) = UnsignedAttr(attr)
  <2>1. CASE attr.form = "registered" /\ attr.id = 0
    <3>1. UnsignedAttr(attr) = Registered(0, FALSE, attr.value)
      <4>1. \A p, w : UnsignedAttr(Registered(0, p, w)) = Registered(0, FALSE, w)
        BY DEF UnsignedAttr, Registered
      <4>2. attr = Registered(0, attr.printable, attr.value)
        BY <2>1, AttributeShape
      <4>. QED
        BY <4>1, <4>2
    <3>2. Registered(0, FALSE, attr.value) \in RdnAttribute
      BY <2>1, AttributeShape, IntAssumption DEF RdnAttribute, RdnAttr, Registered
    <3>3. UnsignedAttr(Registered(0, FALSE, attr.value)) = Registered(0, FALSE, attr.value)
      BY DEF UnsignedAttr, Registered
    <3>. QED
      BY <3>1, <3>2, <3>3
  <2>2. CASE ~(attr.form = "registered" /\ attr.id = 0)
    BY <2>2 DEF UnsignedAttr
  <2>. QED
    BY <2>1, <2>2
<1>2. ASSUME NEW v \in Value
      PROVE  Unsigned(v) \in Value /\ Unsigned(Unsigned(v)) = Unsigned(v)
  <2>1. CASE v.kind = "name"
    <3>. DEFINE list == [i \in DOMAIN v.attrs |-> UnsignedAttr(v.attrs[i])]
    <3>1. v.attrs \in Seq(RdnAttribute)
      BY <2>1, ValueShape
    <3>2. list \in Seq(RdnAttribute) /\ Len(list) = Len(v.attrs)
      BY <1>1, <3>1
    <3>3. Unsigned(v) = Name(list)
      BY <2>1 DEF Unsigned
    <3>4. [i \in DOMAIN list |-> UnsignedAttr(list[i])] = list
      BY <1>1, <3>1
    <3>. HIDE DEF list
    <3>5. Name(list) \in Value
      BY <3>2 DEF Name, Value
    <3>6. Unsigned(Name(list)) = Name(list)
      BY <3>4 DEF Unsigned, Name
    <3>. QED
      BY <3>3, <3>5, <3>6
  <2>2. CASE v.kind # "name"
    BY <2>2 DEF Unsigned
  <2>. QED
    BY <2>1, <2>2
<1>. QED
  BY <1>1, <1>2

\* Decoding the two items of an attribute returns it, unsigned.
LEMMA PairIsRead ==
  ASSUME NEW attr \in RdnAttribute
  PROVE  /\ TypeItem(attr) \in Leaf /\ ValueItem(attr) \in Leaf
         /\ attr.form = "registered" =>
              /\ ReadsRegisteredType(TypeItem(attr)) /\ ReadsSpecialText(ValueItem(attr))
              /\ ~ReadsOid(TypeItem(attr))
              /\ RegisteredRead(TypeItem(attr), SpecialTextRead(ValueItem(attr)))
                   = UnsignedAttr(attr)
         /\ attr.form = "oid" =>
              /\ ReadsOid(TypeItem(attr)) /\ IsBytes(ValueItem(attr))
              /\ ~ReadsRegisteredType(TypeItem(attr))
              /\ OfOid(TypeItem(attr).bytes, ValueItem(attr).bytes) = UnsignedAttr(attr)
<1>1. CASE attr.form = "registered"
  <2>1. /\ attr.value \in SpecialText /\ ValueItem(attr) = SpecialTextItem(attr.value)
        /\ attr.id \in 0 .. U16Max /\ attr.printable \in BOOLEAN
        /\ attr = Registered(attr.id, attr.printable, attr.value)
    BY <1>1, AttributeShape DEF ValueItem
  <2>2. SpecialTextRead(ValueItem(attr)) = attr.value
    BY <2>1, SpecialTextInverse
  <2>3. /\ TypeItem(attr) \in Leaf /\ IsInt(TypeItem(attr)) /\ ReadsRegisteredType(TypeItem(attr))
        /\ RegisteredRead(TypeItem(attr), attr.value) = UnsignedAttr(attr)
    BY <2>1, RegisteredTypeInverse
  <2>. QED
    BY <1>1, <2>1, <2>2, <2>3, SpecialTextInverse DEF ReadsOid, IsInt, IsBytes
<1>2. CASE attr.form = "oid"
  <2>1. /\ attr.oid \in Oids /\ attr.oid \in Seq(Octet) /\ attr.value \in Seq(Octet)
        /\ attr = OfOid(attr.oid, attr.value) /\ UnsignedAttr(attr) = attr
    BY <1>2, AttributeShape, OidsAssumption DEF UnsignedAttr
  <2>2. TypeItem(attr) = BytesItem(attr.oid) /\ ValueItem(attr) = BytesItem(attr.value)
    BY <1>2 DEF TypeItem, ValueItem
  <2>. QED
    BY <1>2, <2>1, <2>2 DEF BytesItem, ReadsOid, IsBytes, ReadsRegisteredType, IsInt, Leaf
<1>. QED
  BY <1>1, <1>2, AttributeShape

\* A list of attributes has one item in the array form.
LEMMA ListItemUnique ==
  ASSUME NEW list \in Seq(RdnAttribute), NEW one \in Nested2, NEW other \in Nested2,
         SaysList(one, list), SaysList(other, list)
  PROVE  one = other
<1>1. /\ one.items \in Seq(Nested1) /\ other.items \in Seq(Nested1)
      /\ Len(one.items) = 2 * Len(list) /\ Len(other.items) = 2 * Len(list)
      /\ one = [type |-> "array", len |-> 2 * Len(list), items |-> one.items]
      /\ other = [type |-> "array", len |-> 2 * Len(list), items |-> other.items]
  BY WireShape DEF SaysList
<1>2. ASSUME NEW i \in 1 .. 2 * Len(list)
      PROVE  one.items[i] = other.items[i]
  <2>1. PICK k \in 1 .. Len(list) : i = 2 * k - 1 \/ i = 2 * k
    <3>1. (i + 1) \div 2 \in 1 .. Len(list)
      OBVIOUS
    <3>. QED
      BY <3>1
  <2>2. Pair(one.items, k, list[k]) /\ Pair(other.items, k, list[k])
    BY DEF SaysList
  <2>. QED
    BY <2>1, <2>2 DEF Pair
<1>3. one.items = other.items
  <2>1. /\ one.items = [i \in 1 .. Len(one.items) |-> one.items[i]]
        /\ other.items = [i \in 1 .. Len(other.items) |-> other.items[i]]
    BY <1>1
  <2>2. Len(one.items) = 2 * Len(list) /\ Len(other.items) = 2 * Len(list)
    BY <1>1
  <2>3. [i \in 1 .. 2 * Len(list) |-> one.items[i]] = [i \in 1 .. 2 * Len(list) |-> other.items[i]]
    BY <1>2
  <2>. QED
    BY <2>1, <2>2, <2>3
<1>. QED
  BY <1>1, <1>3

\* Two elements appended to a sequence.
LEMMA TwoMore ==
  ASSUME NEW S, NEW s \in Seq(S), NEW a \in S, NEW b \in S, NEW m \in Nat, Len(s) = m
  PROVE  LET t == s \o <<a, b>>
         IN  /\ t \in Seq(S) /\ Len(t) = m + 2
             /\ \A j \in 1 .. m : t[j] = s[j]
             /\ t[m + 1] = a /\ t[m + 2] = b
OBVIOUS

-----------------------------------------------------------------------------
LEMMA InitInv == Init => IInv
<1>. SUFFICES ASSUME Init PROVE IInv
  OBVIOUS
<1>1. CASE pc = "encode" /\ value \in Callers /\ wire = NoWire
  <2>1. value \in Value /\ value # NoValue
    BY <1>1, CallersAssumption, ValueShape
  <2>. QED
    BY <1>1, <2>1 DEF Init, IInv, TypeOK, EncoderInv, DecoderInv, HeldInv
<1>2. CASE pc = "decode" /\ value = NoValue /\ wire \in Foreign
  <2>1. wire \in Nested2 /\ wire # NoWire
    BY <1>2, ForeignAssumption, WireShape
  <2>. QED
    BY <1>2, <2>1 DEF Init, IInv, TypeOK, EncoderInv, DecoderInv, HeldInv
<1>. QED
  BY <1>1, <1>2 DEF Init

\* An encoder that ends replaces the item by one that says the value, too.
LEMMA WrittenInv ==
  ASSUME IInv, pc \in {"encode", "encoding"}, NEW item \in Nested2, Says(item, value),
         Written(item)
  PROVE  IInv' /\ value' = value
<1>1. /\ wire' = item /\ pc' = "decode" /\ UNCHANGED <<value, items, attrs>>
      /\ value # NoValue /\ item # NoWire
  BY WireShape DEF Written, IInv, HeldInv
<1>2. Says(wire', value')
  BY <1>1 DEF Says, IsCommonName, SaysList, Pair
<1>. QED
  BY <1>1, <1>2 DEF IInv, TypeOK, EncoderInv, DecoderInv, HeldInv

\* Encoding never changes the value, nor the item but for a long form.
LEMMA EncodeInvariant ==
  ASSUME IInv, Encode
  PROVE  /\ IInv' /\ value' = value /\ pc' # "refused"
         /\ wire # NoWire => \/ wire' = wire
                             \/ IsLongCommonName(wire) /\ ReadsSpecialText(wire')
<1>0. /\ pc \in {"encode", "encoding"} /\ value # NoValue /\ value \in Value
      /\ items \in Seq(Leaf) /\ wire \in Nested2 \cup {NoWire}
      /\ wire # NoWire => Says(wire, value)
  BY DEF Encode, EncodeAbsent, EncodeCompact, EncodeArray, EncodeRegistered, EncodeOid,
         EncodeAttribute, EncodeEnd, IInv, HeldInv, TypeOK
<1>1. CASE EncodeAbsent
  <2>1. value.kind = "absent" /\ Written(NullItem) /\ pc = "encode"
    BY <1>1 DEF EncodeAbsent
  <2>2. NullItem \in Nested2 /\ Says(NullItem, value)
    BY <2>1 DEF NullItem, Nested2, Leaf, Says
  <2>3. wire # NoWire => wire = NullItem
    BY <1>0, <2>1 DEF Says
  <2>. QED
    BY <2>1, <2>2, <2>3, WrittenInv DEF Written
<1>2. CASE EncodeCompact
  <2>. DEFINE t == value.attrs[1].value
  <2>1. /\ value.kind = "name" /\ IsCommonName(value.attrs) /\ pc = "encode"
        /\ Written(SpecialTextItem(t))
    BY <1>2 DEF EncodeCompact
  <2>2. /\ value.attrs \in Seq(RdnAttribute) /\ Len(value.attrs) = 1
        /\ value.attrs[1] \in RdnAttribute /\ value.attrs[1].form = "registered"
        /\ value.attrs[1].id = CommonNameId /\ ~value.attrs[1].printable
    BY <1>0, <2>1, ValueShape DEF IsCommonName
  <2>3. /\ SpecialTextItem(t) \in Nested2 /\ ReadsSpecialText(SpecialTextItem(t))
        /\ Says(SpecialTextItem(t), value)
    BY <2>1, <2>2, AttributeShape, SpecialTextInverse DEF Nested2, Says
  <2>4. wire # NoWire => wire = SpecialTextItem(t) \/ IsLongCommonName(wire)
    <3>1. SaysList(wire, value.attrs) => IsLongCommonName(wire)
      <4>. SUFFICES ASSUME SaysList(wire, value.attrs) PROVE IsLongCommonName(wire)
        OBVIOUS
      <4>1. /\ wire.type = "array" /\ wire.len = 2
            /\ wire.items[1] = TypeItem(value.attrs[1])
        BY <2>2 DEF SaysList, Pair
      <4>2. TypeItem(value.attrs[1]) = IntItem(CommonNameId)
        BY <2>2 DEF TypeItem
      <4>. QED
        BY <4>1, <4>2 DEF IsLongCommonName
    <3>. QED
      BY <1>0, <2>1, <3>1 DEF Says
  <2>. HIDE DEF t
  <2>. QED
    BY <2>1, <2>3, <2>4, WrittenInv DEF Written
<1>3. CASE EncodeArray
  <2>1. /\ value.kind = "name" /\ ~IsCommonName(value.attrs)
        /\ items' = <<>> /\ pc' = "encoding" /\ UNCHANGED <<value, wire, attrs>>
    BY <1>3 DEF EncodeArray
  <2>2. Len(value.attrs) \in Nat
    BY <1>0, <2>1, ValueShape
  <2>3. EncoderInv'
    <3>1. 0 \in 0 .. Len(value.attrs) /\ Len(items') = 2 * 0
      BY <2>1, <2>2
    <3>2. \A k \in 1 .. 0 : Pair(items', k, value.attrs[k])
      OBVIOUS
    <3>. QED
      BY <2>1, <3>1, <3>2 DEF EncoderInv, IsCommonName
  <2>. QED
    BY <1>0, <2>1, <2>3 DEF IInv, TypeOK, DecoderInv, HeldInv, Says, IsCommonName, SaysList, Pair
<1>4. CASE EncodeRegistered \/ EncodeOid
  <2>1. /\ pc = "encoding" /\ Len(items) < 2 * Len(value.attrs)
        /\ items' = items \o <<TypeItem(Attr), ValueItem(Attr)>>
        /\ UNCHANGED <<pc, value, wire, attrs>>
    BY <1>4 DEF EncodeRegistered, EncodeOid, EncodeAttribute, ValueItem
  <2>2. /\ value.kind = "name" /\ ~IsCommonName(value.attrs)
        /\ value.attrs \in Seq(RdnAttribute)
    BY <1>0, <2>1, ValueShape DEF IInv, EncoderInv
  <2>3. PICK n \in 0 .. Len(value.attrs) :
          Len(items) = 2 * n /\ \A k \in 1 .. n : Pair(items, k, value.attrs[k])
    BY <2>1 DEF IInv, EncoderInv
  <2>4. /\ n + 1 \in 1 .. Len(value.attrs) /\ n + 1 \in 0 .. Len(value.attrs)
        /\ Attr = value.attrs[n + 1] /\ Attr \in RdnAttribute
    <3>1. Len(items) \div 2 = n
      BY <2>3, <2>2
    <3>. QED
      BY <2>1, <2>2, <2>3, <3>1 DEF Attr
  <2>5. TypeItem(Attr) \in Leaf /\ ValueItem(Attr) \in Leaf
    BY <2>4, PairIsRead
  <2>. DEFINE a == TypeItem(Attr)
              b == ValueItem(Attr)
  <2>6. /\ items' \in Seq(Leaf) /\ Len(items') = 2 * (n + 1)
        /\ \A j \in 1 .. 2 * n : items'[j] = items[j]
        /\ items'[2 * (n + 1) - 1] = a /\ items'[2 * (n + 1)] = b
    <3>. HIDE DEF a, b
    <3>1. items' = items \o <<a, b>> /\ a \in Leaf /\ b \in Leaf
      BY <2>1, <2>5 DEF a, b
    <3>2. /\ <<a, b>> \in Seq(Leaf) /\ Len(<<a, b>>) = 2
          /\ <<a, b>>[1] = a /\ <<a, b>>[2] = b
      BY <3>1
    <3>3. /\ n \in Nat /\ 2 * n \in Nat /\ Len(items) = 2 * n /\ items \in Seq(Leaf)
          /\ 2 * n + 1 = 2 * (n + 1) - 1 /\ 2 * n + 2 = 2 * (n + 1)
      BY <1>0, <2>3
    <3>4. /\ items \o <<a, b>> \in Seq(Leaf) /\ Len(items \o <<a, b>>) = 2 * n + 2
          /\ \A j \in 1 .. 2 * n : (items \o <<a, b>>)[j] = items[j]
          /\ (items \o <<a, b>>)[2 * n + 1] = a /\ (items \o <<a, b>>)[2 * n + 2] = b
      <4>. DEFINE m == 2 * n
      <4>1. m \in Nat /\ Len(items) = m
        BY <3>3
      <4>. HIDE DEF m
      <4>2. /\ items \o <<a, b>> \in Seq(Leaf) /\ Len(items \o <<a, b>>) = m + 2
            /\ \A j \in 1 .. m : (items \o <<a, b>>)[j] = items[j]
            /\ (items \o <<a, b>>)[m + 1] = a /\ (items \o <<a, b>>)[m + 2] = b
        BY <3>1, <3>3, <4>1, TwoMore
      <4>. QED
        BY <4>2 DEF m
    <3>5. 2 * (n + 1) - 1 = 2 * n + 1 /\ 2 * (n + 1) = 2 * n + 2
      BY <3>3
    <3>. QED
      BY <3>1, <3>4, <3>5
  <2>7. \A k \in 1 .. n + 1 : Pair(items', k, value.attrs[k])
    <3>. SUFFICES ASSUME NEW k \in 1 .. n + 1 PROVE Pair(items', k, value.attrs[k])
      OBVIOUS
    <3>1. CASE k \in 1 .. n
      <4>1. 2 * k - 1 \in 1 .. 2 * n /\ 2 * k \in 1 .. 2 * n
        BY <3>1
      <4>. QED
        BY <2>3, <2>6, <3>1, <4>1 DEF Pair
    <3>2. CASE k = n + 1
      BY <2>4, <2>6, <3>2 DEF Pair
    <3>. QED
      BY <3>1, <3>2
  <2>8. EncoderInv'
    <3>1. /\ n + 1 \in 0 .. Len(value'.attrs) /\ Len(items') = 2 * (n + 1)
          /\ \A k \in 1 .. n + 1 : Pair(items', k, value'.attrs[k])
      <4>1. value' = value
        BY <2>1
      <4>. HIDE DEF a, b
      <4>. QED
        BY <2>4, <2>6, <2>7, <4>1
    <3>2. value'.kind = "name" /\ ~IsCommonName(value'.attrs)
      BY <2>1, <2>2
    <3>. QED
      BY <3>1, <3>2 DEF EncoderInv, IsCommonName
  <2>. QED
    BY <1>0, <2>1, <2>6, <2>8
    DEF IInv, TypeOK, DecoderInv, HeldInv, Says, IsCommonName, SaysList, Pair
<1>5. CASE EncodeEnd
  <2>1. pc = "encoding" /\ Len(items) = 2 * Len(value.attrs) /\ Written(ArrayItem(items))
    BY <1>5 DEF EncodeEnd
  <2>2. /\ value.kind = "name" /\ ~IsCommonName(value.attrs)
        /\ value.attrs \in Seq(RdnAttribute)
    BY <1>0, <2>1, ValueShape DEF IInv, EncoderInv
  <2>3. \A k \in 1 .. Len(value.attrs) : Pair(items, k, value.attrs[k])
    <3>1. PICK n \in 0 .. Len(value.attrs) :
            Len(items) = 2 * n /\ \A k \in 1 .. n : Pair(items, k, value.attrs[k])
      BY <2>1 DEF IInv, EncoderInv
    <3>2. n = Len(value.attrs)
      BY <2>1, <2>2, <3>1
    <3>. QED
      BY <3>1, <3>2
  <2>4. ArrayItem(items) \in Nested2
    <3>1. items \in Seq(Nested1)
      BY <1>0 DEF Nested1
    <3>. QED
      BY <3>1, ArrayItemTyped DEF Nested2
  <2>5. SaysList(ArrayItem(items), value.attrs)
    <3>1. /\ ArrayItem(items).type = "array" /\ ArrayItem(items).items = items
          /\ ArrayItem(items).len = Len(items)
      BY DEF ArrayItem
    <3>. QED
      BY <2>1, <2>3, <3>1 DEF SaysList
  <2>6. wire # NoWire => wire = ArrayItem(items)
    <3>1. wire # NoWire => SaysList(wire, value.attrs)
      BY <1>0, <2>2 DEF Says
    <3>. QED
      BY <1>0, <2>2, <2>4, <2>5, <3>1, ListItemUnique
  <2>7. Says(ArrayItem(items), value)
    BY <2>2, <2>5 DEF Says
  <2>. QED
    BY <2>1, <2>4, <2>6, <2>7, WrittenInv DEF Written
<1>. QED
  BY <1>1, <1>2, <1>3, <1>4, <1>5 DEF Encode

-----------------------------------------------------------------------------
\* The sequence of one element.
LEMMA Singleton ==
  ASSUME NEW S, NEW s \in Seq(S), Len(s) = 1, NEW a, s[1] = a
  PROVE  s = <<a>>
OBVIOUS

\* What an item says of a value decides how it is read.
LEMMA SaidAndRead ==
  ASSUME NEW v \in Value, NEW item \in Nested2, Says(item, v)
  PROVE  /\ IsAbsent(item) => v = Absent
         /\ ReadsSpecialText(item) =>
              v = Name(<<Registered(CommonNameId, FALSE, SpecialTextRead(item))>>)
         /\ IsAttributeList(item) => v.kind = "name" /\ SaysList(item, v.attrs)
         /\ IsAbsent(item) \/ ReadsSpecialText(item) \/ IsAttributeList(item)
<1>1. CASE v.kind = "absent" /\ item = NullItem
  <2>1. Optional /\ v = Absent
    BY <1>1, ValueShape
  <2>. QED
    BY <1>1, <2>1 DEF IsAbsent, IsNull, NullItem, ReadsSpecialText, IsAttributeList
<1>2. CASE /\ v.kind = "name" /\ IsCommonName(v.attrs)
           /\ item = SpecialTextItem(v.attrs[1].value)
  <2>. DEFINE t == v.attrs[1].value
  <2>1. /\ v.attrs \in Seq(RdnAttribute) /\ Len(v.attrs) = 1 /\ v = Name(v.attrs)
        /\ v.attrs[1] \in RdnAttribute /\ v.attrs[1].form = "registered"
        /\ v.attrs[1].id = CommonNameId /\ ~v.attrs[1].printable
    BY <1>2, ValueShape DEF IsCommonName
  <2>2. t \in SpecialText /\ v.attrs[1] = Registered(CommonNameId, FALSE, t)
    <3>1. v.attrs[1].printable = FALSE
      BY <2>1, AttributeShape
    <3>. QED
      BY <2>1, <3>1, AttributeShape
  <2>3. ReadsSpecialText(item) /\ SpecialTextRead(item) = t
    BY <1>2, <2>2, SpecialTextInverse
  <2>4. v.attrs = <<Registered(CommonNameId, FALSE, t)>>
    BY <2>1, <2>2, Singleton
  <2>5. ~IsAbsent(item) /\ ~IsAttributeList(item)
    BY <2>3 DEF ReadsSpecialText, IsAbsent, IsNull, IsAttributeList
  <2>. QED
    BY <2>1, <2>3, <2>4, <2>5
<1>3. CASE v.kind = "name" /\ SaysList(item, v.attrs)
  <2>1. v.attrs \in Seq(RdnAttribute)
    BY <1>3, ValueShape
  <2>2. item.type = "array" /\ item.len % 2 = 0
    <3>1. Len(v.attrs) \in Nat
      BY <2>1
    <3>2. \A n \in Nat : (2 * n) % 2 = 0
      OBVIOUS
    <3>. QED
      BY <1>3, <3>1, <3>2 DEF SaysList
  <2>. QED
    BY <1>3, <2>2 DEF IsAbsent, IsNull, ReadsSpecialText, IsAttributeList
<1>. QED
  BY <1>1, <1>2, <1>3 DEF Says

\* A decoder that ends holds a value that the item says.
LEMMA HeldInvariant ==
  ASSUME IInv, pc \in {"decode", "decoding"}, NEW v \in Value, Says(wire, v), Held(v)
  PROVE  IInv'
<1>1. /\ value' = v /\ pc' = "encode" /\ UNCHANGED <<wire, items, attrs>>
      /\ v # NoValue /\ wire # NoWire
  BY ValueShape DEF Held, IInv, HeldInv
<1>2. Says(wire', value')
  BY <1>1 DEF Says, IsCommonName, SaysList, Pair
<1>. QED
  BY <1>1, <1>2 DEF IInv, TypeOK, EncoderInv, DecoderInv, HeldInv

\* A decoder that stops refuses an item no value is known for.
LEMMA RefusedInv ==
  ASSUME IInv, value = NoValue, Refuse
  PROVE  IInv' /\ wire' = wire /\ value' = value
BY DEF Refuse, IInv, TypeOK, EncoderInv, DecoderInv, HeldInv

\* The attribute read from the next two items is the one they say, the one
\* held included, and the decoder has read one more.
LEMMA PushInv ==
  ASSUME IInv, Decoding, NEW attr \in RdnAttribute, Push(attr),
         HasPart(1), HasPart(2), Part(1) = TypeItem(attr), Part(2) = ValueItem(attr),
         UnsignedAttr(attr) = attr,
         value # NoValue => attr = UnsignedAttr(value.attrs[Len(attrs) + 1])
  PROVE  IInv' /\ wire' = wire /\ value' = value /\ pc' = pc
<1>. DEFINE n == Len(attrs)
<1>1. /\ pc = "decoding" /\ attrs' = Append(attrs, attr) /\ UNCHANGED <<pc, value, wire, items>>
      /\ attrs \in Seq(RdnAttribute) /\ n \in Nat /\ wire # NoWire /\ wire \in Nested2
      /\ IsAttributeList(wire) /\ wire.type = "array"
  BY DEF Decoding, Push, IInv, TypeOK, HeldInv, DecoderInv, IsAttributeList
<1>2. wire.items \in Seq(Nested1) /\ wire.len \in Nat
  BY <1>1, WireShape
<1>3. /\ attrs' \in Seq(RdnAttribute) /\ Len(attrs') = n + 1 /\ attrs'[n + 1] = attr
      /\ \A k \in 1 .. n : attrs'[k] = attrs[k]
  BY <1>1
<1>4. 2 * (n + 1) <= Len(wire.items)
  BY <1>1, <1>2 DEF HasPart, HasElement
<1>5. Pair(wire.items, n + 1, attr)
  <2>1. 2 * (n + 1) - 1 = 2 * n + 1 /\ 2 * (n + 1) = 2 * n + 2
    BY <1>1
  <2>. QED
    BY <2>1 DEF Part, Pair
<1>6. n \in Nat
  BY <1>1
<1>. HIDE DEF n
<1>7. \A k \in 1 .. n + 1 : Pair(wire.items, k, attrs'[k]) /\ UnsignedAttr(attrs'[k]) = attrs'[k]
  <2>. SUFFICES ASSUME NEW k \in 1 .. n + 1
                PROVE  Pair(wire.items, k, attrs'[k]) /\ UnsignedAttr(attrs'[k]) = attrs'[k]
    OBVIOUS
  <2>1. CASE k = n + 1
    BY <1>3, <1>5, <2>1
  <2>2. CASE k \in 1 .. n
    BY <1>1, <1>3, <2>2 DEF IInv, DecoderInv, n
  <2>3. k = n + 1 \/ k \in 1 .. n
    BY <1>6
  <2>. QED
    BY <2>1, <2>2, <2>3
<1>8. value # NoValue => \A k \in 1 .. n + 1 : attrs'[k] = UnsignedAttr(value.attrs[k])
  <2>. SUFFICES ASSUME value # NoValue, NEW k \in 1 .. n + 1
                PROVE  attrs'[k] = UnsignedAttr(value.attrs[k])
    OBVIOUS
  <2>1. CASE k = n + 1
    BY <1>3, <2>1 DEF n
  <2>2. CASE k \in 1 .. n
    BY <1>1, <1>3, <2>2 DEF IInv, DecoderInv, n
  <2>3. k = n + 1 \/ k \in 1 .. n
    BY <1>6
  <2>. QED
    BY <2>1, <2>2, <2>3
<1>9. DecoderInv'
  <2>1. 2 * Len(attrs') <= Len(wire'.items) /\ IsAttributeList(wire')
    BY <1>1, <1>3, <1>4
  <2>2. \A k \in 1 .. Len(attrs') : /\ Pair(wire'.items, k, attrs'[k])
                                    /\ UnsignedAttr(attrs'[k]) = attrs'[k]
    BY <1>1, <1>3, <1>7
  <2>3. value' # NoValue => \A k \in 1 .. Len(attrs') : attrs'[k] = UnsignedAttr(value'.attrs[k])
    BY <1>1, <1>3, <1>8
  <2>. QED
    BY <2>1, <2>2, <2>3 DEF DecoderInv, IsAttributeList
<1>. QED
  BY <1>1, <1>3, <1>9
  DEF IInv, TypeOK, EncoderInv, HeldInv, Says, IsCommonName, SaysList, Pair

\* The next two items of a held name are its next attribute.
LEMMA HeldParts ==
  ASSUME IInv, Decoding, value # NoValue
  PROVE  LET held == value.attrs[Len(attrs) + 1]
         IN  /\ held \in RdnAttribute
             /\ HasPart(1) /\ HasPart(2)
             /\ Part(1) = TypeItem(held) /\ Part(2) = ValueItem(held)
<1>. DEFINE n == Len(attrs)
<1>1. /\ n \in Nat /\ value \in Value /\ wire \in Nested2 /\ wire # NoWire
      /\ IsAttributeList(wire) /\ n < wire.len \div 2 /\ Says(wire, value)
  BY DEF Decoding, IInv, TypeOK, HeldInv, DecoderInv
<1>2. /\ value.kind = "name" /\ SaysList(wire, value.attrs)
      /\ value.attrs \in Seq(RdnAttribute)
  BY <1>1, SaidAndRead, ValueShape
<1>3. /\ wire.len = 2 * Len(value.attrs) /\ Len(wire.items) = 2 * Len(value.attrs)
      /\ \A k \in 1 .. Len(value.attrs) : Pair(wire.items, k, value.attrs[k])
  BY <1>2 DEF SaysList
<1>4. Len(value.attrs) \in Nat
  BY <1>2
<1>5. \A m, k \in Nat : k < (2 * m) \div 2 =>
        /\ k + 1 \in 1 .. m /\ 2 * k + 2 <= 2 * m /\ 2 * k + 1 <= 2 * m
        /\ 2 * (k + 1) - 1 = 2 * k + 1 /\ 2 * (k + 1) = 2 * k + 2
  OBVIOUS
<1>6. /\ n + 1 \in 1 .. Len(value.attrs)
      /\ 2 * n + 2 <= 2 * Len(value.attrs) /\ 2 * n + 1 <= 2 * Len(value.attrs)
      /\ 2 * (n + 1) - 1 = 2 * n + 1 /\ 2 * (n + 1) = 2 * n + 2
  BY <1>1, <1>3, <1>4, <1>5
<1>7. value.attrs[n + 1] \in RdnAttribute
  BY <1>2, <1>6
<1>8. Pair(wire.items, n + 1, value.attrs[n + 1])
  BY <1>3, <1>6
<1>. QED
  BY <1>3, <1>6, <1>7, <1>8 DEF HasPart, HasElement, Part, Pair

\* The parts the decoder reads are items.
LEMMA PartsTyped ==
  ASSUME IInv, Decoding
  PROVE  /\ HasPart(1) => Part(1) \in Nested1
         /\ HasPart(2) => Part(2) \in Nested1
<1>1. /\ Len(attrs) \in Nat /\ wire \in Nested2 /\ wire.type = "array"
  BY DEF Decoding, IInv, TypeOK, HeldInv, DecoderInv, IsAttributeList
<1>2. wire.items \in Seq(Nested1)
  BY <1>1, WireShape
<1>. QED
  BY <1>1, <1>2 DEF HasPart, HasElement, Part

\* A leaf is told from an array by its type.
LEMMA LeafOfNested1 ==
  ASSUME NEW item \in Nested1, item.type \notin {"array", "array_indef"}
  PROVE  item \in Leaf
BY ArrayShape DEF Nested1

\* Decoding never changes the item, returns a held value but for its zero
\* types, and refuses none.
LEMMA DecodeInvariant ==
  ASSUME IInv, Decode
  PROVE  /\ IInv' /\ wire' = wire
         /\ value # NoValue => value' \in {value, Unsigned(value)} /\ pc' # "refused"
<1>0. /\ pc \in {"decode", "decoding"} /\ wire \in Nested2 /\ wire # NoWire
      /\ value \in Value \cup {NoValue}
      /\ value # NoValue => value \in Value /\ Says(wire, value)
  BY DEF Decode, DecodeAbsent, DecodeCompact, DecodeArray, DecodeRefuse, DecodeRegistered,
         DecodeOid, RefuseAttribute, DecodeEnd, Decoding, IInv, HeldInv, TypeOK
<1>1. CASE DecodeAbsent
  <2>1. pc = "decode" /\ IsAbsent(wire) /\ Held(Absent)
    BY <1>1 DEF DecodeAbsent
  <2>2. wire = NullItem
    BY <1>0, <2>1, WireShape, LeafShape DEF IsAbsent, IsNull
  <2>3. Absent \in Value /\ Says(wire, Absent)
    BY <2>1, <2>2 DEF IsAbsent, Value, Says, Absent
  <2>4. value # NoValue => value = Absent
    BY <1>0, <2>1, SaidAndRead
  <2>. QED
    BY <2>1, <2>3, <2>4, HeldInvariant DEF Held
<1>2. CASE DecodeCompact
  <2>. DEFINE t == SpecialTextRead(wire)
              attr == Registered(CommonNameId, FALSE, t)
  <2>1. pc = "decode" /\ ReadsSpecialText(wire) /\ Held(Name(<<attr>>))
    BY <1>2 DEF DecodeCompact
  <2>2. t \in SpecialText /\ SpecialTextItem(t) = wire
    <3>1. wire \in Leaf
      BY <1>0, <2>1, WireShape DEF ReadsSpecialText
    <3>. QED
      BY <2>1, <3>1, SpecialTextReadInverse
  <2>3. attr \in RdnAttribute
    BY <2>2, IntAssumption DEF RdnAttribute, RdnAttr, Registered, CommonNameId
  <2>4. /\ attr.form = "registered" /\ attr.id = CommonNameId /\ ~attr.printable
        /\ attr.value = t
    BY DEF Registered
  <2>. HIDE DEF attr
  <2>5. Name(<<attr>>) \in Value
    BY <2>3 DEF Name, Value
  <2>6. Says(wire, Name(<<attr>>))
    <3>1. IsCommonName(<<attr>>)
      BY <2>4 DEF IsCommonName
    <3>. QED
      BY <2>2, <2>4, <3>1 DEF Says, Name
  <2>7. value # NoValue => value = Name(<<attr>>)
    BY <1>0, <2>1, SaidAndRead DEF attr
  <2>. QED
    BY <2>1, <2>5, <2>6, <2>7, HeldInvariant DEF Held
<1>3. CASE DecodeArray
  <2>1. /\ pc = "decode" /\ IsAttributeList(wire) /\ attrs' = <<>> /\ pc' = "decoding"
        /\ UNCHANGED <<value, wire, items>>
    BY <1>3 DEF DecodeArray
  <2>2. wire.items \in Seq(Nested1)
    BY <1>0, <2>1, WireShape DEF IsAttributeList
  <2>3. DecoderInv'
    <3>1. IsAttributeList(wire') /\ Len(attrs') = 0 /\ 0 <= Len(wire'.items)
      BY <2>1, <2>2 DEF IsAttributeList
    <3>. QED
      BY <3>1 DEF DecoderInv, IsAttributeList
  <2>. QED
    BY <1>0, <2>1, <2>3
    DEF IInv, TypeOK, EncoderInv, HeldInv, Says, IsCommonName, SaysList, Pair
<1>4. CASE DecodeRefuse
  <2>1. value = NoValue /\ Refuse
    BY <1>0, <1>4, SaidAndRead DEF DecodeRefuse
  <2>. QED
    BY <2>1, RefusedInv
<1>5. CASE DecodeRegistered
  <2>. DEFINE t == SpecialTextRead(Part(2))
              attr == RegisteredRead(Part(1), t)
  <2>1. /\ Decoding /\ HasPart(1) /\ HasPart(2) /\ Push(attr)
        /\ ReadsRegisteredType(Part(1)) /\ ReadsSpecialText(Part(2))
    BY <1>5 DEF DecodeRegistered, ReadsRegistered
  <2>2. Part(1) \in Leaf /\ Part(2) \in Leaf
    BY <2>1, PartsTyped, LeafOfNested1 DEF ReadsRegisteredType, IsInt, ReadsSpecialText
  <2>3. t \in SpecialText /\ SpecialTextItem(t) = Part(2)
    BY <2>1, <2>2, SpecialTextReadInverse
  <2>4. /\ attr = Registered(Magnitude(Part(1).int), Part(1).int < 0, t)
        /\ Magnitude(Part(1).int) \in 0 .. U16Max /\ (Part(1).int < 0) \in BOOLEAN
        /\ TypeItem(attr) = Part(1) /\ UnsignedAttr(attr) = attr
    BY <2>1, <2>2, RegisteredReadInverse
  <2>5. attr \in RdnAttribute /\ ValueItem(attr) = Part(2)
    <3>1. \A m \in 0 .. U16Max, p \in BOOLEAN, w \in SpecialText :
            /\ Registered(m, p, w) \in RdnAttribute
            /\ ValueItem(Registered(m, p, w)) = SpecialTextItem(w)
      BY DEF RdnAttribute, RdnAttr, Registered, ValueItem
    <3>. HIDE DEF t, attr
    <3>. QED
      BY <2>3, <2>4, <3>1
  <2>6. ASSUME value # NoValue PROVE attr = UnsignedAttr(value.attrs[Len(attrs) + 1])
    <3>. DEFINE held == value.attrs[Len(attrs) + 1]
    <3>1. held \in RdnAttribute /\ Part(1) = TypeItem(held) /\ Part(2) = ValueItem(held)
      BY <2>1, <2>6, HeldParts
    <3>. HIDE DEF held
    <3>2. held.form = "registered"
      BY <2>1, <3>1, AttributeShape, PairIsRead
    <3>3. attr = UnsignedAttr(held)
      BY <3>1, <3>2, PairIsRead
    <3>. QED
      BY <3>3 DEF held
  <2>. HIDE DEF attr
  <2>. QED
    BY <2>1, <2>4, <2>5, <2>6, PushInv DEF Decoding
<1>6. CASE DecodeOid
  <2>. DEFINE attr == OfOid(Part(1).bytes, Part(2).bytes)
  <2>1. /\ Decoding /\ HasPart(1) /\ HasPart(2) /\ Push(attr)
        /\ ReadsOid(Part(1)) /\ IsBytes(Part(2))
    BY <1>6 DEF DecodeOid, ReadsOfOid
  <2>2. Part(1) \in Leaf /\ Part(2) \in Leaf
    BY <2>1, PartsTyped, LeafOfNested1 DEF ReadsOid, IsBytes
  <2>3. /\ Part(1) = BytesItem(Part(1).bytes) /\ Part(1).bytes \in Oids
        /\ Part(2) = BytesItem(Part(2).bytes) /\ Part(2).bytes \in Seq(Octet)
    BY <2>1, <2>2, LeafShape DEF ReadsOid, IsBytes
  <2>4. /\ attr \in RdnAttribute /\ TypeItem(attr) = Part(1) /\ ValueItem(attr) = Part(2)
        /\ UnsignedAttr(attr) = attr
    BY <2>3 DEF OfOid, RdnAttribute, RdnAttr, TypeItem, ValueItem, UnsignedAttr
  <2>5. ASSUME value # NoValue PROVE attr = UnsignedAttr(value.attrs[Len(attrs) + 1])
    <3>. DEFINE held == value.attrs[Len(attrs) + 1]
    <3>1. held \in RdnAttribute /\ Part(1) = TypeItem(held) /\ Part(2) = ValueItem(held)
      BY <2>1, <2>5, HeldParts
    <3>. HIDE DEF held
    <3>2. held.form = "oid"
      BY <2>1, <3>1, AttributeShape, PairIsRead
    <3>3. attr = UnsignedAttr(held)
      BY <3>1, <3>2, PairIsRead
    <3>. QED
      BY <3>3 DEF held
  <2>. HIDE DEF attr
  <2>. QED
    BY <2>1, <2>4, <2>5, PushInv DEF Decoding
<1>7. CASE RefuseAttribute
  <2>1. Decoding /\ ~ReadsRegistered /\ ~ReadsOfOid /\ Refuse
    BY <1>7 DEF RefuseAttribute
  <2>2. ASSUME value # NoValue PROVE FALSE
    <3>. DEFINE held == value.attrs[Len(attrs) + 1]
    <3>1. /\ held \in RdnAttribute /\ HasPart(1) /\ HasPart(2)
          /\ Part(1) = TypeItem(held) /\ Part(2) = ValueItem(held)
      BY <2>1, <2>2, HeldParts
    <3>. HIDE DEF held
    <3>. QED
      BY <2>1, <3>1, AttributeShape, PairIsRead DEF ReadsRegistered, ReadsOfOid
  <2>. QED
    BY <2>1, <2>2, RefusedInv
<1>8. CASE DecodeEnd
  <2>1. /\ pc = "decoding" /\ Len(attrs) = wire.len \div 2 /\ Held(Name(attrs))
        /\ attrs \in Seq(RdnAttribute) /\ IsAttributeList(wire)
    BY <1>8 DEF DecodeEnd, IInv, TypeOK, DecoderInv
  <2>2. /\ wire.items \in Seq(Nested1) /\ wire.len \in Nat /\ Len(wire.items) <= wire.len
    BY <1>0, <2>1, WireShape DEF IsAttributeList
  <2>3. wire.len = 2 * Len(attrs) /\ Len(wire.items) = 2 * Len(attrs)
    <3>1. 2 * Len(attrs) <= Len(wire.items) /\ wire.len % 2 = 0
      BY <2>1 DEF IInv, DecoderInv, IsAttributeList
    <3>2. \A m \in Nat : m % 2 = 0 => m = 2 * (m \div 2)
      OBVIOUS
    <3>3. Len(wire.items) \in Nat
      BY <2>2
    <3>. QED
      BY <2>1, <2>2, <3>1, <3>2, <3>3
  <2>4. Name(attrs) \in Value
    BY <2>1 DEF Name, Value
  <2>5. Says(wire, Name(attrs))
    <3>1. SaysList(wire, attrs)
      BY <2>1, <2>3 DEF SaysList, IsAttributeList, IInv, DecoderInv
    <3>. QED
      BY <3>1 DEF Says, Name
  <2>6. ASSUME value # NoValue PROVE Name(attrs) = Unsigned(value)
    <3>1. /\ value.kind = "name" /\ SaysList(wire, value.attrs)
          /\ value.attrs \in Seq(RdnAttribute)
      BY <1>0, <2>1, <2>6, SaidAndRead, ValueShape
    <3>2. Len(value.attrs) = Len(attrs)
      <4>1. 2 * Len(value.attrs) = 2 * Len(attrs)
        BY <2>3, <3>1 DEF SaysList
      <4>2. Len(value.attrs) \in Nat /\ Len(attrs) \in Nat
        BY <2>1, <3>1
      <4>. QED
        BY <4>1, <4>2
    <3>3. \A k \in 1 .. Len(attrs) : attrs[k] = UnsignedAttr(value.attrs[k])
      BY <2>1, <2>6 DEF IInv, DecoderInv
    <3>4. attrs = [i \in DOMAIN value.attrs |-> UnsignedAttr(value.attrs[i])]
      BY <2>1, <3>1, <3>2, <3>3
    <3>. QED
      BY <3>1, <3>4 DEF Unsigned
  <2>. QED
    BY <2>1, <2>4, <2>5, <2>6, HeldInvariant DEF Held
<1>. QED
  BY <1>1, <1>2, <1>3, <1>4, <1>5, <1>6, <1>7, <1>8 DEF Decode

-----------------------------------------------------------------------------
\* Every step keeps the invariant.
LEMMA StepInv == IInv /\ [Next]_vars => IInv'
<1>. SUFFICES ASSUME IInv, [Next]_vars PROVE IInv'
  OBVIOUS
<1>1. CASE Next
  BY <1>1, EncodeInvariant, DecodeInvariant DEF Next
<1>2. CASE UNCHANGED vars
  BY <1>2
  DEF vars, IInv, TypeOK, EncoderInv, DecoderInv, HeldInv, Says, IsCommonName, SaysList,
      Pair, IsAttributeList
<1>. QED
  BY <1>1, <1>2

\* The inductive invariant: the item says the value, wherever the two loops are.
THEOREM Invariance == Spec => []IInv
BY InitInv, StepInv, PTL DEF Spec

\* Every variable keeps its type: whatever a peer sends, Name::decode returns
\* u16 types, well-formed OIDs and MAC addresses of 6 or 8 octets.
THEOREM TypeCorrect == Spec => []TypeOK
BY Invariance, PTL DEF IInv

\* Any number of encodings and decodings of a name lose nothing but the string
\* type of type 0, which has no sign on the wire, and lose that once.
THEOREM OnlySignsAreLost == Spec => LosslessUpToSign
<1>1. IInv /\ [Next]_vars => [value # NoValue => value' \in {value, Unsigned(value)}]_vars
  <2>. SUFFICES ASSUME IInv, Next, value # NoValue PROVE value' \in {value, Unsigned(value)}
    OBVIOUS
  <2>. QED
    BY EncodeInvariant, DecodeInvariant DEF Next
<1>. QED
  BY <1>1, Invariance, PTL DEF Spec, LosslessUpToSign

\* The bytes under a signature stay the same however often the name is read
\* and written, but for the long form of a common name, which is replaced.
THEOREM WireIsStable == Spec => WireStable
<1>1. IInv /\ [Next]_vars =>
        [wire # NoWire => \/ wire' = wire
                          \/ IsLongCommonName(wire) /\ ReadsSpecialText(wire')]_vars
  <2>. SUFFICES ASSUME IInv, Next, wire # NoWire
                PROVE  wire' = wire \/ (IsLongCommonName(wire) /\ ReadsSpecialText(wire'))
    OBVIOUS
  <2>. QED
    BY EncodeInvariant, DecodeInvariant DEF Next
<1>. QED
  BY <1>1, Invariance, PTL DEF Spec, WireStable

\* Name::encode_optional and decode_optional implement the abstract codec: a
\* held name never changes, up to its zero types, and is never refused.
THEOREM Refinement == Spec => KeepsPromise
<1>. DEFINE status == CASE pc = "refused"  -> "refused"
                        [] value = NoValue -> "reading"
                        [] OTHER           -> "held"
            held   == Unsigned(value)
<1>0. Unsigned(NoValue) = NoValue
  BY DEF Unsigned, NoValue
<1>1. \A v \in Value : /\ Unsigned(v) \in {w \in Value : Unsigned(w) = w}
                       /\ Unsigned(v) # NoValue
  BY UnsignedFacts, ValueShape
<1>2. Init => Promise!Init
  <2>. SUFFICES ASSUME Init PROVE Promise!Init
    OBVIOUS
  <2>1. CASE pc = "encode" /\ value \in Callers
    <3>1. value \in Value /\ value # NoValue
      BY <2>1, CallersAssumption, ValueShape
    <3>. QED
      BY <1>1, <2>1, <3>1 DEF Promise!Init
  <2>2. CASE pc = "decode" /\ value = NoValue
    BY <1>0, <2>2 DEF Promise!Init
  <2>. QED
    BY <2>1, <2>2 DEF Init
<1>3. IInv /\ IInv' /\ [Next]_vars => [Promise!Next]_(Promise!vars)
  <2>. SUFFICES ASSUME IInv, IInv', [Next]_vars
                PROVE  Promise!Next \/ UNCHANGED Promise!vars
    BY DEF Promise!vars
  <2>0. /\ value \in Value \cup {NoValue} /\ value' \in Value \cup {NoValue}
        /\ pc = "refused" => value = NoValue
        /\ pc' = "refused" => value' = NoValue
    BY DEF IInv, HeldInv, TypeOK
  <2>1. CASE UNCHANGED vars
    BY <2>1 DEF vars, Promise!vars, Unsigned
  <2>2. CASE Encode
    <3>1. pc \in {"encode", "encoding"} /\ value # NoValue
      BY <2>2
      DEF IInv, HeldInv, Encode, EncodeAbsent, EncodeCompact, EncodeArray, EncodeRegistered,
          EncodeOid, EncodeAttribute, EncodeEnd
    <3>2. value' = value /\ pc' # "refused"
      BY <2>2, EncodeInvariant
    <3>3. status = "held" /\ status' = "held" /\ held' = held
      BY <3>1, <3>2 DEF Unsigned
    <3>. QED
      BY <3>3 DEF Promise!vars
  <2>3. CASE Decode
    <3>1. pc \in {"decode", "decoding"}
      BY <2>3
      DEF Decode, DecodeAbsent, DecodeCompact, DecodeArray, DecodeRefuse, DecodeRegistered,
          DecodeOid, RefuseAttribute, DecodeEnd, Decoding
    <3>2. CASE value # NoValue
      <4>1. value' \in {value, Unsigned(value)} /\ pc' # "refused" /\ value \in Value
        BY <2>0, <2>3, <3>2, DecodeInvariant
      <4>2. Unsigned(value') = Unsigned(value) /\ value' # NoValue
        BY <1>1, <3>2, <4>1, UnsignedFacts
      <4>3. held' = held
        BY <4>2 DEF Unsigned
      <4>4. status = "held" /\ status' = "held"
        BY <3>1, <3>2, <4>1, <4>2
      <4>. QED
        BY <4>3, <4>4 DEF Promise!vars
    <3>3. CASE value = NoValue /\ value' # NoValue
      <4>1. status = "reading" /\ status' = "held"
        BY <2>0, <3>1, <3>3
      <4>2. held' = Unsigned(value') /\ value' \in Value
        BY <2>0, <3>3 DEF Unsigned
      <4>. QED
        BY <1>1, <4>1, <4>2 DEF Promise!Next, Promise!Accept
    <3>4. CASE value = NoValue /\ value' = NoValue
      <4>1. status = "reading" /\ status' \in {"reading", "refused"} /\ held' = held
        BY <3>1, <3>4 DEF Unsigned
      <4>. QED
        BY <4>1 DEF Promise!Next, Promise!Refuse, Promise!vars
    <3>. QED
      BY <3>2, <3>3, <3>4
  <2>. QED
    BY <2>1, <2>2, <2>3 DEF Next
<1>. QED
  BY <1>2, <1>3, Invariance, PTL DEF Spec, KeepsPromise, Promise!Spec
=============================================================================
