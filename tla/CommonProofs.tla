---------------------------- MODULE CommonProofs ----------------------------
(***************************************************************************)
(* Facts about the building blocks of Common: a decoder undoes its encoder *)
(* and the other way round.  The proofs about the modules built from them  *)
(* cite these.                                                             *)
(***************************************************************************)
EXTENDS Common, FiniteSetTheorems, TLAPS

\* An item that is no array is what its type says and nothing else.
LEMMA LeafShape ==
  ASSUME NEW item \in Leaf
  PROVE  /\ item.type \in {"int", "bytes", "text", "tag", "null"}
         /\ item.type = "int"   => item.int \in Int /\ item = IntItem(item.int)
         /\ item.type = "bytes" => item.bytes \in Seq(Octet) /\ item = BytesItem(item.bytes)
         /\ item.type = "text"  => item.text \in STRING /\ item = TextItem(item.text)
         /\ item.type = "tag"   => /\ item.tag \in Nat /\ item.bytes \in Seq(Octet)
                                   /\ item = TagItem(item.tag, item.bytes)
         /\ item.type = "null"  => item = NullItem
BY DEF Leaf, IntItem, BytesItem, TextItem, TagItem, NullItem

\* An array is its header and its elements.
LEMMA ArrayShape ==
  ASSUME NEW S, NEW item \in ArrayOf(S)
  PROVE  /\ item.type \in {"array", "array_indef"}
         /\ item.items \in Seq(S)
         /\ item.type = "array" =>
              /\ item.len \in Nat /\ Len(item.items) <= item.len
              /\ item = [type |-> "array", len |-> item.len, items |-> item.items]
BY DEF ArrayOf

\* A complete array of typed elements is a typed item.
LEMMA ArrayItemTyped ==
  ASSUME NEW S, NEW s \in Seq(S)
  PROVE  ArrayItem(s) \in ArrayOf(S)
<1>1. Len(s) \in Nat /\ Len(s) <= Len(s)
  OBVIOUS
<1>2. ArrayItem(s) \in [type : {"array"}, len : Nat, items : Seq(S)]
  BY <1>1 DEF ArrayItem
<1>3. ArrayItem(s).items = s /\ ArrayItem(s).len = Len(s)
  BY DEF ArrayItem
<1>4. Len(ArrayItem(s).items) <= ArrayItem(s).len
  BY <1>1, <1>3, Zenon
<1>. QED
  BY <1>2, <1>4 DEF ArrayOf

\* SpecialText::encode writes a leaf that SpecialText::decode takes back.
LEMMA SpecialTextInverse ==
  ASSUME NEW t \in SpecialText
  PROVE  /\ SpecialTextItem(t) \in Leaf
         /\ ReadsSpecialText(SpecialTextItem(t))
         /\ SpecialTextRead(SpecialTextItem(t)) = t
<1>1. CASE t.kind = "text"
  BY <1>1 DEF SpecialText, SpecialTextItem, ReadsSpecialText, SpecialTextRead, TextItem, Text, Leaf
<1>2. CASE t.kind = "bytes"
  BY <1>2 DEF SpecialText, SpecialTextItem, ReadsSpecialText, SpecialTextRead, BytesItem, Bytes, Leaf
<1>3. CASE t.kind = "mac"
  <2>1. t.bytes \in Seq(Octet) /\ Len(t.bytes) \in MacLengths /\ t = Mac(t.bytes)
    BY <1>3 DEF SpecialText, MacAddr, Mac
  <2>2. SpecialTextItem(t) = TagItem(MacAddressTag, t.bytes)
    BY <1>3 DEF SpecialTextItem
  <2>. QED
    BY <2>1, <2>2 DEF ReadsSpecialText, SpecialTextRead, TagItem, Leaf, MacAddressTag
<1>. QED
  BY <1>1, <1>2, <1>3 DEF SpecialText

\* What SpecialText::decode returns is a value, written again as it was read.
LEMMA SpecialTextReadInverse ==
  ASSUME NEW item \in Leaf, ReadsSpecialText(item)
  PROVE  /\ SpecialTextRead(item) \in SpecialText
         /\ SpecialTextItem(SpecialTextRead(item)) = item
<1>1. CASE item.type = "text"
  BY <1>1, LeafShape DEF SpecialText, SpecialTextItem, SpecialTextRead, Text
<1>2. CASE item.type = "bytes"
  BY <1>2, LeafShape DEF SpecialText, SpecialTextItem, SpecialTextRead, Bytes
<1>3. CASE item.type = "tag"
  <2>1. /\ item.bytes \in MacAddr /\ item = TagItem(MacAddressTag, item.bytes)
        /\ SpecialTextRead(item) = Mac(item.bytes)
    BY <1>3, LeafShape DEF ReadsSpecialText, MacAddr, SpecialTextRead
  <2>. QED
    BY <2>1 DEF SpecialText, Mac, SpecialTextItem
<1>. QED
  BY <1>1, <1>2, <1>3 DEF ReadsSpecialText

\* The type of a registered attribute comes back from its sign, but for the
\* string type of type 0, which has none.
LEMMA RegisteredTypeInverse ==
  ASSUME NEW id \in 0 .. U16Max, NEW printable \in BOOLEAN, NEW v
  PROVE  LET item == TypeItem(Registered(id, printable, v))
         IN  /\ item \in Leaf /\ IsInt(item) /\ ReadsRegisteredType(item)
             /\ RegisteredRead(item, v) = UnsignedAttr(Registered(id, printable, v))
<1>. DEFINE n == IF printable THEN -id ELSE id
<1>1. TypeItem(Registered(id, printable, v)) = IntItem(n)
  BY DEF TypeItem, Registered
<1>2. n \in Int /\ n \in -U16Max .. U16Max /\ Magnitude(n) = id
  BY IntAssumption DEF Magnitude
<1>3. n < 0 <=> printable /\ id # 0
  BY IntAssumption
<1>. HIDE DEF n
<1>4. RegisteredRead(IntItem(n), v) = Registered(id, n < 0, v)
  BY <1>2 DEF RegisteredRead, IntItem
<1>5. UnsignedAttr(Registered(id, printable, v)) = Registered(id, printable /\ id # 0, v)
  <2>1. CASE id = 0
    BY <2>1 DEF UnsignedAttr, Registered
  <2>2. CASE id # 0
    <3>1. (printable /\ id # 0) = printable
      BY <2>2
    <3>. QED
      BY <2>2, <3>1 DEF UnsignedAttr, Registered
  <2>. QED
    BY <2>1, <2>2
<1>6. (n < 0) = (printable /\ id # 0)
  BY <1>2, <1>3
<1>. QED
  BY <1>1, <1>2, <1>4, <1>5, <1>6 DEF IsInt, IntItem, Leaf, ReadsRegisteredType

\* The type read from an integer is a u16 that is written as that integer,
\* and an attribute that was read has nothing left to lose.
LEMMA RegisteredReadInverse ==
  ASSUME NEW item \in Leaf, ReadsRegisteredType(item), NEW v
  PROVE  LET attr == RegisteredRead(item, v)
         IN  /\ attr = Registered(Magnitude(item.int), item.int < 0, v)
             /\ Magnitude(item.int) \in 0 .. U16Max /\ (item.int < 0) \in BOOLEAN
             /\ TypeItem(attr) = item
             /\ UnsignedAttr(attr) = attr
<1>1. /\ item.int \in Int /\ item.int \in -U16Max .. U16Max
      /\ item = IntItem(item.int)
  BY LeafShape DEF ReadsRegisteredType, IsInt
<1>2. Magnitude(item.int) \in 0 .. U16Max
  BY <1>1, IntAssumption DEF Magnitude
<1>3. (IF item.int < 0 THEN -Magnitude(item.int) ELSE Magnitude(item.int)) = item.int
  BY <1>1 DEF Magnitude
<1>4. Magnitude(item.int) = 0 => ~(item.int < 0)
  BY <1>1 DEF Magnitude
<1>5. TypeItem(RegisteredRead(item, v)) = IntItem(item.int)
  BY <1>3 DEF TypeItem, RegisteredRead, Registered
<1>6. UnsignedAttr(RegisteredRead(item, v)) = RegisteredRead(item, v)
  <2>1. CASE Magnitude(item.int) # 0
    BY <2>1 DEF UnsignedAttr, RegisteredRead, Registered
  <2>2. CASE Magnitude(item.int) = 0
    <3>1. (item.int < 0) = FALSE
      BY <1>4, <2>2
    <3>. QED
      BY <2>2, <3>1 DEF UnsignedAttr, RegisteredRead, Registered
  <2>. QED
    BY <2>1, <2>2
<1>. QED
  BY <1>1, <1>2, <1>5, <1>6 DEF RegisteredRead

-----------------------------------------------------------------------------
(* Big integers                                                            *)

\* A finite set of positions that is not empty has a first one: among what the
\* set has up to each of its elements, one part has no smaller part.
LEMMA MinFacts ==
  ASSUME NEW S, IsFiniteSet(S), S \subseteq Nat, S # {}
  PROVE  Min(S) \in S /\ \A y \in S : Min(S) <= y
<1>. DEFINE UpTo(x) == {y \in S : y <= x}
            parts == {UpTo(x) : x \in S}
<1>1. parts \subseteq SUBSET S /\ parts # {}
  OBVIOUS
<1>2. IsWellFoundedOn(StrictSubsetOrdering(S), SUBSET S)
  BY FS_StrictSubsetOrderingWellFounded, FS_FiniteSubsetsOfFinite
<1>3. PICK part \in parts : \A other \in parts : ~(<<other, part>> \in StrictSubsetOrdering(S))
  BY <1>1, <1>2, WFMin
<1>4. PICK x \in S : part = UpTo(x)
  OBVIOUS
<1>5. ASSUME NEW y \in S, y < x
      PROVE  FALSE
  <2>1. UpTo(y) \subseteq UpTo(x) /\ x \in UpTo(x) /\ x \notin UpTo(y)
    <3>1. \A z \in S : z <= y => z <= x
      BY <1>5
    <3>2. x <= x /\ ~(x <= y)
      BY <1>5
    <3>. QED
      BY <3>1, <3>2
  <2>2. UpTo(y) \in parts /\ UpTo(x) \in parts
    OBVIOUS
  <2>. HIDE DEF UpTo
  <2>3. <<UpTo(y), UpTo(x)>> \in StrictSubsetOrdering(S)
    BY <1>1, <2>1, <2>2 DEF StrictSubsetOrdering
  <2>. QED
    BY <1>3, <1>4, <2>2, <2>3
<1>6. \A y \in S : x <= y
  BY <1>5
<1>. QED
  BY <1>6 DEF Min

\* The digits behind the leading zeros are a number, and are read from the
\* number's own octets again.
LEMMA BigUintFacts ==
  /\ \A b \in Seq(Octet) : FromBytesBe(b) \in BigUint
  /\ \A n \in BigUint : /\ ToBytesBe(n) \in Seq(Octet)
                        /\ FromBytesBe(ToBytesBe(n)) = n
<1>1. ASSUME NEW b \in Seq(Octet)
      PROVE  FromBytesBe(b) \in BigUint
  <2>. DEFINE digits == {i \in DOMAIN b : b[i] # 0}
  <2>1. CASE digits = {}
    BY <2>1 DEF FromBytesBe, BigUint
  <2>2. CASE digits # {}
    <3>1. digits \subseteq Nat /\ IsFiniteSet(digits)
      <4>1. digits \subseteq 1 .. Len(b) /\ Len(b) \in Int
        OBVIOUS
      <4>. QED
        BY <4>1, FS_Interval, FS_Subset
    <3>2. Min(digits) \in digits
      BY <2>2, <3>1, MinFacts
    <3>. DEFINE m == Min(digits)
    <3>3. m \in 1 .. Len(b) /\ b[m] # 0
      BY <3>2
    <3>4. FromBytesBe(b) = SubSeq(b, m, Len(b))
      BY <2>2 DEF FromBytesBe
    <3>. HIDE DEF m, digits
    <3>5. SubSeq(b, m, Len(b)) \in Seq(Octet) /\ SubSeq(b, m, Len(b))[1] = b[m]
      BY <3>3
    <3>. QED
      BY <3>3, <3>4, <3>5 DEF BigUint
  <2>. QED
    BY <2>1, <2>2
<1>2. ASSUME NEW n \in BigUint
      PROVE  ToBytesBe(n) \in Seq(Octet) /\ FromBytesBe(ToBytesBe(n)) = n
  <2>1. CASE n = <<>>
    <3>1. ToBytesBe(n) = <<0>> /\ <<0>> \in Seq(Octet)
      BY <2>1, OctetAssumption DEF ToBytesBe, Octet
    <3>2. {i \in DOMAIN <<0>> : <<0>>[i] # 0} = {}
      OBVIOUS
    <3>. QED
      BY <2>1, <3>1, <3>2 DEF FromBytesBe
  <2>2. CASE n # <<>>
    <3>. DEFINE digits == {i \in DOMAIN n : n[i] # 0}
    <3>1. n \in Seq(Octet) /\ n[1] # 0 /\ Len(n) >= 1
      BY <2>2 DEF BigUint
    <3>2. ToBytesBe(n) = n
      BY <2>2 DEF ToBytesBe
    <3>3. 1 \in digits /\ digits \subseteq Nat /\ \A y \in digits : y >= 1
      BY <3>1
    <3>4. IsFiniteSet(digits)
      <4>1. digits \subseteq 1 .. Len(n) /\ Len(n) \in Int
        BY <3>1
      <4>2. IsFiniteSet(1 .. Len(n))
        BY <4>1, FS_Interval
      <4>. HIDE DEF digits
      <4>. QED
        BY <4>1, <4>2, FS_Subset
    <3>5. Min(digits) = 1
      BY <3>3, <3>4, MinFacts
    <3>6. FromBytesBe(n) = SubSeq(n, 1, Len(n))
      BY <3>3, <3>5 DEF FromBytesBe
    <3>7. SubSeq(n, 1, Len(n)) = n
      BY <3>1
    <3>. QED
      BY <3>1, <3>2, <3>6, <3>7
  <2>. QED
    BY <2>1, <2>2
<1>. QED
  BY <1>1, <1>2
=============================================================================
