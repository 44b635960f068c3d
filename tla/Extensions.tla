----------------------------- MODULE Extensions -----------------------------
(***************************************************************************)
(* The extension list of a certificate: Extensions, Extension and the      *)
(* dispatch of ExtensionValue in extensions/mod.rs, one action per step of *)
(* their loops.                                                            *)
(*                                                                         *)
(* A registered extension is written as two items, its id and its value.   *)
(* Its criticality is the sign of the id, and the sign of the bits when a  *)
(* single KeyUsage is written as one bare integer.  An extension known by  *)
(* OID marks criticality by an array around its bytes instead.             *)
(*                                                                         *)
(* The values that modules of their own encode are opaque here: a          *)
(* TypedItem names the codec that wrote it.  A session alternates encoding *)
(* and decoding one list without end, as in AsIdentifiers.                 *)
(***************************************************************************)
EXTENDS ExtensionList

CONSTANTS Callers,    \* extension lists callers build
          Foreign     \* CBOR items received from peers

-----------------------------------------------------------------------------
(* ExtensionValue                                                          *)

\* Variants that share the functions which encode and decode them.
CodecOf(kind) == CASE kind = "IssuerAltName"     -> "SubjectAltName"
                   [] kind = "FreshestCrl"       -> "CrlDistributionPoints"
                   [] kind = "SubjectInfoAccess" -> "AuthorityInfoAccess"
                   [] kind = "IpAddrBlocksV2"    -> "IpAddrBlocks"
                   [] kind = "AsIdentifiersV2"   -> "AsIdentifiers"
                   [] OTHER                      -> kind

\* ExtensionValue::encode
ItemOf(v) == CASE v.kind \in UintKinds             -> IntItem(v.uint)
               [] v.kind = "SubjectKeyIdentifier" -> BytesItem(v.bytes)
               [] v.kind = "OcspNoCheck"          -> NullItem
               [] v.kind = "Raw"                  -> v.cbor
               [] OTHER -> TypedItem(CodecOf(v.kind), v.content)

\* ExtensionValue::decode: whether it accepts an item under an id, and what
\* it returns then.
ReadsValue(id, item) ==
  LET kind == KindOf(id)
  IN  CASE kind \in UintKinds             -> IsInt(item) /\ item.int \in U32
        [] kind = "SubjectKeyIdentifier" -> IsBytes(item)
        [] kind = "OcspNoCheck"          -> IsNull(item)
        [] kind = "Raw"                  -> IsComplete(item)
        [] OTHER -> item.type = "typed" /\ item.codec = CodecOf(kind)

ValueRead(id, item) ==
  LET kind == KindOf(id)
  IN  CASE kind \in UintKinds             -> [kind |-> kind, uint |-> item.int]
        [] kind = "SubjectKeyIdentifier" -> [kind |-> kind, bytes |-> item.bytes]
        [] kind = "OcspNoCheck"          -> [kind |-> kind]
        [] kind = "Raw"                  -> [kind |-> kind, cbor |-> item]
        [] OTHER                         -> [kind |-> kind, content |-> item.content]

-----------------------------------------------------------------------------
(* Extension and Extensions                                                *)

List(s) == [kind |-> "list", list |-> s]
Value   == [kind : {"list"}, list : Seq(Extension)]
NoValue == [kind |-> "none"]     \* nothing decoded yet
NoWire  == [type |-> "none"]     \* nothing encoded yet

WireItem == Nested1 \cup ArrayOf(ValueItem)

ASSUME CallersAssumption == Callers \subseteq Value
ASSUME ForeignAssumption == Foreign \subseteq WireItem

\* Mistake: zero counts as critical.
MagnitudeOfOff(raw) == IF raw > 0 THEN [n |-> raw, critical |-> FALSE]
                                  ELSE [n |-> -raw, critical |-> TRUE]

\* decode_critical_magnitude
MagnitudeOf(raw) == IF raw < 0 THEN [n |-> -raw, critical |-> TRUE]
                               ELSE [n |-> raw, critical |-> FALSE]

\* Mistake: the cast does not wrap.
AsI32Wide(n) == n

\* The cast `id as i32' of a u32 magnitude.
AsI32(n) == IF n > I32Max THEN n - 2 * (I32Max + 1) ELSE n

-----------------------------------------------------------------------------
VARIABLES
  pc,       \* the call in progress, or the one to make next
  value,    \* the list held by the caller
  wire,     \* the item that was encoded or received last
  items,    \* encoder: elements written so far
  exts      \* decoder: `out'
vars == <<pc, value, wire, items, exts>>

Init ==
  /\ \/ pc = "encode" /\ value \in Callers /\ wire = NoWire
     \/ pc = "decode" /\ value = NoValue /\ wire \in Foreign
  /\ items = <<>> /\ exts = <<>>

-----------------------------------------------------------------------------
(* Extensions::encode.  An error ends in the `expect' of                   *)
(* C509Certificate::encode.                                                *)

Panic == pc' = "panicked" /\ UNCHANGED <<value, wire, items, exts>>

Written(item) == /\ wire' = item
                 /\ pc' = "decode"
                 /\ UNCHANGED <<value, items, exts>>

\* Mistake: the u32 is cast to i32 without a check.
EncodeCompactCast ==
  /\ pc = "encode" /\ IsSingleKeyUsage(value.list)
  /\ LET ext == value.list[1]
     IN  Written(IntItem(Signed(AsI32(ext.value.uint), ext.critical)))

EncodeCompact ==
  /\ pc = "encode" /\ IsSingleKeyUsage(value.list)
  /\ LET ext == value.list[1]
     IN  IF ext.value.uint \in I32
           THEN Written(IntItem(Signed(ext.value.uint, ext.critical)))
           ELSE Panic

EncodeArray ==
  /\ pc = "encode" /\ ~IsSingleKeyUsage(value.list)
  /\ items' = <<>>
  /\ pc' = "encoding"
  /\ UNCHANGED <<value, wire, exts>>

Ext == value.list[Len(items) \div 2 + 1]      \* the extension written next

Encoding(form) == /\ pc = "encoding"
                  /\ Len(items) < 2 * Len(value.list)
                  /\ Ext.id.form = form

WriteTwo(idItem, valueItem) == /\ items' = items \o <<idItem, valueItem>>
                               /\ UNCHANGED <<pc, value, wire, exts>>

\* Mistake: a value that does not fit is cast instead of refused.
EncodeExtensionCast ==
  /\ Encoding("int")
  /\ IF HasSigned(Ext.id.int, Ext.critical)
       THEN WriteTwo(IntItem(Signed(Ext.id.int, Ext.critical)), ItemOf(Ext.value))
       ELSE Panic

EncodeExtension ==
  /\ Encoding("int")
  /\ IF HasSigned(Ext.id.int, Ext.critical) /\ ValueEncodes(Ext.value)
       THEN WriteTwo(IntItem(Signed(Ext.id.int, Ext.critical)), ItemOf(Ext.value))
       ELSE Panic

\* Mistake: the array that marks criticality is left out.
EncodeOidExtensionBare ==
  /\ Encoding("oid")
  /\ IF Ext.value.kind = "Raw"
       THEN WriteTwo(BytesItem(Ext.id.oid), BytesItem(Ext.value.der))
       ELSE Panic

EncodeOidExtension ==
  /\ Encoding("oid")
  /\ IF Ext.value.kind = "Raw"
       THEN LET der == BytesItem(Ext.value.der)
            IN  WriteTwo(BytesItem(Ext.id.oid),
                         IF Ext.critical THEN ArrayItem(<<der>>) ELSE der)
       ELSE Panic

EncodeEnd ==
  /\ pc = "encoding" /\ Len(items) = 2 * Len(value.list)
  /\ Written(ArrayItem(items))

-----------------------------------------------------------------------------
(* Extensions::decode                                                      *)

Refuse == pc' = "refused" /\ UNCHANGED <<value, wire, items, exts>>

IsI32(item) == IsInt(item) /\ item.int \in I32

Held(list) == /\ value' = List(list)
              /\ pc' = "encode"
              /\ UNCHANGED <<wire, items, exts>>

DecodeCompact ==
  /\ pc = "decode" /\ IsI32(wire)
  /\ LET m == MagnitudeOf(wire.int)
     IN  Held(<<[id |-> IntId(2), critical |-> m.critical,
                 value |-> [kind |-> "KeyUsage", uint |-> m.n]]>>)

DecodeArray ==
  /\ pc = "decode" /\ wire.type = "array" /\ wire.len % 2 = 0
  /\ exts' = <<>>
  /\ pc' = "decoding"
  /\ UNCHANGED <<value, wire, items>>

\* An indefinite array, an odd one, or no i32.
DecodeRefuse ==
  /\ pc = "decode" /\ ~IsI32(wire)
  /\ wire.type = "array" => wire.len % 2 = 1
  /\ Refuse

Decoding == pc = "decoding" /\ Len(exts) < wire.len \div 2

\* The i-th of the two items of the extension being read, and whether the
\* input reaches it.
Part(i)    == wire.items[2 * Len(exts) + i]
HasPart(i) == HasElement(wire, 2 * Len(exts) + i)

Push(ext) == /\ exts' = Append(exts, ext)
             /\ UNCHANGED <<pc, value, wire, items>>

ReadsRegistered == /\ HasPart(1) /\ IsI32(Part(1)) /\ HasPart(2)
                   /\ ReadsValue(MagnitudeOf(Part(1).int).n, Part(2))

DecodeExtension ==
  /\ Decoding /\ ReadsRegistered
  /\ LET m == MagnitudeOf(Part(1).int)
     IN  Push([id |-> IntId(AsI32(m.n)), critical |-> m.critical,
               value |-> ValueRead(m.n, Part(2))])

IsMarkedCritical(item) == /\ item.type = "array" /\ item.len = 1
                          /\ HasElement(item, 1) /\ IsBytes(item.items[1])

ReadsByOid == /\ HasPart(1) /\ IsBytes(Part(1)) /\ Part(1).bytes \in Oids
              /\ HasPart(2) /\ (IsBytes(Part(2)) \/ IsMarkedCritical(Part(2)))

DecodeOidExtension ==
  /\ Decoding /\ ReadsByOid
  /\ LET critical == IsMarkedCritical(Part(2))
         der      == IF critical THEN Part(2).items[1] ELSE Part(2)
     IN  Push([id |-> OidId(Part(1).bytes), critical |-> critical,
               value |-> [kind |-> "Raw", der |-> der.bytes]])

RefuseExtension == Decoding /\ ~ReadsRegistered /\ ~ReadsByOid /\ Refuse

DecodeEnd ==
  /\ pc = "decoding" /\ Len(exts) = wire.len \div 2
  /\ Held(exts)

-----------------------------------------------------------------------------
Encode == \/ EncodeCompact \/ EncodeArray
          \/ EncodeExtension \/ EncodeOidExtension \/ EncodeEnd
Decode == \/ DecodeCompact \/ DecodeArray \/ DecodeRefuse
          \/ DecodeExtension \/ DecodeOidExtension \/ RefuseExtension
          \/ DecodeEnd
Next == Encode \/ Decode

Spec == Init /\ [][Next]_vars

-----------------------------------------------------------------------------
(* Properties                                                              *)

\* The value is of the variant its id stands for.
Consistent(ext) ==
  IF ext.id.form = "int"
    THEN ext.id.int >= 0 /\ ext.value.kind = KindOf(ext.id.int)
    ELSE "der" \in DOMAIN ext.value

\* The lists the wire format can carry: criticality needs a number that has
\* a sign, a single KeyUsage one that has a negation, and every value must be
\* one that its own encode accepts.
Representable(list) ==
  /\ \A i \in DOMAIN list :
       /\ Consistent(list[i])
       /\ ValueEncodes(list[i].value)
       /\ list[i].id = IntId(0) => ~list[i].critical
  /\ IsSingleKeyUsage(list) =>
       /\ list[1].value.uint \in I32
       /\ list[1].value.uint = 0 => ~list[1].critical

\* Every variable keeps its type: in particular the id of an extension that
\* is read fits i32, also after the cast from a u32 magnitude.
TypeOK ==
  /\ pc \in {"encode", "encoding", "decode", "decoding", "refused", "panicked"}
  /\ value \in Value \cup {NoValue}
  /\ wire \in WireItem \cup {NoWire}
  /\ items \in Seq(ValueItem)
  /\ exts \in Seq(Extension)

\* A representable list survives any number of round trips: it never
\* changes, is never refused, and encoding it never fails.
RepresentableIsLossless ==
  [][value # NoValue /\ Representable(value.list)
       => value' = value /\ pc' \notin {"refused", "panicked"}]_vars

\* A consistent list never changes in any other way than that: above all no
\* other extension ever gains or loses criticality.
CriticalityOnlyLostAtZero ==
  [][value # NoValue /\ (\A i \in DOMAIN value.list : Consistent(value.list[i]))
       => value' \in {value, List(UnsignedZero(value.list))}]_vars

\* Encoding panics for the lists that Encodes excludes, those with a value
\* that its own encode refuses among them, and writes all others, whatever
\* came before the extension at fault: CommandLine rests on it.
EncodesAsPredicted ==
  [][/\ pc' = "panicked" => ~Encodes(value.list)
     /\ pc \in {"encode", "encoding"} /\ pc' = "decode" => Encodes(value.list)]_vars

\* The lists a peer can send that are accepted and still not representable:
\* the magnitude 2^31, and a single KeyUsage in the long form whose number has
\* no sign or does not fit the short form it would be written in.
NumberOf(ext) == IF ext.id.form = "int" THEN ext.id.int ELSE 0
KnownMisfit(list) ==
  \/ \E i \in DOMAIN list : NumberOf(list[i]) = I32Min /\ list[i].critical
  \/ /\ IsSingleKeyUsage(list)
     /\ \/ list[1].value.uint \notin I32
        \/ list[1].value.uint = 0 /\ list[1].critical /\ wire.type = "array"

\* Any other list read from a peer is representable: written again, it comes
\* back as it was read, with its criticality.
ReadIsRepresentable ==
  [][value = NoValue /\ value' # NoValue
       => Representable(value'.list) \/ KnownMisfit(value'.list)]_vars

-----------------------------------------------------------------------------
(* What the source says and the code does not do.                          *)

\* "Vec<u8> writer is infallible", the expect of C509Certificate::encode.
EncodeNeverFails == pc # "panicked"
=============================================================================
