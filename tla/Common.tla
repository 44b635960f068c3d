------------------------------- MODULE Common -------------------------------
(***************************************************************************)
(* The shared building blocks of common.rs: each is a set of values, an    *)
(* encoder Item... that returns the item written, and a decoder that says  *)
(* which items it accepts (Reads...) and what it returns then (...Read).   *)
(***************************************************************************)
EXTENDS Cbor, FiniteSetsExt

CONSTANTS U16Max,       \* the largest u16
          I32Max,       \* the largest i32; u32 ends at 2 * I32Max + 1
          Oids          \* the byte strings that are a well-formed OID

ASSUME IntAssumption  == U16Max \in Nat \ {0} /\ I32Max \in Nat /\ U16Max < I32Max
ASSUME OidsAssumption == Oids \subseteq Seq(Octet)

I32 == -(I32Max + 1) .. I32Max
U32 == 0 .. 2 * I32Max + 1

ReadsI32(item)  == IsInt(item) /\ item.int \in I32
ReadsU32(item)  == IsInt(item) /\ item.int \in U32
ReadsText(item) == item.type = "text"
ReadsOid(item)  == IsBytes(item) /\ item.bytes \in Oids

\* Option, for the values that may be absent.
None    == [kind |-> "none"]
Some(v) == [kind |-> "some", some |-> v]
Option(S) == {None} \cup [kind : {"some"}, some : S]

\* The item a codec of another module writes.
OpaqueItem(codec, content) == [type |-> "opaque", codec |-> codec, content |-> content]
IsOpaque(item, codec) == item.type = "opaque" /\ item.codec = codec

\* decode_opt_uint, encode_opt_uint
ReadsOptUint(item) == IsNull(item) \/ ReadsU32(item)
OptUintRead(item)  == IF IsNull(item) THEN None ELSE Some(item.int)
OptUintItem(v)     == IF v = None THEN NullItem ELSE IntItem(v.some)

-----------------------------------------------------------------------------
(* BigUint: its big-endian digits.  Zero has none, and is written as one   *)
(* zero octet all the same.                                                *)

BigUint == {b \in Seq(Octet) : b = <<>> \/ b[1] # 0}

FromBytesBe(b) ==
  LET digits == {i \in DOMAIN b : b[i] # 0}
  IN  IF digits = {} THEN <<>> ELSE SubSeq(b, Min(digits), Len(b))

ToBytesBe(n) == IF n = <<>> THEN <<0>> ELSE n

-----------------------------------------------------------------------------
(* IntOrOid                                                                *)

IntId(n) == [form |-> "int", int |-> n]
OidId(b) == [form |-> "oid", oid |-> b]
IntOrOid == [form : {"int"}, int : I32] \cup [form : {"oid"}, oid : Oids]

IntOrOidItem(id)    == IF id.form = "int" THEN IntItem(id.int) ELSE BytesItem(id.oid)
ReadsIntOrOid(item) == ReadsI32(item) \/ ReadsOid(item)
IntOrOidRead(item)  == IF IsInt(item) THEN IntId(item.int) ELSE OidId(item.bytes)

-----------------------------------------------------------------------------
(* MAC addresses and SpecialText                                           *)

MacAddressTag == 48
MacLengths == {6, 8}
MacAddr == {b \in Seq(Octet) : Len(b) \in MacLengths}

Text(t)  == [kind |-> "text", text |-> t]
Bytes(b) == [kind |-> "bytes", bytes |-> b]
Mac(b)   == [kind |-> "mac", bytes |-> b]

SpecialText == [kind : {"text"}, text : STRING]
                 \cup [kind : {"bytes"}, bytes : Seq(Octet)]
                 \cup [kind : {"mac"}, bytes : MacAddr]

SpecialTextItem(t) == CASE t.kind = "text"  -> TextItem(t.text)
                        [] t.kind = "bytes" -> BytesItem(t.bytes)
                        [] t.kind = "mac"   -> TagItem(MacAddressTag, t.bytes)

\* Mistake: the length of a MAC address is not checked.
ReadsSpecialTextAnyMac(item) ==
  item.type \in {"text", "bytes"} \/ (item.type = "tag" /\ item.tag = MacAddressTag)

ReadsSpecialText(item) ==
  \/ item.type \in {"text", "bytes"}
  \/ /\ item.type = "tag" /\ item.tag = MacAddressTag
     /\ Len(item.bytes) \in MacLengths

SpecialTextRead(item) == CASE item.type = "text"  -> Text(item.text)
                           [] item.type = "bytes" -> Bytes(item.bytes)
                           [] item.type = "tag"   -> Mac(item.bytes)

-----------------------------------------------------------------------------
(* RdnAttr: the type of an attribute.  The sign of a registered type tells *)
(* PrintableString from UTF8String, and its magnitude must fit u16.        *)

Registered(id, printable, value) ==
  [form |-> "registered", id |-> id, printable |-> printable, value |-> value]
OfOid(oid, value) == [form |-> "oid", oid |-> oid, value |-> value]

\* RdnAttr<S, B>
RdnAttr(S, B) == [form : {"registered"}, id : 0 .. U16Max, printable : BOOLEAN, value : S]
                   \cup [form : {"oid"}, oid : Oids, value : B]

TypeItem(attr) ==
  CASE attr.form = "oid"        -> BytesItem(attr.oid)
    [] attr.form = "registered" -> IntItem(IF attr.printable THEN -attr.id ELSE attr.id)

ReadsRegisteredType(item) == IsInt(item) /\ item.int \in -U16Max .. U16Max

Magnitude(n) == IF n < 0 THEN -n ELSE n

RegisteredRead(item, value) == Registered(Magnitude(item.int), item.int < 0, value)

\* Zero has no sign: the attribute with a type 0 as UTF8String.
UnsignedAttr(attr) ==
  IF attr.form = "registered" /\ attr.id = 0
    THEN [attr EXCEPT !.printable = FALSE] ELSE attr
=============================================================================
