------------------------------- MODULE Names -------------------------------
(***************************************************************************)
(* Names: Name and Name::decode_optional / encode_optional of name.rs,     *)
(* with the attributes (RdnAttr) and their values (SpecialText) of         *)
(* common.rs, one action per step of the loops.                            *)
(*                                                                         *)
(* An attribute is written as two items, its type and its value.  The sign *)
(* of a registered type tells PrintableString from UTF8String.  A single   *)
(* common name is written as its bare value.  The issuer may be absent     *)
(* (Optional), which is written as null; the subject may not.              *)
(*                                                                         *)
(* A session alternates encoding and decoding one name without end, as in  *)
(* AsIdentifiers.                                                          *)
(***************************************************************************)
EXTENDS Common

CONSTANTS Optional,    \* TRUE for the issuer, FALSE for the subject
          Callers,     \* names callers build
          Foreign      \* CBOR items received from peers

ASSUME OptionalAssumption == Optional \in BOOLEAN

-----------------------------------------------------------------------------
(* RdnAttribute and Name                                                   *)

RdnAttribute == RdnAttr(SpecialText, Seq(Octet))

Absent   == [kind |-> "absent"]
Name(s)  == [kind |-> "name", attrs |-> s]
Value    == [kind : {"name"}, attrs : Seq(RdnAttribute)]
              \cup (IF Optional THEN {Absent} ELSE {})
NoValue  == [kind |-> "none"]     \* nothing decoded yet
NoWire   == [type |-> "none"]     \* nothing encoded yet

ASSUME CallersAssumption == Callers \subseteq Value
ASSUME ForeignAssumption == Foreign \subseteq Nested2

CommonNameId == 1

-----------------------------------------------------------------------------
VARIABLES
  pc,       \* the call in progress, or the one to make next
  value,    \* the name held by the caller
  wire,     \* the item that was encoded or received last
  items,    \* encoder: elements written so far
  attrs     \* decoder: `attrs'
vars == <<pc, value, wire, items, attrs>>

Init ==
  /\ \/ pc = "encode" /\ value \in Callers /\ wire = NoWire
     \/ pc = "decode" /\ value = NoValue /\ wire \in Foreign
  /\ items = <<>> /\ attrs = <<>>

-----------------------------------------------------------------------------
(* Name::encode_optional and Name::encode                                  *)

Written(item) == /\ wire' = item
                 /\ pc' = "decode"
                 /\ UNCHANGED <<value, items, attrs>>

EncodeAbsent == pc = "encode" /\ value.kind = "absent" /\ Written(NullItem)

\* Mistake: only a text takes the compact form.
IsCommonNameText(list) == /\ Len(list) = 1
                          /\ list[1].form = "registered"
                          /\ list[1].id = CommonNameId
                          /\ ~list[1].printable
                          /\ list[1].value.kind = "text"

\* Mistake: a common name that is a PrintableString takes the compact form.
IsCommonNameAnyType(list) == /\ Len(list) = 1
                             /\ list[1].form = "registered"
                             /\ list[1].id = CommonNameId

IsCommonName(list) == /\ Len(list) = 1
                      /\ list[1].form = "registered"
                      /\ list[1].id = CommonNameId
                      /\ ~list[1].printable

EncodeCompact ==
  /\ pc = "encode" /\ value.kind = "name" /\ IsCommonName(value.attrs)
  /\ Written(SpecialTextItem(value.attrs[1].value))

EncodeArray ==
  /\ pc = "encode" /\ value.kind = "name" /\ ~IsCommonName(value.attrs)
  /\ items' = <<>>
  /\ pc' = "encoding"
  /\ UNCHANGED <<value, wire, attrs>>

Attr == value.attrs[Len(items) \div 2 + 1]    \* the attribute written next

EncodeAttribute(form, valueItem) ==
  /\ pc = "encoding"
  /\ Len(items) < 2 * Len(value.attrs)
  /\ Attr.form = form
  /\ items' = items \o <<TypeItem(Attr), valueItem>>
  /\ UNCHANGED <<pc, value, wire, attrs>>

EncodeRegistered == EncodeAttribute("registered", SpecialTextItem(Attr.value))

EncodeOid == EncodeAttribute("oid", BytesItem(Attr.value))

EncodeEnd ==
  /\ pc = "encoding" /\ Len(items) = 2 * Len(value.attrs)
  /\ Written(ArrayItem(items))

-----------------------------------------------------------------------------
(* Name::decode_optional and Name::decode                                  *)

Refuse == pc' = "refused" /\ UNCHANGED <<value, wire, items, attrs>>

Held(v) == /\ value' = v
           /\ pc' = "encode"
           /\ UNCHANGED <<wire, items, attrs>>

IsAbsent(item) == Optional /\ IsNull(item)

\* Mistake: null is read as a name without attributes.
DecodeAbsentEmpty == pc = "decode" /\ IsAbsent(wire) /\ Held(Name(<<>>))

DecodeAbsent == pc = "decode" /\ IsAbsent(wire) /\ Held(Absent)

DecodeCompact ==
  /\ pc = "decode" /\ ReadsSpecialText(wire)
  /\ Held(Name(<<Registered(CommonNameId, FALSE, SpecialTextRead(wire))>>))

IsAttributeList(item) == item.type = "array" /\ item.len % 2 = 0

DecodeArray ==
  /\ pc = "decode" /\ IsAttributeList(wire)
  /\ attrs' = <<>>
  /\ pc' = "decoding"
  /\ UNCHANGED <<value, wire, items>>

DecodeRefuse ==
  /\ pc = "decode"
  /\ ~IsAbsent(wire) /\ ~ReadsSpecialText(wire) /\ ~IsAttributeList(wire)
  /\ Refuse

Decoding == pc = "decoding" /\ Len(attrs) < wire.len \div 2

\* The i-th of the two items of the attribute being read, and whether the
\* input reaches it.
Part(i)    == wire.items[2 * Len(attrs) + i]
HasPart(i) == HasElement(wire, 2 * Len(attrs) + i)

Push(attr) == /\ attrs' = Append(attrs, attr)
              /\ UNCHANGED <<pc, value, wire, items>>

ReadsRegistered == /\ HasPart(1) /\ ReadsRegisteredType(Part(1))
                   /\ HasPart(2) /\ ReadsSpecialText(Part(2))

DecodeRegistered == /\ Decoding /\ ReadsRegistered
                    /\ Push(RegisteredRead(Part(1), SpecialTextRead(Part(2))))

ReadsOfOid == HasPart(1) /\ ReadsOid(Part(1)) /\ HasPart(2) /\ IsBytes(Part(2))

DecodeOid == Decoding /\ ReadsOfOid /\ Push(OfOid(Part(1).bytes, Part(2).bytes))

RefuseAttribute == Decoding /\ ~ReadsRegistered /\ ~ReadsOfOid /\ Refuse

DecodeEnd ==
  /\ pc = "decoding" /\ Len(attrs) = wire.len \div 2
  /\ Held(Name(attrs))

-----------------------------------------------------------------------------
Encode == \/ EncodeAbsent \/ EncodeCompact \/ EncodeArray
          \/ EncodeRegistered \/ EncodeOid \/ EncodeEnd
Decode == \/ DecodeAbsent \/ DecodeCompact \/ DecodeArray \/ DecodeRefuse
          \/ DecodeRegistered \/ DecodeOid \/ RefuseAttribute \/ DecodeEnd
Next == Encode \/ Decode

Spec == Init /\ [][Next]_vars

-----------------------------------------------------------------------------
(* Properties                                                              *)

\* The name with its zero types as UTF8String.
Unsigned(v) ==
  IF v.kind = "name" THEN Name([i \in DOMAIN v.attrs |-> UnsignedAttr(v.attrs[i])])
                     ELSE v

\* Every variable keeps its type: in particular what is read of a peer is a
\* u16 type, a well-formed OID and a MAC address of 6 or 8 octets.
TypeOK ==
  /\ pc \in {"encode", "encoding", "decode", "decoding", "refused"}
  /\ value \in Value \cup {NoValue}
  /\ wire \in Nested2 \cup {NoWire}
  /\ items \in Seq(Leaf)
  /\ attrs \in Seq(RdnAttribute)

\* The only loss of any number of round trips is the string type of an
\* attribute type 0 on the first of them: a value changes only into its
\* Unsigned form, and that never changes.
LosslessUpToSign ==
  [][value # NoValue => value' \in {value, Unsigned(value)}]_vars

\* The long form of a single common name, which the encoder does not write.
IsLongCommonName(item) ==
  item.type = "array" /\ item.len = 2 /\ item.items[1] = IntItem(CommonNameId)

\* Any other accepted item is written again as it was, and the long form is
\* replaced once: the bytes under a signature do not change after that.
WireStable ==
  [][wire # NoWire => wire' = wire \/ (IsLongCommonName(wire) /\ ReadsSpecialText(wire'))]_vars

\* The promise of a codec, for names up to the string type of type 0: no
\* name is refused when it comes back, absent and empty stay different.
Promise == INSTANCE RoundTrip
             WITH value   <- Unsigned(value),
                  Value   <- {v \in Value : Unsigned(v) = v},
                  status  <- CASE pc = "refused"   -> "refused"
                               [] value = NoValue -> "reading"
                               [] OTHER           -> "held"
KeepsPromise == Promise!Spec
=============================================================================
