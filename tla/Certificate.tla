---------------------------- MODULE Certificate ----------------------------
(***************************************************************************)
(* C509Certificate of certificate.rs, field by field, in its two wire      *)
(* forms, and the command line's detection of the form (main.rs).          *)
(*                                                                         *)
(* The bytes of a certificate are a sequence of CBOR items.  The array     *)
(* form has an array header in front, an item of its own here; the         *)
(* sequence form has none.  A decoder takes items from the front of `rest' *)
(* and never looks at what is left behind the last field.                  *)
(*                                                                         *)
(* A session alternates encoding, in either form, and decoding, by any of  *)
(* the three functions that decode, without end.                           *)
(***************************************************************************)
EXTENDS Fields

CONSTANTS Callers,     \* certificates callers build
          Foreign      \* sequences of items received from peers

FIELD_COUNT == 11

\* The calls of decode_fields, in order: the field and the codec.
DecodePlan ==
  << <<"c509_certificate_type", "i32">>,
     <<"certificate_serial_number", "biguint">>,
     <<"issuer_signature_algorithm", "algorithm">>,
     <<"issuer", "optional name">>,
     <<"validity_not_before", "time">>,
     <<"validity_not_after", "optional time">>,
     <<"subject", "name">>,
     <<"subject_public_key_algorithm", "algorithm">>,
     <<"subject_public_key", "bytes">>,
     <<"extensions", "extensions">>,
     <<"issuer_signature_value", "bytes">> >>

\* Mistake: the two byte strings change places.
EncodePlanSwapped == [DecodePlan EXCEPT ![9] = DecodePlan[11], ![11] = DecodePlan[9]]

\* The calls of encode_fields, in order.
EncodePlan ==
  << <<"c509_certificate_type", "i32">>,
     <<"certificate_serial_number", "biguint">>,
     <<"issuer_signature_algorithm", "algorithm">>,
     <<"issuer", "optional name">>,
     <<"validity_not_before", "time">>,
     <<"validity_not_after", "optional time">>,
     <<"subject", "name">>,
     <<"subject_public_key_algorithm", "algorithm">>,
     <<"subject_public_key", "bytes">>,
     <<"extensions", "extensions">>,
     <<"issuer_signature_value", "bytes">> >>

FieldNames == {DecodePlan[k][1] : k \in 1 .. FIELD_COUNT}

\* The TbsCertificate and the signature, in one record.
Value == [c509_certificate_type        : TypeOf("i32"),
          certificate_serial_number    : TypeOf("biguint"),
          issuer_signature_algorithm   : TypeOf("algorithm"),
          issuer                       : TypeOf("optional name"),
          validity_not_before          : TypeOf("time"),
          validity_not_after           : TypeOf("optional time"),
          subject                      : TypeOf("name"),
          subject_public_key_algorithm : TypeOf("algorithm"),
          subject_public_key           : TypeOf("bytes"),
          extensions                   : TypeOf("extensions"),
          issuer_signature_value       : TypeOf("bytes")]
NoValue == [kind |-> "none"]     \* nothing decoded yet

Header(n)        == [type |-> "header", len |-> n]
IndefiniteHeader == [type |-> "header_indef"]
Token  == FieldItem \cup [type : {"header"}, len : Nat] \cup {IndefiniteHeader}
NoWire == <<>>                   \* nothing encoded yet, or an empty input

ASSUME CallersAssumption == Callers \subseteq Value
ASSUME ForeignAssumption == Foreign \subseteq Seq(Token)

Forms    == {"array", "sequence"}
Decoders == {"decode", "decode_sequence", "decode_certificate"}

-----------------------------------------------------------------------------
VARIABLES
  pc,       \* the call in progress, or the one to make next
  value,    \* the certificate held by the caller
  wire,     \* the bytes that were encoded or received last
  items,    \* encoder: the output written so far
  rest,     \* decoder: the input not read yet
  fields,   \* decoder: the fields read so far
  decoder   \* the function the caller decoded with last
vars == <<pc, value, wire, items, rest, fields, decoder>>
reading == <<rest, fields, decoder>>

Init ==
  /\ \/ pc = "encode" /\ value \in Callers /\ wire = NoWire
     \/ pc = "decode" /\ value = NoValue /\ wire \in Foreign
  /\ items = <<>> /\ rest = <<>> /\ fields = <<>> /\ decoder = "none"

-----------------------------------------------------------------------------
(* encode and encode_sequence                                              *)

StartEncode(form) ==
  /\ pc = "encode"
  /\ items' = IF form = "array" THEN <<Header(FIELD_COUNT)>> ELSE <<>>
  /\ pc' = "encoding"
  /\ UNCHANGED <<value, wire, reading>>

HasHeader(tokens) == tokens # <<>> /\ tokens[1].type \in {"header", "header_indef"}
HasElevenHeader(tokens) == tokens # <<>> /\ tokens[1] = Header(FIELD_COUNT)

\* The number of fields written.
WrittenFields == Len(items) - (IF HasHeader(items) THEN 1 ELSE 0)

Encoding    == pc = "encoding" /\ WrittenFields < FIELD_COUNT
NextField   == EncodePlan[WrittenFields + 1][1]
FieldEncoder == EncodePlan[WrittenFields + 1][2]

EncodeField ==
  /\ Encoding /\ CanWrite(FieldEncoder, value[NextField])
  /\ items' = Append(items, ItemOf(FieldEncoder, value[NextField]))
  /\ UNCHANGED <<pc, value, wire, reading>>

\* The `expect' on the result.
Panic ==
  /\ Encoding /\ ~CanWrite(FieldEncoder, value[NextField])
  /\ pc' = "panicked"
  /\ UNCHANGED <<value, wire, items, reading>>

EncodeEnd ==
  /\ pc = "encoding" /\ WrittenFields = FIELD_COUNT
  /\ wire' = items
  /\ pc' = "decode"
  /\ UNCHANGED <<value, items, reading>>

-----------------------------------------------------------------------------
(* decode, decode_sequence and decode_certificate                          *)

\* The functions begin to read the fields, or refuse.
StartFields(with, input) == /\ pc' = "decoding"
                            /\ decoder' = with /\ rest' = input /\ fields' = <<>>
                            /\ UNCHANGED <<value, wire, items>>
Refuse(with) == /\ pc' = "refused"
                /\ decoder' = with
                /\ UNCHANGED <<value, wire, items, rest, fields>>

\* Mistake: an input without an array header is read as a sequence.
DecodeArrayLenient(with) ==
  IF HasElevenHeader(wire) THEN StartFields(with, Tail(wire))
                           ELSE StartFields(with, wire)

\* The header must be definite and count eleven elements.
DecodeArray(with) ==
  IF HasElevenHeader(wire) THEN StartFields(with, Tail(wire)) ELSE Refuse(with)

\* A caller whose input was refused may try another function.
MayDecode == pc \in {"decode", "refused"}

Decode         == MayDecode /\ DecodeArray("decode")
DecodeSequence == MayDecode /\ StartFields("decode_sequence", wire)

\* Mistake: an array is expected whatever comes.
DecodeCertificateArray == MayDecode /\ DecodeArray("decode_certificate")

\* Told apart by the type of the first item.
DecodeCertificate ==
  /\ MayDecode
  /\ IF HasHeader(wire) THEN DecodeArray("decode_certificate")
                        ELSE StartFields("decode_certificate", wire)

ReadFields   == Cardinality(DOMAIN fields)
Decoding     == pc = "decoding" /\ ReadFields < FIELD_COUNT
Field        == DecodePlan[ReadFields + 1][1]
FieldDecoder == DecodePlan[ReadFields + 1][2]
HasNext      == rest # <<>> /\ Accepts(FieldDecoder, rest[1])

DecodeField ==
  /\ Decoding /\ HasNext
  /\ fields' = [f \in DOMAIN fields \cup {Field} |->
                  IF f = Field THEN Read(FieldDecoder, rest[1]) ELSE fields[f]]
  /\ rest' = Tail(rest)
  /\ UNCHANGED <<pc, value, wire, items, decoder>>

RefuseField == Decoding /\ ~HasNext /\ Refuse(decoder)

DecodeEnd ==
  /\ pc = "decoding" /\ ReadFields = FIELD_COUNT
  /\ value' = fields
  /\ pc' = "encode"
  /\ UNCHANGED <<wire, items, reading>>

-----------------------------------------------------------------------------
Next == \/ \E form \in Forms : StartEncode(form)
        \/ EncodeField \/ Panic \/ EncodeEnd
        \/ Decode \/ DecodeSequence \/ DecodeCertificate
        \/ DecodeField \/ RefuseField \/ DecodeEnd

Spec == Init /\ [][Next]_vars

-----------------------------------------------------------------------------
(* Properties                                                              *)

Calls == {"encode", "encoding", "decode", "decoding", "refused", "panicked"}

DataTypeOK ==
  /\ value \in Value \cup {NoValue}
  /\ wire \in Seq(Token) /\ items \in Seq(Token) /\ rest \in Seq(Token)
  /\ DOMAIN fields \subseteq FieldNames
  /\ \A k \in 1 .. FIELD_COUNT : DecodePlan[k][1] \in DOMAIN fields =>
       fields[DecodePlan[k][1]] \in TypeOf(DecodePlan[k][2])
  /\ decoder \in Decoders \cup {"none"}

\* Every variable keeps its type: a certificate that is read has every field,
\* of its type, with times a date can hold.
TypeOK == pc \in Calls /\ DataTypeOK

\* The function expects the other form than the wire has.
WrongForm(with, tokens) ==
  \/ with = "decode" /\ ~HasHeader(tokens)
  \/ with = "decode_sequence" /\ HasHeader(tokens)

\* The forms are never confused: bytes in the one form are never read by the
\* function for the other, and bytes this crate wrote are refused by that
\* function only; the detection of the form always finds the right one.
FormsAreToldApart ==
  [][/\ pc = "decoding" /\ pc' = "encode" => ~WrongForm(decoder, wire)
     /\ value # NoValue /\ pc' = "refused" => WrongForm(decoder', wire)]_vars

WholeSeconds(t) == IF t = None THEN t ELSE [t EXCEPT !.fraction = FALSE]
Whole(cert) == [cert EXCEPT !.validity_not_before = WholeSeconds(@),
                            !.validity_not_after  = WholeSeconds(@)]

\* What arrives of a certificate: its times in whole seconds, its names and
\* extensions as their items say them.
NameArriving(n) == IF n = None THEN n ELSE NameOf(NameWritten[n.content])
Arriving(cert) == [Whole(cert) EXCEPT !.issuer     = NameArriving(@),
                                      !.subject    = NameArriving(@),
                                      !.extensions = ExtensionsOf(ExtWritten[@.content])]

\* Whatever mixture of calls, a certificate changes once at most, and only by
\* losing what no item can say.
LosslessUpToItems ==
  [][value # NoValue => value' \in {value, Arriving(value)}]_vars

Body(tokens) == LET first == IF HasHeader(tokens) THEN 2 ELSE 1
                IN  SubSeq(tokens, first, first + FIELD_COUNT - 1)
Rewritten(body) ==
  [body EXCEPT ![2] = BytesItem(ToBytesBe(FromBytesBe(@.bytes))),
               ![10].content = ExtWritten[@]]

\* What is written again after reading is what was read, in either form, but
\* for leading zeros of the serial number, the flags of extensions that have
\* no sign, and what followed the last field.  The items of names and extension
\* lists are opaque here: what of their bytes may change once is said by
\* WireStable of Names and of ExtensionValues.
WireStable ==
  [][wire # NoWire /\ wire' # wire => wire' # NoWire /\ Body(wire') = Rewritten(Body(wire))]_vars

Encodable(cert) == \A k \in 1 .. FIELD_COUNT :
                      CanWrite(EncodePlan[k][2], cert[EncodePlan[k][1]])

\* A certificate read from a peer can be written again, unless its extension
\* list cannot: in particular both its times are after 1970.
ReadIsEncodable ==
  [][value = NoValue /\ value' # NoValue /\ pc = "decoding"
       => Encodable(value') \/ value'.extensions.content \in Unencodable]_vars

-----------------------------------------------------------------------------
(* What the source says and the code does not do.                          *)

\* "Vec<u8> writer is infallible", the expects of encode and encode_sequence.
EncodeNeverFails == pc # "panicked"
=============================================================================
