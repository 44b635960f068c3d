----------------------------- MODULE JsonSchema -----------------------------
(***************************************************************************)
(* from_json of cert_json.rs: which documents it takes, and the parts of   *)
(* the certificate it makes of them.  A document, an attribute and an      *)
(* extension are records of their members, Missing ones included; a string *)
(* is hex, a date or text.  What serde reads and what the conversion then  *)
(* refuses is refused alike.                                               *)
(***************************************************************************)
EXTENDS Converted

Bool(b)          == [json |-> "bool", bool |-> b]
Numbers(list)    == [json |-> "numbers", numbers |-> list]
Texts(list)      == [json |-> "texts", texts |-> list]
Attributes(list) == [json |-> "attributes", attributes |-> list]

\* #[serde(default)]: on a flag null is refused, an Option takes it.
ReadsFlag(j) == j.json \in {"bool", "missing"}
FlagReadUnlessFalse(j) == ~(j.json = "bool" /\ ~j.bool)    \* Mistake: absent is true.
FlagRead(j)  == j.json = "bool" /\ j.bool
IsUnset(j)   == j \in {Missing, Null}

\* What a member may hold, whether the schema takes it or not.
Scalar(times) ==
  {Missing, Null} \cup HexString \cup [json : {"bool"}, bool : BOOLEAN]
    \cup [json : {"number"}, number : Int] \cup [json : {"text"}, text : STRING]
    \cup [json : {"date"}, secs : times, fraction : BOOLEAN]
JsonRdnAttribute(times) ==
  [id : Scalar(times), printable_string : Scalar(times), value : Scalar(times)]
JsonMember(times) ==
  Scalar(times) \cup [json : {"numbers"}, numbers : Seq(Int)] \cup [json : {"texts"}, texts : Seq(STRING)]
    \cup [json : {"attributes"}, attributes : Seq(JsonRdnAttribute(times))]
JsonExtension(times) ==
  [name : STRING, critical : Scalar(times), ca : Scalar(times), path_len : Scalar(times),
   value : Scalar(times), dns_names : JsonMember(times), key_identifier : Scalar(times),
   oids : JsonMember(times)]
JsonCertificate(times) ==
  [certificate_type : Scalar(times), serial_number : Scalar(times),
   issuer_signature_algorithm : Scalar(times), issuer : JsonMember(times),
   validity_not_before : Scalar(times), validity_not_after : Scalar(times),
   subject : JsonMember(times), subject_public_key_algorithm : Scalar(times),
   subject_public_key : Scalar(times),
   extensions : {Missing, Null} \cup [json : {"list"}, list : Seq(JsonExtension(times))],
   issuer_signature_value : Scalar(times), unknown : BOOLEAN]

IsNumber(j, numbers) == j.json = "number" /\ j.number \in numbers

-----------------------------------------------------------------------------
(* JsonName, JsonRdnAttribute                                              *)

COMMON_NAME_ID == 1

\* Mistake: the id has the width of the others.
ReadsJsonAttributeWide(a) ==
  IsNumber(a.id, 0 .. 2 * I32Max + 1) /\ ReadsFlag(a.printable_string) /\ a.value.json = "text"

ReadsJsonAttribute(a) ==
  IsNumber(a.id, 0 .. U16Max) /\ ReadsFlag(a.printable_string) /\ a.value.json = "text"

ReadsJsonName(j) ==
  \/ j.json = "text"
  \/ j.json = "attributes" /\ \A i \in DOMAIN j.attributes : ReadsJsonAttribute(j.attributes[i])

IntoName(j) ==
  IF j.json = "text"
    THEN <<Registered(COMMON_NAME_ID, FALSE, SpecialTextOf(j.text))>>
    ELSE [i \in DOMAIN j.attributes |->
            Registered(j.attributes[i].id.number, FlagRead(j.attributes[i].printable_string),
                       SpecialTextOf(j.attributes[i].value.text))]

-----------------------------------------------------------------------------
(* JsonExtension                                                           *)

ReadsJsonExtension(e) ==
  /\ ReadsFlag(e.critical)
  /\ CASE e.name = "basic_constraints" ->
            ReadsFlag(e.ca) /\ (IsUnset(e.path_len) \/ IsNumber(e.path_len, U32))
       [] e.name = "key_usage"         -> IsNumber(e.value, U32)
       [] e.name = "subject_alt_name"  -> e.dns_names.json = "texts"
       [] e.name = "authority_key_identifier" -> ReadsTolerantHex(e.key_identifier)
       [] e.name = "ext_key_usage"     ->
            e.oids.json = "numbers" /\ \A i \in DOMAIN e.oids.numbers : e.oids.numbers[i] \in I32
       [] OTHER -> FALSE

IntoExtension(e) ==
  LET critical == FlagRead(e.critical)
  IN  CASE e.name = "basic_constraints" ->
             BasicConstraintsExt(critical, FlagRead(e.ca),
               IF IsUnset(e.path_len) THEN None ELSE Some(e.path_len.number))
        [] e.name = "key_usage"        -> KeyUsageExt(critical, e.value.number)
        [] e.name = "subject_alt_name" -> SubjectAltNameExt(critical, e.dns_names.texts)
        [] e.name = "authority_key_identifier" ->
             AuthorityKeyIdentifierExt(critical, TolerantHexRead(e.key_identifier))
        [] e.name = "ext_key_usage"    -> ExtKeyUsageExt(critical, e.oids.numbers)

-----------------------------------------------------------------------------
(* JsonCertificate                                                         *)

Listed(doc) == IF doc.extensions = Missing THEN <<>> ELSE doc.extensions.list

\* Members of other names (`unknown') are refused here and nowhere else.
ReadsDocument(doc) ==
  /\ ~doc.unknown
  /\ IsNumber(doc.certificate_type, I32)
  /\ ReadsTolerantHex(doc.serial_number)
  /\ IsNumber(doc.issuer_signature_algorithm, I32)
  /\ IsUnset(doc.issuer) \/ ReadsJsonName(doc.issuer)
  /\ ReadsDate(doc.validity_not_before)
  /\ IsUnset(doc.validity_not_after) \/ ReadsDate(doc.validity_not_after)
  /\ ReadsJsonName(doc.subject)
  /\ IsNumber(doc.subject_public_key_algorithm, I32)
  /\ ReadsTolerantHex(doc.subject_public_key)
  /\ ReadsTolerantHex(doc.issuer_signature_value)
  /\ doc.extensions.json \in {"missing", "list"}
  /\ \A i \in DOMAIN Listed(doc) : ReadsJsonExtension(Listed(doc)[i])
=============================================================================
