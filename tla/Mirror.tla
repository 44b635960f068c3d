------------------------------- MODULE Mirror -------------------------------
(***************************************************************************)
(* The serde mirror of a certificate: serde_json::to_string and from_str   *)
(* with the helpers of serde_util.rs, between the calls of Certificate.    *)
(* The document is flat here: the members of `tbs' stand beside it.        *)
(*                                                                         *)
(* A session mixes all calls on one certificate.  It starts with a         *)
(* certificate, with bytes, or with a document somebody else wrote.        *)
(***************************************************************************)
EXTENDS Certificate, TextForms

CONSTANT Documents     \* documents others write: Missing members allowed

VARIABLE doc           \* the document that was written or received last
mirrorVars == <<vars, doc>>

NoDoc == [f \in {} |-> Missing]

-----------------------------------------------------------------------------
(* AlgorithmIdentifier, derived: an object with one member for the variant *)

IntMember(n) == [json |-> "Int", int |-> n]
OidMember(oid, parameters) == [json |-> "Oid", oid |-> oid, parameters |-> parameters]

AlgorithmText(a) ==
  CASE a.kind = "int" -> IntMember(a.int)
    [] a.kind = "oid" -> OidMember(a.oid, Null)
    [] a.kind = "oid_parameters" -> OidMember(a.oid, Hex(HexEncoded(a.parameters)))

\* oid_str::deserialize
ParsesOid(oid) == oid \in Oids

\* Mistake: the OID is taken as it comes.
ParsesAlgorithmAnyOid(j) ==
  \/ j.json = "Int" /\ j.int \in I32
  \/ j.json = "Oid" /\ (j.parameters = Null \/ ReadsHex(j.parameters))

ParsesAlgorithm(j) ==
  \/ j.json = "Int" /\ j.int \in I32
  \/ j.json = "Oid" /\ ParsesOid(j.oid) /\ (j.parameters = Null \/ ReadsHex(j.parameters))

AlgorithmParsed(j) ==
  CASE j.json = "Int" -> AlgInt(j.int)
    [] j.json = "Oid" -> IF j.parameters = Null
                           THEN AlgOid(j.oid)
                           ELSE AlgOidParameters(j.oid, HexDecoded(j.parameters.digits))

-----------------------------------------------------------------------------
(* The members, by the codec of their field.  Names and extension lists    *)
(* are derived member by member and opaque here.                           *)

\* What rfc3339::serialize can format.
HasText(codec, v) == codec \in {"time", "optional time"} /\ v # None => HasDate(v)

\* Mistake: the date has whole seconds.
DateTextWhole(v) == DateOf(v.secs, FALSE)

\* hex_bytes::serialize, biguint_hex::serialize, rfc3339::serialize
BytesText(v)   == Hex(HexEncoded(v))
BiguintText(v) == Hex(HexEncoded(ToBytesBe(v)))
DateText(v)    == DateOf(v.secs, v.fraction)

\* serialize_opt_str, for the text of what is there
OptionText(v, text) == IF v = None THEN Null ELSE text

TextOf(codec, v) ==
  CASE codec = "i32"        -> Number(v)
    [] codec = "biguint"    -> BiguintText(v)
    [] codec = "algorithm"  -> AlgorithmText(v)
    [] codec = "bytes"      -> BytesText(v)
    [] codec = "time"       -> DateText(v)
    [] codec = "optional time" -> OptionText(v, DateText(v))
    [] codec \in {"name", "optional name", "extensions"} ->
         OptionText(v, [json |-> v.kind, content |-> v.content])

Parses(codec, j) ==
  CASE codec = "i32"        -> j.json = "number" /\ j.number \in I32
    [] codec = "biguint"    -> ReadsHex(j)
    [] codec = "algorithm"  -> ParsesAlgorithm(j)
    [] codec = "bytes"      -> ReadsHex(j)
    [] codec = "time"       -> ReadsDate(j)
    [] codec = "optional time" -> j = Null \/ ReadsDate(j)
    [] codec = "name"       -> j.json = "name"
    [] codec = "optional name" ->     \* serde fills in an absent Option
         j \in {Null, Missing} \/ j.json = "name"
    [] codec = "extensions" -> j.json = "extensions"

\* Mistake: leading zeros of a byte string are dropped, as of a number.
BytesParsedBe(j) == FromBytesBe(HexDecoded(j.digits))

\* hex_bytes::deserialize, biguint_hex::deserialize
BytesParsed(j)   == HexDecoded(j.digits)
BiguintParsed(j) == FromBytesBe(HexDecoded(j.digits))

Parsed(codec, j) ==
  IF j \in {Null, Missing}
    THEN None
    ELSE CASE codec = "i32"       -> j.number
           [] codec = "biguint"   -> BiguintParsed(j)
           [] codec = "algorithm" -> AlgorithmParsed(j)
           [] codec = "bytes"     -> BytesParsed(j)
           [] codec \in {"time", "optional time"} -> Time(j.secs, j.fraction)
           [] OTHER               -> [kind |-> j.json, content |-> j.content]

-----------------------------------------------------------------------------
(* The documents of others: what the members of an object may be.          *)

OtherText == {Null, Missing} \cup [json : {"text"}, text : STRING]
Member == OtherText \cup HexString
            \cup [json : {"number"}, number : Int]
            \cup [json : {"date"}, secs : DateMin .. TimeMax, fraction : BOOLEAN]
            \cup [json : {"Int"}, int : Int]
            \cup [json : {"Oid"}, oid : Seq(Octet), parameters : OtherText \cup HexString]
            \cup [json : {"name"}, content : NameContents]
            \cup [json : {"extensions"}, content : ExtContents]

ASSUME YearAssumption == TimeMin <= DateMin
ASSUME DocumentsAssumption == Documents \subseteq [FieldNames -> Member]

-----------------------------------------------------------------------------
(* The calls                                                               *)

Codec(f) == DecodePlan[CHOOSE k \in 1 .. FIELD_COUNT : DecodePlan[k][1] = f][2]

MirrorInit ==
  \/ Init /\ doc = NoDoc
  \/ /\ pc = "from_str" /\ value = NoValue /\ wire = NoWire /\ doc \in Documents
     /\ items = <<>> /\ rest = <<>> /\ fields = <<>> /\ decoder = "none"

\* Instead of encoding; to_string fails on the year 0 and before.
ToString ==
  /\ pc = "encode"
  /\ \A f \in FieldNames : HasText(Codec(f), value[f])
  /\ doc' = [f \in FieldNames |-> TextOf(Codec(f), value[f])]
  /\ pc' = "from_str"
  /\ UNCHANGED <<value, wire, items, reading>>

NoText ==
  /\ pc = "encode"
  /\ \E f \in FieldNames : ~HasText(Codec(f), value[f])
  /\ pc' = "textless"
  /\ UNCHANGED <<value, wire, items, reading, doc>>

FromStr ==
  /\ pc = "from_str"
  /\ \A f \in FieldNames : Parses(Codec(f), doc[f])
  /\ value' = [f \in FieldNames |-> Parsed(Codec(f), doc[f])]
  /\ pc' = "encode"
  /\ UNCHANGED <<wire, items, reading, doc>>

RefuseText ==
  /\ pc = "from_str"
  /\ \E f \in FieldNames : ~Parses(Codec(f), doc[f])
  /\ pc' = "text_refused"
  /\ UNCHANGED <<value, wire, items, reading, doc>>

MirrorNext == \/ Next /\ UNCHANGED doc
              \/ ToString \/ NoText \/ FromStr \/ RefuseText

MirrorSpec == MirrorInit /\ [][MirrorNext]_mirrorVars

-----------------------------------------------------------------------------
(* Properties                                                              *)

\* Whatever is read of a document is a certificate: its numbers fit their
\* integers, its OIDs are well-formed, its times have a year of four digits.
MirrorTypeOK ==
  /\ pc \in Calls \cup {"from_str", "text_refused", "textless"}
  /\ DataTypeOK
  /\ doc \in {NoDoc} \cup [FieldNames -> Member]

\* "must survive serde_json::to_string followed by from_str unchanged", the
\* test of tests/vectors.rs: in no session does the text change a
\* certificate, and what to_string wrote is never refused.
SurvivesText ==
  [][value # NoValue /\ pc = "from_str" => value' = value /\ pc' # "text_refused"]_mirrorVars

\* A certificate that crossed the wire once has a text ever after.
WireHasText == wire # NoWire => pc # "textless"
=============================================================================
