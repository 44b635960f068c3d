------------------------- MODULE CommandLineProofs -------------------------
(***************************************************************************)
(* Proofs about CommandLine, for every file, every line of arguments and   *)
(* every hex string, on what CertificateProofs proves of every session of  *)
(* the library.                                                            *)
(*                                                                         *)
(* The argument.  The file decides beforehand whether the certificate that *)
(* is converted from it can be encoded: the fields of both conversions     *)
(* have the types of the certificate's, and of all that can be converted   *)
(* only times, path lengths and a lone KeyUsage may be what the encoder    *)
(* refuses.  For X.509 this needs an invariant of the loop over the        *)
(* extensions: the list holds what becomes of each parsed extension of the *)
(* kinds looked for so far, once.  What is printed are the bytes of a      *)
(* certificate the file is converted to, and from then on the arguments    *)
(* hold no option that converts or refuses; the decoder that finds out the *)
(* form accepts the bytes of every certificate, and what it reads from     *)
(* them is that certificate but for what the encoding loses.               *)
(*                                                                         *)
(* So what is shown in the end is what arrives of a converted file.  That  *)
(* this says what the file says is then a matter of the tables and of each *)
(* conversion: the ids of the converters are those that registry.rs names  *)
(* alike, a list that has been written has the extensions of the file, hex *)
(* that was decoded is encoded to the digits it was read from.             *)
(***************************************************************************)
EXTENDS Arrival, FiniteSetTheorems, TLAPS

CP == INSTANCE CertificateProofs
        WITH NameContents <- NameList, NameWritten <- NameOnWire,
             ExtContents  <- ExtList,  ExtWritten  <- ExtOnWire,
             Unencodable  <- {list \in ExtList : ~Encodes(list)},
             Callers <- {}, Foreign <- {}, Documents <- {}, doc <- NoOutput

\* A name loses its unsigned flags once (the hypothesis WrittenAssumption of
\* Fields).
LEMMA NameLoss ==
  /\ NameOnWire \in [NameList -> NameList]
  /\ \A c \in NameList : NameOnWire[NameOnWire[c]] = NameOnWire[c]
<1>. DEFINE A == RdnAttr(SpecialText, Seq(Octet))
<1>1. ASSUME NEW a \in A
      PROVE  UnsignedAttr(a) \in A /\ UnsignedAttr(UnsignedAttr(a)) = UnsignedAttr(a)
  BY IntAssumption DEF RdnAttr, UnsignedAttr
<1>. HIDE DEF A
<1>2. ASSUME NEW n \in Seq(A)
      PROVE  [i \in DOMAIN n |-> UnsignedAttr(n[i])] \in Seq(A)
  <2>1. \A i \in DOMAIN n : UnsignedAttr(n[i]) \in A
    BY <1>1
  <2>. QED
    BY <2>1
<1>3. NameOnWire \in [NameList -> NameList]
  BY <1>2 DEF NameOnWire, NameList, A
<1>4. ASSUME NEW n \in NameList
      PROVE  NameOnWire[NameOnWire[n]] = NameOnWire[n]
  <2>. DEFINE m == [i \in DOMAIN n |-> UnsignedAttr(n[i])]
  <2>1. NameOnWire[n] = m /\ m \in NameList
    BY <1>2 DEF NameOnWire, NameList, A
  <2>2. NameOnWire[m] = [i \in DOMAIN m |-> UnsignedAttr(m[i])]
    BY <2>1 DEF NameOnWire
  <2>3. \A i \in DOMAIN n : UnsignedAttr(UnsignedAttr(n[i])) = UnsignedAttr(n[i])
    BY <1>1 DEF NameList, A
  <2>. QED
    BY <2>1, <2>2, <2>3
<1>. QED
  BY <1>3, <1>4

\* And so does an extension list.
LEMMA ExtLoss ==
  /\ ExtOnWire \in [ExtList -> ExtList]
  /\ \A c \in ExtList : ExtOnWire[ExtOnWire[c]] = ExtOnWire[c]
<1>. DEFINE Lost(e) == [e EXCEPT !.critical = FALSE]
<1>1. ASSUME NEW e \in Extension
      PROVE  /\ Lost(e) \in Extension /\ Lost(Lost(e)) = Lost(e)
             /\ Lost(e).id = e.id /\ Lost(e).value = e.value
  BY DEF Extension
<1>. HIDE DEF Lost
<1>2. ASSUME NEW list \in Seq(Extension)
      PROVE  /\ UnsignedZero(list) \in Seq(Extension)
             /\ UnsignedZero(UnsignedZero(list)) = UnsignedZero(list)
  <2>. DEFINE zero == IsSingleKeyUsage(list) /\ list[1].value.uint = 0
              out == UnsignedZero(list)
              Loses(e) == e.id = IntId(0) \/ zero
  <2>1. out = [i \in DOMAIN list |-> IF Loses(list[i]) THEN Lost(list[i]) ELSE list[i]]
    BY DEF UnsignedZero, Lost
  <2>2. \A i \in DOMAIN list : list[i] \in Extension
    OBVIOUS
  <2>3. out \in Seq(Extension) /\ DOMAIN out = DOMAIN list
    <3>1. \A i \in DOMAIN list : (IF Loses(list[i]) THEN Lost(list[i]) ELSE list[i]) \in Extension
      BY <1>1, <2>2
    <3>. HIDE DEF Loses
    <3>. QED
      BY <2>1, <3>1
  <2>4. \A i \in DOMAIN list : out[i].id = list[i].id /\ out[i].value = list[i].value
    BY <1>1, <2>1, <2>2
  <2>5. Len(out) = Len(list) /\ (Len(list) = 1 => 1 \in DOMAIN list)
    BY <2>3
  <2>6. (IsSingleKeyUsage(out) /\ out[1].value.uint = 0) <=> zero
    BY <2>4, <2>5 DEF IsSingleKeyUsage
  <2>7. UnsignedZero(out)
          = [i \in DOMAIN out |-> IF \/ out[i].id = IntId(0)
                                    \/ (IsSingleKeyUsage(out) /\ out[1].value.uint = 0)
                                   THEN Lost(out[i]) ELSE out[i]]
    BY DEF UnsignedZero, Lost
  <2>8. ASSUME NEW i \in DOMAIN list
        PROVE  (IF \/ out[i].id = IntId(0)
                   \/ IsSingleKeyUsage(out) /\ out[1].value.uint = 0
                  THEN Lost(out[i]) ELSE out[i]) = out[i]
    <3>1. CASE Loses(list[i])
      <4>1. out[i] = Lost(list[i])
        BY <2>1, <3>1
      <4>. QED
        BY <1>1, <2>2, <4>1
    <3>2. CASE ~Loses(list[i])
      BY <2>4, <2>6, <3>2
    <3>. QED
      BY <3>1, <3>2
  <2>9. UnsignedZero(out) = [i \in DOMAIN out |-> out[i]]
    BY <2>3, <2>7, <2>8
  <2>. QED
    BY <2>3, <2>9
<1>3. ExtOnWire \in [ExtList -> ExtList]
  BY <1>2 DEF ExtOnWire, ExtList
<1>4. ASSUME NEW list \in ExtList
      PROVE  ExtOnWire[ExtOnWire[list]] = ExtOnWire[list]
  <2>1. ExtOnWire[list] = UnsignedZero(list) /\ UnsignedZero(list) \in ExtList
    BY <1>2 DEF ExtOnWire, ExtList
  <2>2. ExtOnWire[UnsignedZero(list)] = UnsignedZero(UnsignedZero(list))
    BY <2>1 DEF ExtOnWire
  <2>. QED
    BY <1>2, <2>1, <2>2 DEF ExtList
<1>. QED
  BY <1>3, <1>4

\* The actions and the sets of Certificate are the same under both instances, C
\* of the program and CP of the proofs.
LEMMA SameStart == \A form : C!StartEncode(form) = CP!StartEncode(form)
BY
   DEF C!FIELD_COUNT, CP!FIELD_COUNT, C!Header, CP!Header, C!StartEncode, CP!StartEncode,
       C!reading, CP!reading

\* The same of EncodeField.
LEMMA SameEncode == C!EncodeField = CP!EncodeField
BY
   DEF C!AlgorithmItem, CP!AlgorithmItem, C!ArrayItem, CP!ArrayItem, C!BytesItem, CP!BytesItem,
       C!CanWrite, CP!CanWrite, C!EncodeField, CP!EncodeField, C!EncodePlan, CP!EncodePlan,
       C!Encoding, CP!Encoding, C!FIELD_COUNT, CP!FIELD_COUNT, C!FieldEncoder, CP!FieldEncoder,
       C!HasHeader, CP!HasHeader, C!IntItem, CP!IntItem, C!ItemOf, CP!ItemOf, C!NameItem,
       CP!NameItem, C!NextField, CP!NextField, C!None, CP!None, C!NullItem, CP!NullItem,
       C!OpaqueItem, CP!OpaqueItem, C!ToBytesBe, CP!ToBytesBe, C!WrittenFields,
       CP!WrittenFields, C!reading, CP!reading

\* The same of Panic.
LEMMA SamePanic == C!Panic = CP!Panic
BY
   DEF C!CanWrite, CP!CanWrite, C!EncodePlan, CP!EncodePlan, C!Encoding, CP!Encoding,
       C!FIELD_COUNT, CP!FIELD_COUNT, C!FieldEncoder, CP!FieldEncoder, C!HasHeader,
       CP!HasHeader, C!NextField, CP!NextField, C!None, CP!None, C!Panic, CP!Panic,
       C!WrittenFields, CP!WrittenFields, C!reading, CP!reading

\* The same of EncodeEnd.
LEMMA SameEncodeEnd == C!EncodeEnd = CP!EncodeEnd
BY
   DEF C!EncodeEnd, CP!EncodeEnd, C!FIELD_COUNT, CP!FIELD_COUNT, C!HasHeader, CP!HasHeader,
       C!WrittenFields, CP!WrittenFields, C!reading, CP!reading

\* The same of decode_certificate.
LEMMA SameDecode == C!DecodeCertificate = CP!DecodeCertificate
BY
   DEF C!DecodeArray, CP!DecodeArray, C!DecodeCertificate, CP!DecodeCertificate, C!FIELD_COUNT,
       CP!FIELD_COUNT, C!HasElevenHeader, CP!HasElevenHeader, C!HasHeader, CP!HasHeader,
       C!Header, CP!Header, C!MayDecode, CP!MayDecode, C!Refuse, CP!Refuse, C!StartFields,
       CP!StartFields

\* The same of DecodeField.
LEMMA SameDecodeField == C!DecodeField = CP!DecodeField
BY
   DEF C!Cardinality, CP!Cardinality, C!Min, CP!Min, C!Accepts, CP!Accepts,
       C!AlgInt, CP!AlgInt, C!AlgOid, CP!AlgOid, C!AlgOidParameters,
       CP!AlgOidParameters, C!AlgorithmRead, CP!AlgorithmRead, C!DecodeField, CP!DecodeField,
       C!DecodePlan, CP!DecodePlan, C!Decoding, CP!Decoding, C!ExtensionsOf, CP!ExtensionsOf,
       C!FIELD_COUNT, CP!FIELD_COUNT, C!Field, CP!Field, C!FieldDecoder, CP!FieldDecoder,
       C!FromBytesBe, CP!FromBytesBe, C!HasElement, CP!HasElement, C!HasNext, CP!HasNext, C!I32,
       CP!I32, C!IsBytes, CP!IsBytes, C!IsInt, CP!IsInt, C!IsNull, CP!IsNull, C!IsOpaque,
       CP!IsOpaque, C!NameOf, CP!NameOf, C!None, CP!None, C!Read, CP!Read, C!ReadFields,
       CP!ReadFields, C!ReadsAlgorithm, CP!ReadsAlgorithm, C!ReadsI32, CP!ReadsI32, C!ReadsOid,
       CP!ReadsOid, C!ReadsTime, CP!ReadsTime, C!Time, CP!Time

\* The same of RefuseField.
LEMMA SameRefuseField == C!RefuseField = CP!RefuseField
BY
   DEF C!Cardinality, CP!Cardinality, C!Min, CP!Min, C!Accepts, CP!Accepts,
       C!DecodePlan, CP!DecodePlan, C!Decoding, CP!Decoding,
       C!FIELD_COUNT, CP!FIELD_COUNT, C!FieldDecoder, CP!FieldDecoder, C!HasElement,
       CP!HasElement, C!HasNext, CP!HasNext, C!I32, CP!I32, C!IsBytes, CP!IsBytes, C!IsInt,
       CP!IsInt, C!IsNull, CP!IsNull, C!IsOpaque, CP!IsOpaque, C!ReadFields, CP!ReadFields,
       C!ReadsAlgorithm, CP!ReadsAlgorithm, C!ReadsI32, CP!ReadsI32, C!ReadsOid, CP!ReadsOid,
       C!ReadsTime, CP!ReadsTime, C!Refuse, CP!Refuse, C!RefuseField, CP!RefuseField

\* The same of DecodeEnd.
LEMMA SameDecodeEnd == C!DecodeEnd = CP!DecodeEnd
BY
   DEF C!Cardinality, CP!Cardinality, C!Min, CP!Min, C!DecodeEnd, CP!DecodeEnd,
       C!FIELD_COUNT, CP!FIELD_COUNT, C!ReadFields, CP!ReadFields,
       C!reading, CP!reading

\* The certificates, the field names and the absent values.
LEMMA SameSets == C!Value = CP!Value /\ C!NoValue = CP!NoValue /\ C!NoWire = CP!NoWire
                  /\ C!FieldNames = CP!FieldNames
BY
   DEF C!AlgorithmIdentifier, CP!AlgorithmIdentifier, C!BigUint, CP!BigUint, C!DecodePlan,
       CP!DecodePlan, C!FIELD_COUNT, CP!FIELD_COUNT, C!FieldNames, CP!FieldNames, C!I32, CP!I32,
       C!NoValue, CP!NoValue, C!NoWire, CP!NoWire, C!None, CP!None, C!Octet, CP!Octet,
       C!OffsetDateTime, CP!OffsetDateTime, C!TypeOf, CP!TypeOf, C!Value, CP!Value

-----------------------------------------------------------------------------
(* What is proved about Certificate, for the certificates of the program   *)

\* The assumptions of Certificate hold of the program's parameters.
LEMMA Instantiated ==
  /\ OctetMax \in Nat \ {0} /\ OctetMax = CP!HexBase * CP!HexBase - 1
  /\ U16Max \in Nat \ {0} /\ I32Max \in Nat /\ U16Max < I32Max
  /\ Oids \subseteq Seq(CP!Octet)
  /\ TimeMin \in Int /\ TimeMax \in Nat /\ TimeMin < 0
  /\ DateMin \in Int /\ DateMin < 0 /\ TimeMin <= DateMin
  /\ \A t \in DOMAIN MacOfText : MacOfText[t] \in CP!MacAddr
BY OctetAssumption, IntAssumption, OidsAssumption, DateAssumption, HexAssumption, MacAssumption,
   TimesAssumption
   DEF CP!Octet, Octet, CP!HexBase, HexBase, CP!MacAddr, MacAddr, CP!MacLengths, MacLengths

\* The invariant of Certificate is kept (StepIInv).
LEMMA LibraryStep == CP!IInv /\ [CP!Next]_(CP!vars) => CP!IInv'
BY CP!StepIInv, NameLoss, ExtLoss, Instantiated

\* The bytes of a certificate are refused by the function for the other form only
\* (BelongingIsRead).
LEMMA LibraryReads ==
  ASSUME CP!IInv, NEW v \in CP!Value, CP!WrittenAsAll(wire, v),
         CP!RefusesHeader \/ CP!RefuseField, ~CP!WrongForm(decoder', wire)
  PROVE  FALSE
BY CP!BelongingIsRead, NameLoss, ExtLoss, Instantiated

\* The bytes written are those of the certificate that is held (EncodeEndFacts).
LEMMA LibraryWrites ==
  ASSUME CP!IInv, CP!EncodeEnd
  PROVE  /\ pc = "encoding" /\ value \in CP!Value /\ wire' = items
         /\ CP!WrittenAsAll(items, value)
BY CP!EncodeEndFacts, NameLoss, ExtLoss, Instantiated

\* The encoder ends for the encodable and panics for the others
\* (EncodableIsWritten).
LEMMA LibraryEncodes ==
  ASSUME CP!IInv
  PROVE  (CP!EncodeEnd => CP!Encodable(value)) /\ (CP!Panic => ~CP!Encodable(value))
BY CP!EncodableIsWritten, NameLoss, ExtLoss, Instantiated

\* The decoder returns a certificate (DecodeEndFacts).
LEMMA LibraryReturns ==
  ASSUME CP!IInv, CP!DecodeEnd
  PROVE  /\ pc = "decoding" /\ value' = fields /\ fields \in CP!Value
         /\ CP!ReadFromAll(wire, fields)
BY CP!DecodeEndFacts, NameLoss, ExtLoss, Instantiated

\* The certificate that is read from bytes is the one they were written from, but
\* for what the encoding loses (WrittenArrives).
LEMMA LibraryArrives ==
  ASSUME NEW tokens, NEW v \in CP!Value, NEW w \in CP!Value,
         CP!WrittenAsAll(tokens, v), CP!ReadFromAll(tokens, w)
  PROVE  w = CP!Arriving(v)
BY CP!WrittenArrives, NameLoss, ExtLoss, Instantiated

\* The absent certificate is none.
LEMMA LibraryValues == CP!NoValue \notin CP!Value
BY CP!ValueFacts, NameLoss, ExtLoss, Instantiated

-----------------------------------------------------------------------------
(* Converted certificates                                                  *)

Assembled(type, serial, algorithm, issuer, before, after, subject, key_algorithm, key, list,
          signature) ==
  [c509_certificate_type        |-> type,
   certificate_serial_number    |-> serial,
   issuer_signature_algorithm   |-> C!AlgInt(algorithm),
   issuer                       |-> issuer,
   validity_not_before          |-> before,
   validity_not_after           |-> after,
   subject                      |-> C!NameOf(subject),
   subject_public_key_algorithm |-> C!AlgInt(key_algorithm),
   subject_public_key           |-> key,
   extensions                   |-> C!ExtensionsOf(list),
   issuer_signature_value       |-> signature]

NameValue == [kind : {"name"}, content : NameList]
TimeValue == [kind : {"time"}, secs : TimeMin .. TimeMax, fraction : BOOLEAN]

\* The types of the fields, as the conversions fill them.
LEMMA FieldTypes ==
  /\ CP!TypeOf("i32") = I32
  /\ CP!TypeOf("biguint") = BigUint
  /\ \A n \in I32 : C!AlgInt(n) \in CP!TypeOf("algorithm")
  /\ CP!TypeOf("name") = NameValue
  /\ CP!TypeOf("optional name") = {None} \cup NameValue
  /\ CP!TypeOf("time") = TimeValue
  /\ CP!TypeOf("optional time") = {None} \cup TimeValue
  /\ CP!TypeOf("bytes") = Seq(Octet)
  /\ \A list \in ExtList : C!ExtensionsOf(list) \in CP!TypeOf("extensions")
  /\ \A n \in NameList : C!NameOf(n) \in NameValue
<1>1. CP!TypeOf("i32") = I32
  BY DEF CP!TypeOf, CP!I32, I32
<1>2. CP!TypeOf("biguint") = BigUint
  BY DEF CP!TypeOf, CP!BigUint, BigUint, CP!Octet, Octet
<1>3. \A n \in I32 : C!AlgInt(n) \in CP!TypeOf("algorithm")
  BY DEF CP!TypeOf, CP!AlgorithmIdentifier, CP!I32, I32, C!AlgInt
<1>4. CP!TypeOf("name") = NameValue
  BY DEF CP!TypeOf, NameValue
<1>5. CP!TypeOf("optional name") = {None} \cup NameValue
  BY DEF CP!TypeOf, CP!None, None, NameValue
<1>6. CP!TypeOf("time") = TimeValue
  BY DEF CP!TypeOf, CP!OffsetDateTime, TimeValue
<1>7. CP!TypeOf("optional time") = {None} \cup TimeValue
  BY DEF CP!TypeOf, CP!OffsetDateTime, CP!None, None, TimeValue
<1>8. CP!TypeOf("bytes") = Seq(Octet)
  BY DEF CP!TypeOf, CP!Octet, Octet
<1>9. \A list \in ExtList : C!ExtensionsOf(list) \in CP!TypeOf("extensions")
  BY DEF CP!TypeOf, C!ExtensionsOf
<1>10. \A n \in NameList : C!NameOf(n) \in NameValue
  BY DEF C!NameOf, NameValue
<1>. QED
  BY <1>1, <1>2, <1>3, <1>4, <1>5, <1>6, <1>7, <1>8, <1>9, <1>10

\* A record of typed fields is a certificate; it encodes exactly when its times
\* are not before 1970 and its extension list encodes.
LEMMA AssembledFacts ==
  ASSUME NEW type \in I32, NEW serial \in BigUint, NEW algorithm \in I32,
         NEW issuer \in {None} \cup NameValue, NEW before \in TimeValue,
         NEW after \in {None} \cup TimeValue, NEW subject \in NameList,
         NEW key_algorithm \in I32, NEW key \in Seq(Octet), NEW list \in ExtList,
         NEW signature \in Seq(Octet)
  PROVE  LET v == Assembled(type, serial, algorithm, issuer, before, after, subject,
                            key_algorithm, key, list, signature)
         IN  /\ v \in CP!Value
             /\ CP!Encodable(v) <=> /\ before.secs >= 0
                                    /\ after # None => after.secs >= 0
                                    /\ Encodes(list)
<1>. DEFINE v == Assembled(type, serial, algorithm, issuer, before, after, subject,
                           key_algorithm, key, list, signature)
<1>1. v \in CP!Value
  <2>1. /\ C!AlgInt(algorithm) \in CP!TypeOf("algorithm")
        /\ C!AlgInt(key_algorithm) \in CP!TypeOf("algorithm")
        /\ C!NameOf(subject) \in CP!TypeOf("name")
        /\ C!ExtensionsOf(list) \in CP!TypeOf("extensions")
        /\ type \in CP!TypeOf("i32") /\ serial \in CP!TypeOf("biguint")
        /\ issuer \in CP!TypeOf("optional name") /\ before \in CP!TypeOf("time")
        /\ after \in CP!TypeOf("optional time")
        /\ key \in CP!TypeOf("bytes") /\ signature \in CP!TypeOf("bytes")
    BY FieldTypes
  <2>. QED
    BY <2>1, Zenon DEF CP!Value, Assembled
<1>2. /\ v.validity_not_before = before /\ v.validity_not_after = after
      /\ v.extensions = C!ExtensionsOf(list) /\ C!ExtensionsOf(list).content = list
  BY DEF Assembled, C!ExtensionsOf
<1>. HIDE DEF v
<1>3. CP!Encodable(v) <=>
        /\ CP!CanWrite("i32", v.c509_certificate_type)
        /\ CP!CanWrite("biguint", v.certificate_serial_number)
        /\ CP!CanWrite("algorithm", v.issuer_signature_algorithm)
        /\ CP!CanWrite("optional name", v.issuer)
        /\ CP!CanWrite("time", v.validity_not_before)
        /\ CP!CanWrite("optional time", v.validity_not_after)
        /\ CP!CanWrite("name", v.subject)
        /\ CP!CanWrite("algorithm", v.subject_public_key_algorithm)
        /\ CP!CanWrite("bytes", v.subject_public_key)
        /\ CP!CanWrite("extensions", v.extensions)
        /\ CP!CanWrite("bytes", v.issuer_signature_value)
  <2>. DEFINE Writes(k) == CP!CanWrite(CP!EncodePlan[k][2], v[CP!EncodePlan[k][1]])
  <2>1. /\ Writes(1) <=> CP!CanWrite("i32", v.c509_certificate_type)
        /\ Writes(2) <=> CP!CanWrite("biguint", v.certificate_serial_number)
        /\ Writes(3) <=> CP!CanWrite("algorithm", v.issuer_signature_algorithm)
        /\ Writes(4) <=> CP!CanWrite("optional name", v.issuer)
        /\ Writes(5) <=> CP!CanWrite("time", v.validity_not_before)
        /\ Writes(6) <=> CP!CanWrite("optional time", v.validity_not_after)
        /\ Writes(7) <=> CP!CanWrite("name", v.subject)
        /\ Writes(8) <=> CP!CanWrite("algorithm", v.subject_public_key_algorithm)
        /\ Writes(9) <=> CP!CanWrite("bytes", v.subject_public_key)
        /\ Writes(10) <=> CP!CanWrite("extensions", v.extensions)
        /\ Writes(11) <=> CP!CanWrite("bytes", v.issuer_signature_value)
    BY DEF CP!EncodePlan
  <2>2. CP!Encodable(v) <=> \A k \in 1 .. 11 : Writes(k)
    BY DEF CP!Encodable, CP!FIELD_COUNT
  <2>. HIDE DEF Writes
  <2>3. (\A k \in 1 .. 11 : Writes(k)) <=>
          /\ Writes(1) /\ Writes(2) /\ Writes(3) /\ Writes(4) /\ Writes(5) /\ Writes(6)
          /\ Writes(7) /\ Writes(8) /\ Writes(9) /\ Writes(10) /\ Writes(11)
    BY \A k \in 1 .. 11 : \/ k = 1 \/ k = 2 \/ k = 3 \/ k = 4 \/ k = 5 \/ k = 6 \/ k = 7
                          \/ k = 8 \/ k = 9 \/ k = 10 \/ k = 11
  <2>. QED
    BY <2>1, <2>2, <2>3
<1>4. \A x : /\ CP!CanWrite("i32", x) /\ CP!CanWrite("biguint", x) /\ CP!CanWrite("algorithm", x)
             /\ CP!CanWrite("optional name", x) /\ CP!CanWrite("name", x) /\ CP!CanWrite("bytes", x)
  BY DEF CP!CanWrite
<1>5. CP!CanWrite("time", v.validity_not_before) <=> before.secs >= 0
  <2>1. before # CP!None
    BY DEF TimeValue, CP!None
  <2>. QED
    BY <1>2, <2>1 DEF CP!CanWrite
<1>6. CP!CanWrite("optional time", v.validity_not_after) <=> (after # None => after.secs >= 0)
  BY <1>2 DEF CP!CanWrite, CP!None, None
<1>7. CP!CanWrite("extensions", v.extensions) <=> Encodes(list)
  <2>1. v.extensions.content = list
    BY <1>2
  <2>. QED
    BY <2>1 DEF CP!CanWrite
<1>8. CP!Encodable(v) <=> /\ before.secs >= 0
                          /\ after # None => after.secs >= 0
                          /\ Encodes(list)
  BY <1>3, <1>4, <1>5, <1>6, <1>7, Zenon
<1>. QED
  BY <1>1, <1>8, Zenon DEF v
-----------------------------------------------------------------------------
(* What the conversions read                                               *)

\* FromBytesBe returns numbers of the serial number's type.
LEMMA Digits == \A b \in Seq(Octet) : FromBytesBe(b) \in BigUint
<1>1. \A b \in Seq(CP!Octet) : CP!FromBytesBe(b) \in CP!BigUint
  BY CP!BigUintFacts, NameLoss, ExtLoss, Instantiated
<1>2. \A b : CP!FromBytesBe(b) = FromBytesBe(b)
  BY DEF CP!FromBytesBe, FromBytesBe, CP!Min, Min
<1>3. CP!BigUint = BigUint /\ CP!Octet = Octet
  BY DEF CP!BigUint, BigUint, CP!Octet, Octet
<1>. QED
  BY <1>1, <1>2, <1>3

\* The digits that are read are those of whole octets.
LEMMA CleanedTyped ==
  ASSUME NEW j \in HexString, ReadsTolerantHex(j)
  PROVE  /\ Cleaned(j.digits) \in Seq(0 .. HexBase - 1)
         /\ \E n \in Nat : Len(Cleaned(j.digits)) = 2 * n
<1>. DEFINE kept == {i \in DOMAIN j.digits : j.digits[i] # Space}
            clean == Cleaned(j.digits)
<1>1. IsHex(clean)
  BY DEF ReadsTolerantHex
<1>2. DOMAIN clean = 1 .. Cardinality(kept) /\ clean = [k \in 1 .. Cardinality(kept) |-> clean[k]]
  BY DEF Cleaned
<1>3. Cardinality(kept) \in Nat
  <2>1. kept \subseteq 1 .. Len(j.digits) /\ Len(j.digits) \in Int
    BY DEF HexString
  <2>2. IsFiniteSet(kept)
    <3>1. IsFiniteSet(1 .. Len(j.digits))
      BY <2>1, FS_Interval
    <3>. HIDE DEF kept
    <3>. QED
      BY <2>1, <3>1, FS_Subset
  <2>. QED
    BY <2>2, FS_CardinalityType
<1>. HIDE DEF kept, clean
<1>4. clean \in Seq(0 .. HexBase - 1)
  <2>1. \A k \in 1 .. Cardinality(kept) : clean[k] \in 0 .. HexBase - 1
    BY <1>1, <1>2 DEF IsHex
  <2>2. \A n \in Nat : \A S : \A s : /\ DOMAIN s = 1 .. n /\ s = [k \in 1 .. n |-> s[k]]
                                     /\ \A k \in 1 .. n : s[k] \in S
                                     => s \in Seq(S)
    OBVIOUS
  <2>. QED
    BY <1>2, <1>3, <2>1, <2>2
<1>5. \E n \in Nat : Len(clean) = 2 * n
  <2>1. \A m \in Nat : m % 2 = 0 => m \div 2 \in Nat /\ m = 2 * (m \div 2)
    OBVIOUS
  <2>2. Len(clean) \in Nat /\ Len(clean) % 2 = 0
    BY <1>1, <1>4 DEF IsHex
  <2>. QED
    BY <2>1, <2>2
<1>. QED
  BY <1>4, <1>5 DEF clean

\* hex::decode returns octets (cert_json.rs).
LEMMA HexRead ==
  ASSUME NEW j \in HexString, ReadsTolerantHex(j)
  PROVE  TolerantHexRead(j) \in Seq(Octet)
<1>. DEFINE clean == Cleaned(j.digits)
<1>1. IsHex(clean)
  BY DEF ReadsTolerantHex
<1>2. clean \in Seq(0 .. HexBase - 1)
  BY CleanedTyped
<1>. HIDE DEF clean
<1>. DEFINE h == Hex(clean)
<1>3. h.digits = clean
  BY DEF Hex
<1>4. h \in CP!HexString
  <2>1. clean \in Seq({CP!Space, CP!NotHex} \cup 0 .. CP!HexBase - 1)
    <3>1. \A S : \A T : S \subseteq T => (\A s \in Seq(S) : s \in Seq(T))
      OBVIOUS
    <3>2. 0 .. HexBase - 1 \subseteq {CP!Space, CP!NotHex} \cup 0 .. CP!HexBase - 1
      BY DEF HexBase, CP!HexBase
    <3>. QED
      BY <1>2, <3>1, <3>2
  <2>. QED
    BY <2>1 DEF Hex, CP!HexString
<1>5. CP!IsHex(h.digits)
  BY <1>1, <1>3 DEF IsHex, CP!IsHex, HexBase, CP!HexBase
<1>6. CP!HexDecoded(h.digits) \in Seq(CP!Octet)
  <2>. HIDE DEF h
  <2>. QED
    BY <1>4, <1>5, CP!HexTyped, NameLoss, ExtLoss, Instantiated
<1>7. CP!HexDecoded(clean) = HexDecoded(clean) /\ CP!Octet = Octet
  BY DEF CP!HexDecoded, HexDecoded, CP!HexBase, HexBase, CP!Octet, Octet
<1>. QED
  BY <1>3, <1>6, <1>7 DEF TolerantHexRead, clean

\* special_text returns a text or a MAC address (common.rs).
LEMMA TextRead == \A t \in STRING : SpecialTextOf(t) \in SpecialText
BY MacAssumption DEF SpecialTextOf, SpecialText, Mac, Text, MacAddr

\* A registered attribute has the type of RdnAttribute.
LEMMA RegisteredTyped ==
  ASSUME NEW id \in 0 .. U16Max, NEW printable \in BOOLEAN, NEW t \in STRING
  PROVE  Registered(id, printable, SpecialTextOf(t)) \in RdnAttr(SpecialText, Seq(Octet))
BY TextRead DEF RdnAttr, Registered

\* Every entry of the tables has an id of its width.
LEMMA Tables ==
  /\ \A oid : Recognized(oid, RDN_ATTRIBUTE_OIDS) => IdOf(oid, RDN_ATTRIBUTE_OIDS) \in 0 .. U16Max
  /\ \A oid : Recognized(oid, SIGNATURE_ALGORITHM_OIDS) => IdOf(oid, SIGNATURE_ALGORITHM_OIDS) \in I32
  /\ \A oid : Recognized(oid, PUBLIC_KEY_ALGORITHM_OIDS) => IdOf(oid, PUBLIC_KEY_ALGORITHM_OIDS) \in I32
  /\ \A oid : Recognized(oid, EC_CURVE_OIDS) => IdOf(oid, EC_CURVE_OIDS) \in I32
<1>1. ASSUME NEW table, NEW oid, NEW S, Recognized(oid, table), \A entry \in table : entry[2] \in S
      PROVE  IdOf(oid, table) \in S
  BY <1>1 DEF Recognized, IdOf
<1>2. \A entry \in RDN_ATTRIBUTE_OIDS : entry[2] \in 0 .. 29
  BY DEF RDN_ATTRIBUTE_OIDS
<1>3. 0 .. 29 \subseteq 0 .. U16Max /\ 0 .. 29 \subseteq I32
  BY RdnAssumption, IntAssumption, RegistryAssumption DEF I32
<1>4. \A entry \in SIGNATURE_ALGORITHM_OIDS : entry[2] \in 0 .. 29
  BY DEF SIGNATURE_ALGORITHM_OIDS
<1>5. \A entry \in PUBLIC_KEY_ALGORITHM_OIDS : entry[2] \in 0 .. 29
  BY DEF PUBLIC_KEY_ALGORITHM_OIDS
<1>6. \A entry \in EC_CURVE_OIDS : entry[2] \in 0 .. 29
  BY DEF EC_CURVE_OIDS
<1>7. /\ \A entry \in RDN_ATTRIBUTE_OIDS : entry[2] \in 0 .. U16Max
      /\ \A entry \in SIGNATURE_ALGORITHM_OIDS : entry[2] \in I32
      /\ \A entry \in PUBLIC_KEY_ALGORITHM_OIDS : entry[2] \in I32
      /\ \A entry \in EC_CURVE_OIDS : entry[2] \in I32
  BY <1>2, <1>3, <1>4, <1>5, <1>6
<1>. QED
  BY <1>1, <1>7

\* name_to_rdn returns a name (x509_to_c509.rs).
LEMMA X509NameTyped ==
  ASSUME NEW name \in X509Name, ReadsX509Name(name)
  PROVE  NameToRdn(name) \in NameList
<1>. DEFINE A == RdnAttr(SpecialText, Seq(Octet))
            Made(i) == Registered(IdOf(name[i].oid, RDN_ATTRIBUTE_OIDS),
                                  name[i].tag = "PrintableString",
                                  SpecialTextOf(name[i].value.some))
<1>0. name \in Seq([rdn : Nat, oid : STRING, tag : STRING, value : Option(STRING)])
  BY DEF X509Name
<1>1. ASSUME NEW i \in DOMAIN name PROVE Made(i) \in A
  <2>1. name[i] \in [rdn : Nat, oid : STRING, tag : STRING, value : Option(STRING)]
    <3>1. \A S : \A s \in Seq(S) : \A k \in DOMAIN s : s[k] \in S
      OBVIOUS
    <3>. QED
      BY <1>0, <3>1, Zenon
  <2>2. name[i].value \in Option(STRING) /\ name[i].value # None
    BY <2>1 DEF ReadsX509Name
  <2>3. name[i].value.some \in STRING
    BY <2>2 DEF Option
  <2>4. IdOf(name[i].oid, RDN_ATTRIBUTE_OIDS) \in 0 .. U16Max
    BY Tables DEF ReadsX509Name
  <2>5. (name[i].tag = "PrintableString") \in BOOLEAN
    OBVIOUS
  <2>. QED
    BY <2>3, <2>4, <2>5, RegisteredTyped
<1>2. NameToRdn(name) = [i \in DOMAIN name |-> Made(i)]
  BY DEF NameToRdn
<1>. HIDE DEF Made, A
<1>3. [i \in DOMAIN name |-> Made(i)] \in Seq(A)
  BY <1>0, <1>1
<1>. QED
  BY <1>2, <1>3 DEF A, NameList

\* JsonName::into_name returns a name (cert_json.rs).
LEMMA JsonNameTyped ==
  ASSUME NEW times, NEW j \in JsonMember(times), ReadsJsonName(j)
  PROVE  IntoName(j) \in NameList
<1>. DEFINE A == RdnAttr(SpecialText, Seq(Octet))
<1>1. CASE j.json = "text"
  <2>1. j.text \in STRING
    BY <1>1 DEF JsonMember, Scalar, Missing, Null, HexString
  <2>2. COMMON_NAME_ID \in 0 .. U16Max
    BY RdnAssumption, IntAssumption DEF COMMON_NAME_ID
  <2>3. Registered(COMMON_NAME_ID, FALSE, SpecialTextOf(j.text)) \in A
    BY <2>1, <2>2, RegisteredTyped
  <2>. HIDE DEF A
  <2>4. <<Registered(COMMON_NAME_ID, FALSE, SpecialTextOf(j.text))>> \in Seq(A)
    <3>1. \A S : \A x \in S : <<x>> \in Seq(S)
      OBVIOUS
    <3>. QED
      BY <2>3, <3>1, Zenon
  <2>. QED
    BY <1>1, <2>4 DEF IntoName, NameList, A
<1>2. CASE j.json = "attributes"
  <2>. DEFINE list == j.attributes
              Made(i) == Registered(list[i].id.number, FlagRead(list[i].printable_string),
                                    SpecialTextOf(list[i].value.text))
  <2>1. list \in Seq(JsonRdnAttribute(times))
    BY <1>2 DEF JsonMember, Scalar, Missing, Null, HexString
  <2>2. \A i \in DOMAIN list : ReadsJsonAttribute(list[i])
    BY <1>2 DEF ReadsJsonName
  <2>3. IntoName(j) = [i \in DOMAIN list |-> Made(i)]
    BY <1>2 DEF IntoName
  <2>. HIDE DEF list
  <2>4. ASSUME NEW i \in DOMAIN list PROVE Made(i) \in A
    <3>1. list[i] \in JsonRdnAttribute(times) /\ ReadsJsonAttribute(list[i])
      BY <2>1, <2>2
    <3>2. list[i].id.number \in 0 .. U16Max
      BY <3>1 DEF ReadsJsonAttribute, IsNumber
    <3>3. list[i].value \in Scalar(times) /\ list[i].printable_string \in Scalar(times)
      BY <3>1 DEF JsonRdnAttribute
    <3>4. list[i].value.text \in STRING
      BY <3>1, <3>3 DEF ReadsJsonAttribute, Scalar, Missing, Null, HexString
    <3>5. FlagRead(list[i].printable_string) \in BOOLEAN
      BY <3>3 DEF FlagRead, Scalar, Missing, Null, HexString
    <3>. QED
      BY <3>2, <3>4, <3>5, RegisteredTyped
  <2>. HIDE DEF Made, A
  <2>5. [i \in DOMAIN list |-> Made(i)] \in Seq(A)
    BY <2>1, <2>4
  <2>. QED
    BY <2>3, <2>5 DEF A, NameList
<1>. QED
  BY <1>1, <1>2 DEF ReadsJsonName

-----------------------------------------------------------------------------
(* The extensions that are built                                           *)

\* What the theorems suppose of the parameters of ExtensionList: Contents has
\* room for what the conversions put into opaque values, and Unwritable has the
\* long paths among them and no other.
HoldsConverted == /\ ConvertedContents \subseteq Contents
                  /\ Unwritable \cap ConvertedContents = LongPaths \cap ConvertedContents

Built == {EXT_KEY_USAGE_ID, EXT_SUBJECT_ALT_NAME_ID, EXT_BASIC_CONSTRAINTS_ID,
          EXT_AUTHORITY_KEY_IDENTIFIER_ID, EXT_EXT_KEY_USAGE_ID}

\* The kinds of value that registry.rs gives the ids of the typed extensions.
LEMMA Kinds ==
  /\ KindOf(EXT_SUBJECT_ALT_NAME_ID) = "SubjectAltName"
  /\ KindOf(EXT_BASIC_CONSTRAINTS_ID) = "BasicConstraints"
  /\ KindOf(EXT_AUTHORITY_KEY_IDENTIFIER_ID) = "AuthorityKeyIdentifier"
  /\ KindOf(EXT_EXT_KEY_USAGE_ID) = "ExtKeyUsage"
  /\ \A id \in Built \ {EXT_KEY_USAGE_ID} : KindOf(id) \in TypedKinds
<1>1. /\ KindOf(EXT_SUBJECT_ALT_NAME_ID) = "SubjectAltName"
      /\ KindOf(EXT_BASIC_CONSTRAINTS_ID) = "BasicConstraints"
      /\ KindOf(EXT_AUTHORITY_KEY_IDENTIFIER_ID) = "AuthorityKeyIdentifier"
      /\ KindOf(EXT_EXT_KEY_USAGE_ID) = "ExtKeyUsage"
  BY DEF KindOf, EXT_SUBJECT_ALT_NAME_ID, EXT_BASIC_CONSTRAINTS_ID, EXT_AUTHORITY_KEY_IDENTIFIER_ID,
         EXT_EXT_KEY_USAGE_ID
<1>2. \A id \in Built \ {EXT_KEY_USAGE_ID} :
        /\ id \in 1 .. 38
        /\ KindOf(id) \in {"SubjectAltName", "BasicConstraints", "AuthorityKeyIdentifier", "ExtKeyUsage"}
  BY <1>1 DEF Built, EXT_SUBJECT_ALT_NAME_ID, EXT_BASIC_CONSTRAINTS_ID,
              EXT_AUTHORITY_KEY_IDENTIFIER_ID, EXT_EXT_KEY_USAGE_ID, EXT_KEY_USAGE_ID
<1>3. \A id \in Built \ {EXT_KEY_USAGE_ID} : KindOf(id) \in TypedKinds
  BY <1>2 DEF TypedKinds, PlainKinds, UintKinds
<1>. QED
  BY <1>1, <1>3

\* The ids that are built fit.
LEMMA BuiltIds == \A id \in Built : id \in 2 .. 8 /\ id \in I32 /\ id # I32Min
BY RegistryAssumption, IntAssumption
   DEF Built, EXT_SUBJECT_ALT_NAME_ID, EXT_BASIC_CONSTRAINTS_ID, EXT_AUTHORITY_KEY_IDENTIFIER_ID,
       EXT_EXT_KEY_USAGE_ID, EXT_KEY_USAGE_ID, I32, I32Min

\* An extension as both conversions build it.
Convertible(e) ==
  /\ e \in Extension
  /\ \E id \in Built : e.id = IntId(id)
  /\ e.id = IntId(EXT_KEY_USAGE_ID) => e.value.kind = "KeyUsage"

\* An extension that is built typed.
LEMMA TypedIsConvertible ==
  ASSUME HoldsConverted, NEW id \in Built \ {EXT_KEY_USAGE_ID}, NEW critical \in BOOLEAN,
         NEW content \in ConvertedContents
  PROVE  LET e == Typed(id, critical, content)
         IN  /\ Convertible(e)
             /\ e.id = IntId(id) /\ e.value.kind = KindOf(id) /\ e.value.content = content
<1>. DEFINE e == Typed(id, critical, content)
            v == [kind |-> KindOf(id), content |-> content]
<1>1. e = [id |-> IntId(id), critical |-> critical, value |-> v]
  BY DEF Typed
<1>2. v \in RegisteredValue
  <2>1. KindOf(id) \in TypedKinds /\ content \in Contents
    BY Kinds DEF HoldsConverted
  <2>2. v \in [kind : TypedKinds, content : Contents]
    BY <2>1
  <2>. HIDE DEF v
  <2>. QED
    BY <2>2 DEF RegisteredValue
<1>3. IntId(id) \in [form : {"int"}, int : I32]
  BY BuiltIds DEF IntId
<1>4. e.id = IntId(id) /\ e.value = v /\ v.kind = KindOf(id) /\ v.content = content
  BY <1>1
<1>. HIDE DEF v
<1>5. e \in Extension
  BY <1>1, <1>2, <1>3 DEF Extension
<1>6. IntId(id) # IntId(EXT_KEY_USAGE_ID)
  BY DEF IntId
<1>. HIDE DEF e
<1>. QED
  BY <1>4, <1>5, <1>6 DEF Convertible, e

\* A KeyUsage, an integer.
LEMMA KeyUsageIsConvertible ==
  ASSUME NEW critical \in BOOLEAN, NEW flags \in U32
  PROVE  LET e == KeyUsageExt(critical, flags)
         IN  /\ Convertible(e)
             /\ e.id = IntId(EXT_KEY_USAGE_ID) /\ e.value.kind = "KeyUsage" /\ e.value.uint = flags
<1>. DEFINE e == KeyUsageExt(critical, flags)
            v == [kind |-> "KeyUsage", uint |-> flags]
<1>1. e = [id |-> IntId(EXT_KEY_USAGE_ID), critical |-> critical, value |-> v]
  BY DEF KeyUsageExt
<1>2. v \in RegisteredValue
  <2>1. v \in [kind : UintKinds, uint : U32]
    BY DEF UintKinds
  <2>. HIDE DEF v
  <2>. QED
    BY <2>1 DEF RegisteredValue
<1>3. EXT_KEY_USAGE_ID \in Built /\ IntId(EXT_KEY_USAGE_ID) \in [form : {"int"}, int : I32]
  BY BuiltIds DEF IntId, Built
<1>4. e.id = IntId(EXT_KEY_USAGE_ID) /\ e.value = v /\ v.kind = "KeyUsage" /\ v.uint = flags
  BY <1>1
<1>. HIDE DEF v
<1>5. e \in Extension
  BY <1>1, <1>2, <1>3 DEF Extension
<1>. HIDE DEF e
<1>. QED
  BY <1>3, <1>4, <1>5 DEF Convertible, e

\* The extension's value encodes.
Fits(e) == ValueEncodes(e.value)

\* A list of such extensions encodes when its values do, and a KeyUsage alone
\* in it fits i32.
LEMMA ConvertibleLists ==
  ASSUME NEW list, list = [i \in 1 .. Len(list) |-> list[i]], Len(list) \in Nat,
         \A i \in 1 .. Len(list) : Convertible(list[i])
  PROVE  /\ list \in ExtList
         /\ Encodes(list) <=>
              /\ \A i \in 1 .. Len(list) : Fits(list[i])
              /\ Len(list) = 1 /\ list[1].id = IntId(EXT_KEY_USAGE_ID)
                   => list[1].value.uint <= I32Max
<1>1. list \in ExtList /\ DOMAIN list = 1 .. Len(list)
  <2>1. \A i \in 1 .. Len(list) : list[i] \in Extension
    BY DEF Convertible
  <2>2. \A n \in Nat : \A S : \A s : /\ s = [k \in 1 .. n |-> s[k]] /\ \A k \in 1 .. n : s[k] \in S
                                     => s \in Seq(S) /\ DOMAIN s = 1 .. n
    OBVIOUS
  <2>. QED
    BY <2>1, <2>2, Zenon DEF ExtList
<1>2. IsSingleKeyUsage(list) <=> Len(list) = 1 /\ list[1].id = IntId(EXT_KEY_USAGE_ID)
  <2>1. Len(list) = 1 => Convertible(list[1])
    OBVIOUS
  <2>. QED
    BY <2>1 DEF IsSingleKeyUsage, EXT_KEY_USAGE_ID, Convertible
<1>3. CASE IsSingleKeyUsage(list)
  <2>1. list[1] \in Extension /\ list[1].value.kind = "KeyUsage"
    BY <1>2, <1>3 DEF Convertible
  <2>2. list[1].value.uint \in U32
    <3>1. list[1].value \in DerValue \cup RegisteredValue
      BY <2>1 DEF Extension
    <3>. QED
      BY <2>1, <3>1 DEF RegisteredValue, DerValue, TypedKinds, PlainKinds, UintKinds
  <2>3. list[1].value.uint \in I32 <=> list[1].value.uint <= I32Max
    BY <2>2, IntAssumption DEF U32, I32
  <2>4. Encodes(list) <=> list[1].value.uint <= I32Max
    BY <1>3, <2>3 DEF Encodes
  <2>5. Fits(list[1])
    BY <2>1 DEF Fits, ValueEncodes, TypedKinds, PlainKinds, UintKinds
  <2>6. Len(list) = 1
    BY <1>2, <1>3
  <2>. QED
    BY <1>1, <1>2, <1>3, <2>4, <2>5, <2>6
<1>4. CASE ~IsSingleKeyUsage(list)
  <2>1. ASSUME NEW i \in 1 .. Len(list)
        PROVE  list[i].id.form = "int" /\ HasSigned(list[i].id.int, list[i].critical)
    <3>1. PICK id \in Built : list[i].id = IntId(id)
      BY DEF Convertible
    <3>2. list[i].id.form = "int" /\ list[i].id.int = id
      BY <3>1 DEF IntId
    <3>. QED
      BY <3>2, BuiltIds DEF HasSigned
  <2>2. Encodes(list) <=> \A i \in 1 .. Len(list) : Fits(list[i])
    BY <1>1, <1>4, <2>1 DEF Encodes, Fits
  <2>. QED
    BY <1>1, <1>2, <1>4, <2>2
<1>. QED
  BY <1>1, <1>3, <1>4

\* A path length of BasicConstraints, as both conversions build it.
LEMMA PathFacts ==
  ASSUME HoldsConverted, NEW critical \in BOOLEAN, NEW ca \in BOOLEAN, NEW path_len \in Option(U32)
  PROVE  LET e == BasicConstraintsExt(critical, ca, path_len)
         IN  /\ Convertible(e) /\ e.id # IntId(EXT_KEY_USAGE_ID)
             /\ Fits(e) <=> ~(ca /\ path_len # None /\ path_len.some > I32Max)
<1>. DEFINE e == BasicConstraintsExt(critical, ca, path_len)
            c == BasicConstraintsOf(ca, path_len)
<1>1. c \in ConvertedContents
  <2>1. CASE ca
    <3>1. c = Ca(path_len) /\ Ca(path_len) \in [kind : {"ca"}, path_len : Option(U32)]
      BY <2>1 DEF BasicConstraintsOf, Ca
    <3>. HIDE DEF c
    <3>. QED
      BY <3>1 DEF ConvertedContents
  <2>2. CASE ~ca
    <3>1. c = NotCa
      BY <2>2 DEF BasicConstraintsOf
    <3>. HIDE DEF c
    <3>. QED
      BY <3>1 DEF ConvertedContents
  <2>. QED
    BY <2>1, <2>2
<1>2. EXT_BASIC_CONSTRAINTS_ID \in Built \ {EXT_KEY_USAGE_ID}
  BY DEF Built, EXT_BASIC_CONSTRAINTS_ID, EXT_KEY_USAGE_ID
<1>3. /\ Convertible(e) /\ e.id = IntId(EXT_BASIC_CONSTRAINTS_ID)
      /\ e.value.kind = "BasicConstraints" /\ e.value.content = c
  <2>1. e = Typed(EXT_BASIC_CONSTRAINTS_ID, critical, c)
    BY DEF BasicConstraintsExt
  <2>. HIDE DEF e, c
  <2>. QED
    BY <1>1, <1>2, <2>1, TypedIsConvertible, Kinds
<1>4. e.id # IntId(EXT_KEY_USAGE_ID)
  BY <1>3 DEF IntId, EXT_BASIC_CONSTRAINTS_ID, EXT_KEY_USAGE_ID
<1>5. c \in LongPaths <=> ca /\ path_len # None /\ path_len.some > I32Max
  <2>1. CASE ~ca
    BY <2>1 DEF BasicConstraintsOf, Ca, NotCa, LongPaths
  <2>2. CASE ca
    <3>1. c = Ca(path_len)
      BY <2>2 DEF BasicConstraintsOf
    <3>. HIDE DEF c
    <3>2. path_len \in {None} \cup {Some(n) : n \in U32} /\ \A n : Some(n).some = n /\ Some(n) # None
      BY DEF Option, Some, None
    <3>3. \A n : Ca(path_len) = Ca(Some(n)) <=> path_len = Some(n)
      BY DEF Ca
    <3>4. c \in LongPaths <=> \E n \in I32Max + 1 .. 2 * I32Max + 1 : path_len = Some(n)
      BY <3>1, <3>3 DEF LongPaths
    <3>5. \A n \in U32 : n \in I32Max + 1 .. 2 * I32Max + 1 <=> n > I32Max
      BY IntAssumption DEF U32
    <3>6. CASE path_len = None
      BY <3>2, <3>4, <3>6
    <3>7. CASE path_len # None
      <4>1. PICK n \in U32 : path_len = Some(n)
        BY <3>2, <3>7
      <4>. QED
        BY <2>2, <3>2, <3>4, <3>5, <4>1
    <3>. QED
      BY <3>6, <3>7
  <2>. QED
    BY <2>1, <2>2
<1>8. Fits(e) <=> ~(ca /\ path_len # None /\ path_len.some > I32Max)
  <2>1. "BasicConstraints" \in TypedKinds
    BY <1>2, Kinds
  <2>. HIDE DEF e, c
  <2>2. c \in Unwritable <=> c \in LongPaths
    BY <1>1 DEF HoldsConverted
  <2>. QED
    BY <1>3, <1>5, <2>1, <2>2 DEF Fits, ValueEncodes
<1>. QED
  BY <1>3, <1>4, <1>8

\* The other kinds hold what a converter may build, and have no path length.
LEMMA OtherFacts ==
  ASSUME HoldsConverted, NEW critical \in BOOLEAN
  PROVE  /\ \A ids \in Seq(I32) :
              LET e == ExtKeyUsageExt(critical, ids)
              IN  Convertible(e) /\ Fits(e) /\ e.id # IntId(EXT_KEY_USAGE_ID)
         /\ \A texts \in Seq(STRING) :
              LET e == SubjectAltNameExt(critical, texts)
              IN  Convertible(e) /\ Fits(e) /\ e.id # IntId(EXT_KEY_USAGE_ID)
         /\ \A bytes \in Seq(Octet) :
              LET e == AuthorityKeyIdentifierExt(critical, bytes)
              IN  Convertible(e) /\ Fits(e) /\ e.id # IntId(EXT_KEY_USAGE_ID)
<1>1. ASSUME NEW id \in Built \ {EXT_KEY_USAGE_ID, EXT_BASIC_CONSTRAINTS_ID},
             NEW content \in ConvertedContents, "path_len" \notin DOMAIN content
      PROVE  LET e == Typed(id, critical, content)
             IN  Convertible(e) /\ Fits(e) /\ e.id # IntId(EXT_KEY_USAGE_ID)
  <2>. DEFINE e == Typed(id, critical, content)
  <2>1. Convertible(e) /\ e.id = IntId(id) /\ e.value.content = content
    BY <1>1, TypedIsConvertible
  <2>. HIDE DEF e
  <2>2. id # EXT_KEY_USAGE_ID
    OBVIOUS
  <2>3. e.id # IntId(EXT_KEY_USAGE_ID)
    BY <2>1, <2>2 DEF IntId
  <2>4. content \notin LongPaths
    BY <1>1 DEF LongPaths, Ca
  <2>5. content \notin Unwritable
    BY <1>1, <2>4 DEF HoldsConverted
  <2>. QED
    BY <2>1, <2>3, <2>5 DEF Fits, ValueEncodes, e
<1>2. {EXT_EXT_KEY_USAGE_ID, EXT_SUBJECT_ALT_NAME_ID, EXT_AUTHORITY_KEY_IDENTIFIER_ID}
         \subseteq Built \ {EXT_KEY_USAGE_ID, EXT_BASIC_CONSTRAINTS_ID}
  BY DEF Built, EXT_EXT_KEY_USAGE_ID, EXT_SUBJECT_ALT_NAME_ID, EXT_AUTHORITY_KEY_IDENTIFIER_ID,
         EXT_KEY_USAGE_ID, EXT_BASIC_CONSTRAINTS_ID
<1>3. ASSUME NEW ids \in Seq(I32)
      PROVE  [purposes |-> ids] \in ConvertedContents /\ "path_len" \notin DOMAIN [purposes |-> ids]
  BY DEF ConvertedContents
<1>4. ASSUME NEW texts \in Seq(STRING)
      PROVE  LET c == [names |-> [i \in DOMAIN texts |->
                                   [kind |-> GENERAL_NAME_DNS, value |-> texts[i]]]]
             IN  c \in ConvertedContents /\ "path_len" \notin DOMAIN c
  <2>. DEFINE N == [kind : I32, value : STRING]
              Made(i) == [kind |-> GENERAL_NAME_DNS, value |-> texts[i]]
  <2>1. GENERAL_NAME_DNS \in I32
    BY RegistryAssumption, IntAssumption DEF GENERAL_NAME_DNS, I32
  <2>2. \A i \in DOMAIN texts : Made(i) \in N
    BY <2>1
  <2>. HIDE DEF N, Made
  <2>3. [i \in DOMAIN texts |-> Made(i)] \in Seq(N)
    BY <2>2
  <2>4. [names |-> [i \in DOMAIN texts |-> Made(i)]] \in [names : Seq(N)]
    BY <2>3
  <2>. QED
    BY <2>4 DEF ConvertedContents, N, Made
<1>5. ASSUME NEW bytes \in Seq(Octet)
      PROVE  /\ KeyIdentifierAlone(bytes) \in ConvertedContents
             /\ "path_len" \notin DOMAIN KeyIdentifierAlone(bytes)
  BY DEF ConvertedContents, KeyIdentifierAlone
<1>6. \A ids \in Seq(I32) :
        LET e == ExtKeyUsageExt(critical, ids)
        IN  Convertible(e) /\ Fits(e) /\ e.id # IntId(EXT_KEY_USAGE_ID)
  BY <1>1, <1>2, <1>3, Zenon DEF ExtKeyUsageExt
<1>7. \A texts \in Seq(STRING) :
        LET e == SubjectAltNameExt(critical, texts)
        IN  Convertible(e) /\ Fits(e) /\ e.id # IntId(EXT_KEY_USAGE_ID)
  BY <1>1, <1>2, <1>4, Zenon DEF SubjectAltNameExt
<1>8. \A bytes \in Seq(Octet) :
        LET e == AuthorityKeyIdentifierExt(critical, bytes)
        IN  Convertible(e) /\ Fits(e) /\ e.id # IntId(EXT_KEY_USAGE_ID)
  BY <1>1, <1>2, <1>5, Zenon DEF AuthorityKeyIdentifierExt
<1>. QED
  BY <1>6, <1>7, <1>8

\* A number has no content to be refused.
LEMMA UintFits == \A e : e.value.kind = "KeyUsage" => Fits(e)
BY DEF Fits, ValueEncodes, TypedKinds, PlainKinds, UintKinds

\* The flags of an ExtendedKeyUsage become ids of the registry.
LEMMA PurposesTyped == \A flags : PurposeIds(flags) \in Seq(I32)
<1>. TAKE flags
<1>. DEFINE Pushed(i) == IF EXTENDED_KEY_USAGES[i][1] \in flags
                           THEN <<EXTENDED_KEY_USAGES[i][2]>> ELSE <<>>
<1>1. \A i \in 1 .. 7 : EXTENDED_KEY_USAGES[i][2] \in 0 .. 9
  <2>1. \A i \in 1 .. 7 : i = 1 \/ i = 2 \/ i = 3 \/ i = 4 \/ i = 5 \/ i = 6 \/ i = 7
    OBVIOUS
  <2>. QED
    BY <2>1 DEF EXTENDED_KEY_USAGES
<1>2. 0 .. 9 \subseteq I32
  BY RegistryAssumption, IntAssumption DEF I32
<1>3. \A i \in 1 .. 7 : Pushed(i) \in Seq(I32)
  <2>1. \A S : <<>> \in Seq(S) /\ \A x \in S : <<x>> \in Seq(S)
    OBVIOUS
  <2>2. \A i \in 1 .. 7 : EXTENDED_KEY_USAGES[i][2] \in I32
    BY <1>1, <1>2
  <2>. QED
    BY <2>1, <2>2, Zenon
<1>4. PurposeIds(flags) = Pushed(1) \o Pushed(2) \o Pushed(3) \o Pushed(4) \o Pushed(5)
                            \o Pushed(6) \o Pushed(7)
  BY DEF PurposeIds
<1>. HIDE DEF Pushed
<1>5. /\ Pushed(1) \in Seq(I32) /\ Pushed(2) \in Seq(I32) /\ Pushed(3) \in Seq(I32)
      /\ Pushed(4) \in Seq(I32) /\ Pushed(5) \in Seq(I32) /\ Pushed(6) \in Seq(I32)
      /\ Pushed(7) \in Seq(I32)
  BY <1>3
<1>6. \A S : \A s, t \in Seq(S) : s \o t \in Seq(S)
  OBVIOUS
<1>7. Pushed(1) \o Pushed(2) \o Pushed(3) \in Seq(I32)
  BY <1>5, <1>6, Zenon
<1>8. Pushed(1) \o Pushed(2) \o Pushed(3) \o Pushed(4) \o Pushed(5) \in Seq(I32)
  BY <1>5, <1>6, <1>7, Zenon
<1>9. Pushed(1) \o Pushed(2) \o Pushed(3) \o Pushed(4) \o Pushed(5) \o Pushed(6) \o Pushed(7)
        \in Seq(I32)
  BY <1>5, <1>6, <1>8, Zenon
<1>. QED
  BY <1>4, <1>9

\* The conversion of X.509 takes the extension.
Taken(e) ==
  /\ \E k \in 1 .. Len(EXTENSION_OIDS) : e.oid = EXTENSION_OIDS[k]
  /\ IsParsed(e) /\ IsSupported(e.parsed)

\* What it makes of an extension it takes.
LEMMA X509ExtensionFacts ==
  ASSUME HoldsConverted, NEW e \in X509Extension, Taken(e)
  PROVE  /\ Convertible(ExtensionOf(e))
         /\ Fits(ExtensionOf(e)) <=>
              ~(/\ e.parsed.kind = "basicConstraints" /\ e.parsed.ca
                /\ e.parsed.path_len # None /\ e.parsed.path_len.some > I32Max)
         /\ ExtensionOf(e).id = IntId(EXT_KEY_USAGE_ID) => ExtensionOf(e).value.uint <= I32Max
<1>. DEFINE p == e.parsed
            x == ExtensionOf(e)
<1>0. e.critical \in BOOLEAN /\ p \in ParsedExtension /\ e.oid \in STRING
  BY DEF X509Extension
<1>6. p.kind \in {"basicConstraints", "keyUsage", "extKeyUsage", "subjectAltName",
                 "authorityKeyIdentifier"}
  BY DEF Taken, IsParsed, EXTENSION_OIDS, X509Extension
<1>1. CASE p.kind = "basicConstraints"
  <2>1. p.ca \in BOOLEAN /\ p.path_len \in Option(U32)
    BY <1>0, <1>1 DEF ParsedExtension
  <2>2. x = BasicConstraintsExt(e.critical, p.ca, p.path_len)
    BY <1>1 DEF ExtensionOf
  <2>. HIDE DEF x, p
  <2>3. /\ Convertible(x) /\ x.id # IntId(EXT_KEY_USAGE_ID)
        /\ Fits(x) <=> ~(p.ca /\ p.path_len # None /\ p.path_len.some > I32Max)
    BY <1>0, <2>1, <2>2, PathFacts
  <2>. QED
    BY <1>1, <2>3, Zenon DEF x, p
<1>2. CASE p.kind = "keyUsage"
  <2>1. p.flags \in 0 .. U16Max
    BY <1>0, <1>2 DEF ParsedExtension
  <2>2. x = KeyUsageExt(e.critical, p.flags)
    BY <1>2 DEF ExtensionOf
  <2>3. p.flags \in U32 /\ p.flags <= I32Max
    BY <2>1, IntAssumption DEF U32
  <2>. HIDE DEF x, p
  <2>4. Convertible(x) /\ x.value.kind = "KeyUsage" /\ x.value.uint <= I32Max
    BY <1>0, <2>2, <2>3, KeyUsageIsConvertible
  <2>. QED
    BY <1>2, <2>4, UintFits DEF x, p
<1>3. CASE p.kind = "extKeyUsage"
  <2>1. x = ExtKeyUsageExt(e.critical, PurposeIds(p.purposes))
    BY <1>3 DEF ExtensionOf
  <2>2. PurposeIds(p.purposes) \in Seq(I32)
    BY PurposesTyped
  <2>. HIDE DEF x, p
  <2>3. Convertible(x) /\ Fits(x) /\ x.id # IntId(EXT_KEY_USAGE_ID)
    BY <1>0, <2>1, <2>2, OtherFacts
  <2>. QED
    BY <1>3, <2>3 DEF x, p
<1>4. CASE p.kind = "subjectAltName"
  <2>. DEFINE texts == [i \in DOMAIN p.names |-> p.names[i].text]
  <2>1. x = SubjectAltNameExt(e.critical, texts)
    BY <1>4 DEF ExtensionOf
  <2>2. texts \in Seq(STRING)
    <3>1. p.names \in Seq([type : STRING, text : STRING])
      BY <1>0, <1>4 DEF ParsedExtension
    <3>2. \A S : \A s \in Seq(S) : \A k \in DOMAIN s : s[k] \in S
      OBVIOUS
    <3>3. \A i \in DOMAIN p.names : p.names[i] \in [type : STRING, text : STRING]
      BY <3>1, <3>2, Zenon
    <3>4. \A i \in DOMAIN p.names : p.names[i].text \in STRING
      BY <3>3
    <3>. HIDE DEF p
    <3>. QED
      BY <3>1, <3>4
  <2>. HIDE DEF x, p, texts
  <2>3. Convertible(x) /\ Fits(x) /\ x.id # IntId(EXT_KEY_USAGE_ID)
    BY <1>0, <2>1, <2>2, OtherFacts
  <2>. QED
    BY <1>4, <2>3 DEF x, p
<1>5. CASE p.kind = "authorityKeyIdentifier"
  <2>1. x = AuthorityKeyIdentifierExt(e.critical, p.key_identifier.some)
    BY <1>5 DEF ExtensionOf
  <2>2. p.key_identifier \in Option(Seq(Octet)) /\ p.key_identifier # None
    BY <1>0, <1>5 DEF ParsedExtension, Taken, IsSupported
  <2>3. p.key_identifier.some \in Seq(Octet)
    BY <2>2 DEF Option
  <2>. HIDE DEF x, p
  <2>4. Convertible(x) /\ Fits(x) /\ x.id # IntId(EXT_KEY_USAGE_ID)
    BY <1>0, <2>1, <2>3, OtherFacts
  <2>. QED
    BY <1>5, <2>4 DEF x, p
<1>. QED
  BY <1>1, <1>2, <1>3, <1>4, <1>5, <1>6

\* #[serde(default)] reads a flag.
LEMMA FlagFacts ==
  ASSUME NEW times, NEW j \in Scalar(times)
  PROVE  FlagRead(j) \in BOOLEAN /\ (FlagRead(j) <=> j = Bool(TRUE))
<1>1. CASE j.json = "bool"
  <2>1. j \in [json : {"bool"}, bool : BOOLEAN]
    BY <1>1 DEF Scalar, Missing, Null, HexString
  <2>2. j = [json |-> "bool", bool |-> j.bool] /\ j.bool \in BOOLEAN
    BY <2>1
  <2>3. FlagRead(j) <=> j.bool
    BY <1>1 DEF FlagRead
  <2>4. j = Bool(TRUE) <=> j.bool = TRUE
    BY <2>2 DEF Bool
  <2>. QED
    BY <1>1, <2>2, <2>3, <2>4, Zenon DEF FlagRead
<1>2. CASE j.json # "bool"
  BY <1>2 DEF FlagRead, Bool
<1>. QED
  BY <1>1, <1>2

\* What the conversion of JSON makes of an extension it takes.
LEMMA JsonExtensionFacts ==
  ASSUME HoldsConverted, NEW times, NEW e \in JsonExtension(times), ReadsJsonExtension(e)
  PROVE  LET x == IntoExtension(e)
         IN  /\ Convertible(x)
             /\ Fits(x) <=> ~(/\ e.name = "basic_constraints" /\ e.ca = Bool(TRUE)
                                  /\ ~IsUnset(e.path_len) /\ e.path_len.number > I32Max)
             /\ x.id = IntId(EXT_KEY_USAGE_ID) <=> e.name = "key_usage"
             /\ e.name = "key_usage" => /\ x.value.uint = e.value.number
                                        /\ e.value.number \in Int
<1>. DEFINE x == IntoExtension(e)
            critical == FlagRead(e.critical)
<1>0. /\ e.critical \in Scalar(times) /\ e.ca \in Scalar(times) /\ e.path_len \in Scalar(times)
      /\ e.key_identifier \in Scalar(times)
      /\ e.dns_names \in JsonMember(times) /\ e.oids \in JsonMember(times)
  BY DEF JsonExtension
<1>1. critical \in BOOLEAN
  BY <1>0, FlagFacts
<1>2. e.name \in {"basic_constraints", "key_usage", "subject_alt_name", "authority_key_identifier",
                  "ext_key_usage"}
  BY DEF ReadsJsonExtension
<1>3. CASE e.name = "basic_constraints"
  <2>. DEFINE path_len == IF IsUnset(e.path_len) THEN None ELSE Some(e.path_len.number)
  <2>1. IsUnset(e.path_len) \/ e.path_len.number \in U32
    BY <1>3 DEF ReadsJsonExtension, IsNumber
  <2>2. path_len \in Option(U32)
    BY <2>1 DEF Option, Some
  <2>3. x = BasicConstraintsExt(critical, FlagRead(e.ca), path_len)
    BY <1>3 DEF IntoExtension
  <2>4. FlagRead(e.ca) \in BOOLEAN /\ (FlagRead(e.ca) <=> e.ca = Bool(TRUE))
    BY <1>0, FlagFacts
  <2>5. path_len # None <=> ~IsUnset(e.path_len)
    BY DEF Some, None
  <2>6. ~IsUnset(e.path_len) => path_len.some = e.path_len.number
    BY DEF Some
  <2>. HIDE DEF x, critical, path_len
  <2>7. /\ Convertible(x) /\ x.id # IntId(EXT_KEY_USAGE_ID)
        /\ Fits(x) <=> ~(FlagRead(e.ca) /\ path_len # None /\ path_len.some > I32Max)
    BY <1>1, <2>2, <2>3, <2>4, PathFacts
  <2>8. Fits(x) <=> ~(/\ e.ca = Bool(TRUE)
                          /\ ~IsUnset(e.path_len) /\ e.path_len.number > I32Max)
    BY <2>4, <2>5, <2>6, <2>7
  <2>. QED
    BY <1>3, <2>7, <2>8 DEF x
<1>4. CASE e.name = "key_usage"
  <2>1. e.value.number \in U32
    BY <1>4 DEF ReadsJsonExtension, IsNumber
  <2>2. x = KeyUsageExt(critical, e.value.number)
    BY <1>4 DEF IntoExtension
  <2>3. e.value.number \in Int
    BY <2>1 DEF U32
  <2>. HIDE DEF x, critical
  <2>4. /\ Convertible(x) /\ x.id = IntId(EXT_KEY_USAGE_ID)
        /\ x.value.kind = "KeyUsage" /\ x.value.uint = e.value.number
    BY <1>1, <2>1, <2>2, KeyUsageIsConvertible
  <2>. QED
    BY <1>4, <2>3, <2>4, UintFits DEF x
<1>5. CASE e.name = "subject_alt_name"
  <2>1. x = SubjectAltNameExt(critical, e.dns_names.texts)
    BY <1>5 DEF IntoExtension
  <2>2. e.dns_names.texts \in Seq(STRING)
    BY <1>0, <1>5 DEF ReadsJsonExtension, JsonMember, Scalar, Missing, Null, HexString
  <2>. HIDE DEF x, critical
  <2>3. Convertible(x) /\ Fits(x) /\ x.id # IntId(EXT_KEY_USAGE_ID)
    BY <1>1, <2>1, <2>2, OtherFacts
  <2>. QED
    BY <1>5, <2>3 DEF x
<1>6. CASE e.name = "authority_key_identifier"
  <2>1. x = AuthorityKeyIdentifierExt(critical, TolerantHexRead(e.key_identifier))
    BY <1>6 DEF IntoExtension
  <2>2. ReadsTolerantHex(e.key_identifier)
    BY <1>6 DEF ReadsJsonExtension
  <2>3. e.key_identifier \in HexString
    BY <1>0, <2>2 DEF ReadsTolerantHex, Scalar, Missing, Null
  <2>. HIDE DEF x, critical
  <2>4. Convertible(x) /\ Fits(x) /\ x.id # IntId(EXT_KEY_USAGE_ID)
    BY <1>1, <2>1, <2>2, <2>3, HexRead, OtherFacts
  <2>. QED
    BY <1>6, <2>4 DEF x
<1>7. CASE e.name = "ext_key_usage"
  <2>1. x = ExtKeyUsageExt(critical, e.oids.numbers)
    BY <1>7 DEF IntoExtension
  <2>2. /\ e.oids.numbers \in Seq(Int)
        /\ \A i \in DOMAIN e.oids.numbers : e.oids.numbers[i] \in I32
    BY <1>0, <1>7 DEF ReadsJsonExtension, JsonMember, Scalar, Missing, Null, HexString
  <2>3. e.oids.numbers \in Seq(I32)
    BY <2>2
  <2>. HIDE DEF x, critical
  <2>4. Convertible(x) /\ Fits(x) /\ x.id # IntId(EXT_KEY_USAGE_ID)
    BY <1>1, <2>1, <2>3, OtherFacts
  <2>. QED
    BY <1>7, <2>4 DEF x
<1>. QED
  BY <1>2, <1>3, <1>4, <1>5, <1>6, <1>7

-----------------------------------------------------------------------------
(* The certificates that are built                                         *)

\* The constructor of times.
LEMMA TimeTyped ==
  \A secs \in TimeMin .. TimeMax, fraction \in BOOLEAN :
    C!Time(secs, fraction) \in TimeValue /\ C!Time(secs, fraction).secs = secs
      /\ C!Time(secs, fraction) # None
BY DEF C!Time, TimeValue, None

\* The extensions that were understood and belong to the first n kinds the
\* conversion of X.509 looks for.
Sought(given, n) ==
  {i \in DOMAIN given :
     IsParsed(given[i]) /\ \E k \in 1 .. n : given[i].oid = EXTENSION_OIDS[k]}

\* The list holds what becomes of each of these, and nothing else.
Collected(list, given, n) ==
  /\ Len(list) = Cardinality(Sought(given, n))
  /\ \A j \in 1 .. Len(list) : \E i \in Sought(given, n) : list[j] = ExtensionOf(given[i])
  /\ \A i \in Sought(given, n) : /\ IsSupported(given[i].parsed)
                               /\ \E j \in 1 .. Len(list) : list[j] = ExtensionOf(given[i])

\* A path length that BasicConstraints::encode refuses.
LongPath(p) == /\ p.kind = "basicConstraints" /\ p.ca
               /\ p.path_len # None /\ p.path_len.some > I32Max

\* The converted list encodes unless a CA's path length in the file is too long.
LEMMA X509ListFacts ==
  ASSUME HoldsConverted, NEW cert \in X509Cert(TimeMin .. TimeMax), NEW list \in ExtList,
         Collected(list, cert.extensions, Len(EXTENSION_OIDS))
  PROVE  Encodes(list) <=> ~\E i \in DOMAIN cert.extensions : LongPath(cert.extensions[i].parsed)
<1>. DEFINE given == cert.extensions
<1>1. \A i \in DOMAIN given : given[i] \in X509Extension
  <2>1. given \in Seq(X509Extension)
    BY DEF X509Cert
  <2>2. \A S : \A s \in Seq(S) : \A k \in DOMAIN s : s[k] \in S
    OBVIOUS
  <2>. QED
    BY <2>1, <2>2, Zenon
<1>. HIDE DEF given
<1>2. ASSUME NEW i \in DOMAIN given, Taken(given[i])
      PROVE  /\ Convertible(ExtensionOf(given[i]))
             /\ Fits(ExtensionOf(given[i])) <=> ~LongPath(given[i].parsed)
             /\ ExtensionOf(given[i]).id = IntId(EXT_KEY_USAGE_ID)
                  => ExtensionOf(given[i]).value.uint <= I32Max
  BY <1>1, <1>2, X509ExtensionFacts, Zenon DEF LongPath
<1>3. \A j \in 1 .. Len(list) : \E i \in DOMAIN given :
        Taken(given[i]) /\ list[j] = ExtensionOf(given[i])
  BY DEF Collected, Sought, Taken, given
<1>4. \A i \in DOMAIN given : given[i].parsed.kind = "basicConstraints" =>
        Taken(given[i]) /\ \E j \in 1 .. Len(list) : list[j] = ExtensionOf(given[i])
  <2>. SUFFICES ASSUME NEW i \in DOMAIN given, given[i].parsed.kind = "basicConstraints"
                PROVE  Taken(given[i]) /\ \E j \in 1 .. Len(list) : list[j] = ExtensionOf(given[i])
    OBVIOUS
  <2>1. given[i].oid = EXTENSION_OIDS[1] /\ 1 \in 1 .. Len(EXTENSION_OIDS) /\ IsParsed(given[i])
    BY <1>1 DEF X509Extension, EXTENSION_OIDS, IsParsed
  <2>2. i \in Sought(given, Len(EXTENSION_OIDS))
    BY <2>1 DEF Sought
  <2>. QED
    BY <2>1, <2>2 DEF Collected, Taken, given
<1>5. list = [i \in 1 .. Len(list) |-> list[i]] /\ Len(list) \in Nat
  BY DEF ExtList
<1>6. \A j \in 1 .. Len(list) :
        Convertible(list[j])
          /\ (list[j].id = IntId(EXT_KEY_USAGE_ID) => list[j].value.uint <= I32Max)
  BY <1>2, <1>3
<1>7. Encodes(list) <=> \A j \in 1 .. Len(list) : Fits(list[j])
  BY <1>5, <1>6, ConvertibleLists
<1>8. (\A j \in 1 .. Len(list) : Fits(list[j]))
        <=> ~\E i \in DOMAIN given : LongPath(given[i].parsed)
  <2>1. ASSUME NEW i \in DOMAIN given, LongPath(given[i].parsed)
        PROVE  \E j \in 1 .. Len(list) : ~Fits(list[j])
    <3>1. given[i].parsed.kind = "basicConstraints"
      BY <2>1 DEF LongPath
    <3>. QED
      BY <1>2, <1>4, <2>1, <3>1
  <2>2. ASSUME NEW j \in 1 .. Len(list), ~Fits(list[j])
        PROVE  \E i \in DOMAIN given : LongPath(given[i].parsed)
    BY <1>2, <1>3, <2>2
  <2>. QED
    BY <2>1, <2>2
<1>. QED
  BY <1>7, <1>8 DEF given

\* X509Certificate, with the list as a parameter.
NotAfterRead(cert) ==
  IF cert.not_after = NO_EXPIRATION_TIMESTAMP THEN None ELSE C!Time(cert.not_after, FALSE)
Issued(cert, list) ==
  Assembled(CERTIFICATE_TYPE_DER_REENCODED, FromBytesBe(cert.serial),
            IdOf(cert.signature_algorithm, SIGNATURE_ALGORITHM_OIDS),
            C!NameOf(NameToRdn(cert.issuer)), C!Time(cert.not_before, FALSE), NotAfterRead(cert),
            NameToRdn(cert.subject), KeyAlgorithmId(cert), cert.subject_public_key, list,
            cert.signature_value)

\* ConvertFields: the certificate is one, and encodes unless it is foreseen.
LEMMA X509Facts ==
  ASSUME HoldsConverted, file \in File, file.format = "x509", ReadsX509Fields(file.cert),
         NEW list \in ExtList, Collected(list, file.cert.extensions, Len(EXTENSION_OIDS))
  PROVE  /\ Issued(file.cert, list) \in CP!Value
         /\ CP!Encodable(Issued(file.cert, list)) <=> ~CannotEncode
<1>. DEFINE cert == file.cert
            before == C!Time(cert.not_before, FALSE)
            after == NotAfterRead(cert)
            v == Issued(cert, list)
<1>1. cert \in X509Cert(TimeMin .. TimeMax)
  BY DEF File
<1>2. /\ cert.serial \in Seq(Octet) /\ cert.issuer \in X509Name /\ cert.subject \in X509Name
      /\ cert.not_before \in TimeMin .. TimeMax /\ cert.not_after \in TimeMin .. TimeMax
      /\ cert.subject_public_key \in Seq(Octet) /\ cert.signature_value \in Seq(Octet)
  BY <1>1 DEF X509Cert
<1>. HIDE DEF cert
<1>3. before \in TimeValue /\ before.secs = cert.not_before
  BY <1>2, TimeTyped
<1>4. /\ after \in {None} \cup TimeValue
      /\ (after # None => after.secs >= 0) <=> ~(cert.not_after < 0)
  <2>1. CASE cert.not_after = NO_EXPIRATION_TIMESTAMP
    BY <1>2, <2>1, TimesAssumption DEF NO_EXPIRATION_TIMESTAMP, NotAfterRead
  <2>2. CASE cert.not_after # NO_EXPIRATION_TIMESTAMP
    <3>1. after = C!Time(cert.not_after, FALSE)
      BY <2>2 DEF NotAfterRead
    <3>2. after \in TimeValue /\ after.secs = cert.not_after /\ after # None
      BY <1>2, <3>1, TimeTyped
    <3>. HIDE DEF after
    <3>3. cert.not_after \in Int
      BY <1>2, TimesAssumption
    <3>. QED
      BY <3>2, <3>3
  <2>. QED
    BY <2>1, <2>2
<1>5. /\ IdOf(cert.signature_algorithm, SIGNATURE_ALGORITHM_OIDS) \in I32
      /\ KeyAlgorithmId(cert) \in I32
  BY Tables DEF ReadsX509Fields, ReadsKeyAlgorithm, KeyAlgorithmId, cert
<1>6. NameToRdn(cert.issuer) \in NameList /\ NameToRdn(cert.subject) \in NameList
  BY <1>2, X509NameTyped DEF ReadsX509Fields, cert
<1>7. C!NameOf(NameToRdn(cert.issuer)) \in {None} \cup NameValue
  BY <1>6, FieldTypes
<1>8. FromBytesBe(cert.serial) \in BigUint /\ CERTIFICATE_TYPE_DER_REENCODED \in I32
  BY <1>2, Digits, RegistryAssumption, IntAssumption DEF CERTIFICATE_TYPE_DER_REENCODED, I32
<1>9. v = Assembled(CERTIFICATE_TYPE_DER_REENCODED, FromBytesBe(cert.serial),
                    IdOf(cert.signature_algorithm, SIGNATURE_ALGORITHM_OIDS),
                    C!NameOf(NameToRdn(cert.issuer)), before, after, NameToRdn(cert.subject),
                    KeyAlgorithmId(cert), cert.subject_public_key, list, cert.signature_value)
  BY DEF Issued
<1>. HIDE DEF before, after, v
<1>10. /\ v \in CP!Value
       /\ CP!Encodable(v) <=> /\ before.secs >= 0
                              /\ after # None => after.secs >= 0
                              /\ Encodes(list)
  BY <1>2, <1>3, <1>4, <1>5, <1>6, <1>7, <1>8, <1>9, AssembledFacts, Zenon
<1>11. Encodes(list) <=> ~\E i \in DOMAIN cert.extensions : LongPath(cert.extensions[i].parsed)
  BY <1>1, X509ListFacts DEF cert
<1>12. CannotEncode <=> \/ cert.not_before < 0 \/ cert.not_after < 0
                        \/ \E i \in DOMAIN cert.extensions : LongPath(cert.extensions[i].parsed)
  BY DEF CannotEncode, LongPath, cert
<1>13. before.secs >= 0 <=> ~(cert.not_before < 0)
  <2>1. cert.not_before \in Int
    BY <1>2, TimesAssumption
  <2>. QED
    BY <1>3, <2>1
<1>14. CP!Encodable(v) <=> ~CannotEncode
  BY <1>4, <1>10, <1>11, <1>12, <1>13
<1>. QED
  BY <1>10, <1>14 DEF v, cert

\* A date of a document.
LEMMA JsonTimeTyped ==
  ASSUME NEW j \in Scalar(TimeMin .. TimeMax), ReadsDate(j)
  PROVE  /\ j.secs \in TimeMin .. TimeMax /\ j.fraction \in BOOLEAN
         /\ ~IsUnset(j)
         /\ TimeRead(j) \in TimeValue /\ TimeRead(j).secs = j.secs /\ TimeRead(j) # None
<1>1. j.secs \in TimeMin .. TimeMax /\ j.fraction \in BOOLEAN
  BY DEF ReadsDate, Scalar, Missing, Null, HexString
<1>2. ~IsUnset(j)
  BY DEF ReadsDate, IsUnset, Missing, Null
<1>3. TimeRead(j) = C!Time(j.secs, j.fraction)
  BY <1>2 DEF TimeRead
<1>. QED
  BY <1>1, <1>2, <1>3, TimeTyped

\* IntoCertificate: the extensions of the document.
IntoList(doc) == [i \in DOMAIN Listed(doc) |-> IntoExtension(Listed(doc)[i])]

JsonLongPath(e) ==
  /\ e.name = "basic_constraints" /\ e.ca = Bool(TRUE)
  /\ ~IsUnset(e.path_len) /\ e.path_len.number > I32Max

\* The extensions of a document that is taken.
LEMMA ListedTyped ==
  ASSUME NEW doc \in JsonCertificate(TimeMin .. TimeMax), ReadsDocument(doc)
  PROVE  /\ Listed(doc) \in Seq(JsonExtension(TimeMin .. TimeMax))
         /\ \A i \in DOMAIN Listed(doc) : /\ Listed(doc)[i] \in JsonExtension(TimeMin .. TimeMax)
                                         /\ ReadsJsonExtension(Listed(doc)[i])
<1>. DEFINE given == Listed(doc)
            E == JsonExtension(TimeMin .. TimeMax)
<1>1. given \in Seq(E)
  <2>1. doc.extensions \in {Missing, Null} \cup [json : {"list"}, list : Seq(E)]
    BY DEF JsonCertificate
  <2>2. doc.extensions.json \in {"missing", "list"}
    BY DEF ReadsDocument
  <2>3. CASE doc.extensions = Missing
    <3>1. given = <<>>
      BY <2>3 DEF Listed
    <3>2. \A S : <<>> \in Seq(S)
      OBVIOUS
    <3>. QED
      BY <3>1, <3>2, Zenon
  <2>4. CASE doc.extensions # Missing
    <3>1. given = doc.extensions.list
      BY <2>4 DEF Listed
    <3>. HIDE DEF E, given
    <3>. QED
      BY <2>1, <2>2, <2>4, <3>1 DEF Missing, Null
  <2>. QED
    BY <2>3, <2>4
<1>2. \A i \in DOMAIN given : given[i] \in E
  <2>1. \A S : \A s \in Seq(S) : \A k \in DOMAIN s : s[k] \in S
    OBVIOUS
  <2>. QED
    BY <1>1, <2>1, Zenon
<1>3. \A i \in DOMAIN given : ReadsJsonExtension(given[i])
  BY DEF ReadsDocument
<1>. QED
  BY <1>1, <1>2, <1>3

\* The list of a document encodes unless a CA's path length is too long or its
\* only extension is a KeyUsage beyond i32.
LEMMA JsonListFacts ==
  ASSUME HoldsConverted, NEW doc \in JsonCertificate(TimeMin .. TimeMax), ReadsDocument(doc)
  PROVE  /\ IntoList(doc) \in ExtList
         /\ Encodes(IntoList(doc)) <=>
              ~(\/ \E i \in DOMAIN Listed(doc) : JsonLongPath(Listed(doc)[i])
                \/ /\ Len(Listed(doc)) = 1 /\ Listed(doc)[1].name = "key_usage"
                   /\ Listed(doc)[1].value.number > I32Max)
<1>. DEFINE given == Listed(doc)
            list == IntoList(doc)
            E == JsonExtension(TimeMin .. TimeMax)
<1>1. given \in Seq(E)
  BY ListedTyped
<1>2. \A i \in DOMAIN given : given[i] \in E
  BY ListedTyped
<1>3. \A i \in DOMAIN given : ReadsJsonExtension(given[i])
  BY ListedTyped
<1>4. list = [i \in DOMAIN given |-> IntoExtension(given[i])]
  BY DEF IntoList
<1>. HIDE DEF list, given
<1>5. /\ Len(given) \in Nat /\ DOMAIN given = 1 .. Len(given)
      /\ Len(list) = Len(given)
      /\ list = [i \in 1 .. Len(list) |-> list[i]]
      /\ \A i \in 1 .. Len(given) : list[i] = IntoExtension(given[i])
  <2>. HIDE DEF E
  <2>1. Len(given) \in Nat /\ DOMAIN given = 1 .. Len(given)
    BY <1>1
  <2>2. list = [i \in 1 .. Len(given) |-> IntoExtension(given[i])]
    BY <1>4, <2>1
  <2>3. Len(list) = Len(given)
    BY <2>1, <2>2
  <2>. QED
    BY <2>1, <2>2, <2>3
<1>6. ASSUME NEW i \in 1 .. Len(given)
      PROVE  /\ Convertible(list[i])
             /\ Fits(list[i]) <=> ~JsonLongPath(given[i])
             /\ list[i].id = IntId(EXT_KEY_USAGE_ID) <=> given[i].name = "key_usage"
             /\ given[i].name = "key_usage" => /\ list[i].value.uint = given[i].value.number
                                               /\ given[i].value.number \in Int
  <2>1. list[i] = IntoExtension(given[i]) /\ given[i] \in E /\ ReadsJsonExtension(given[i])
    BY <1>2, <1>3, <1>5
  <2>. QED
    BY <2>1, JsonExtensionFacts, Zenon DEF JsonLongPath
<1>7. /\ list \in ExtList
      /\ Encodes(list) <=>
              /\ \A i \in 1 .. Len(given) : Fits(list[i])
              /\ Len(given) = 1 /\ list[1].id = IntId(EXT_KEY_USAGE_ID)
                   => list[1].value.uint <= I32Max
  BY <1>5, <1>6, ConvertibleLists
<1>8. (\A i \in 1 .. Len(given) : Fits(list[i]))
        <=> ~\E i \in DOMAIN given : JsonLongPath(given[i])
  BY <1>5, <1>6
<1>9. (Len(given) = 1 /\ list[1].id = IntId(EXT_KEY_USAGE_ID) => list[1].value.uint <= I32Max)
        <=> ~(/\ Len(given) = 1 /\ given[1].name = "key_usage"
              /\ given[1].value.number > I32Max)
  <2>1. CASE Len(given) = 1
    <3>1. /\ list[1].id = IntId(EXT_KEY_USAGE_ID) <=> given[1].name = "key_usage"
          /\ given[1].name = "key_usage" => /\ list[1].value.uint = given[1].value.number
                                            /\ given[1].value.number \in Int
      BY <1>6, <2>1
    <3>2. \A n \in Int : n <= I32Max <=> ~(n > I32Max)
      BY IntAssumption
    <3>. QED
      BY <2>1, <3>1, <3>2
  <2>2. CASE Len(given) # 1
    BY <2>2
  <2>. QED
    BY <2>1, <2>2
<1>. QED
  BY <1>7, <1>8, <1>9 DEF list, given

\* FromJson: the certificate is one, and encodes unless it is foreseen.
LEMMA JsonFacts ==
  ASSUME HoldsConverted, file \in File, file.format = "json", ReadsDocument(file.doc)
  PROVE  /\ IntoCertificate(file.doc) \in CP!Value
         /\ CP!Encodable(IntoCertificate(file.doc)) <=> ~CannotEncode
<1>. DEFINE doc == file.doc
            issuer == IF IsUnset(doc.issuer) THEN None ELSE C!NameOf(IntoName(doc.issuer))
            before == TimeRead(doc.validity_not_before)
            after == TimeRead(doc.validity_not_after)
            list == IntoList(doc)
            v == IntoCertificate(doc)
            S == Scalar(TimeMin .. TimeMax)
<1>1. doc \in JsonCertificate(TimeMin .. TimeMax)
  BY DEF File
<1>. HIDE DEF doc, S
<1>2. /\ doc.serial_number \in S /\ doc.issuer \in JsonMember(TimeMin .. TimeMax)
      /\ doc.validity_not_before \in S /\ doc.validity_not_after \in S
      /\ doc.subject \in JsonMember(TimeMin .. TimeMax)
      /\ doc.subject_public_key \in S /\ doc.issuer_signature_value \in S
  BY <1>1 DEF JsonCertificate, S
<1>3. /\ doc.certificate_type.number \in I32
      /\ doc.issuer_signature_algorithm.number \in I32
      /\ doc.subject_public_key_algorithm.number \in I32
  BY DEF ReadsDocument, IsNumber, doc
<1>4. /\ TolerantHexRead(doc.serial_number) \in Seq(Octet)
      /\ TolerantHexRead(doc.subject_public_key) \in Seq(Octet)
      /\ TolerantHexRead(doc.issuer_signature_value) \in Seq(Octet)
  <2>1. ASSUME NEW j \in S, ReadsTolerantHex(j) PROVE TolerantHexRead(j) \in Seq(Octet)
    <3>1. j \in HexString
      BY <2>1 DEF ReadsTolerantHex, Scalar, Missing, Null, S
    <3>. QED
      BY <2>1, <3>1, HexRead
  <2>2. /\ ReadsTolerantHex(doc.serial_number) /\ ReadsTolerantHex(doc.subject_public_key)
        /\ ReadsTolerantHex(doc.issuer_signature_value)
    BY DEF ReadsDocument, doc
  <2>. QED
    BY <1>2, <2>1, <2>2
<1>5. FromBytesBe(TolerantHexRead(doc.serial_number)) \in BigUint
  BY <1>4, Digits
<1>6. issuer \in {None} \cup NameValue /\ IntoName(doc.subject) \in NameList
  <2>1. IsUnset(doc.issuer) \/ ReadsJsonName(doc.issuer)
    BY DEF ReadsDocument, doc
  <2>2. ReadsJsonName(doc.subject)
    BY DEF ReadsDocument, doc
  <2>3. ReadsJsonName(doc.issuer) => C!NameOf(IntoName(doc.issuer)) \in NameValue
    BY <1>2, JsonNameTyped, FieldTypes
  <2>. QED
    BY <1>2, <2>1, <2>2, <2>3, JsonNameTyped
<1>7. /\ before \in TimeValue
      /\ before.secs >= 0 <=> ~(doc.validity_not_before.secs < 0)
  <2>1. ReadsDate(doc.validity_not_before)
    BY DEF ReadsDocument, doc
  <2>2. /\ before \in TimeValue /\ before.secs = doc.validity_not_before.secs
        /\ doc.validity_not_before.secs \in TimeMin .. TimeMax
    BY <1>2, <2>1, JsonTimeTyped DEF S
  <2>. HIDE DEF before
  <2>3. \A n \in TimeMin .. TimeMax : n >= 0 <=> ~(n < 0)
    BY TimesAssumption
  <2>. QED
    BY <2>2, <2>3
<1>8. /\ after \in {None} \cup TimeValue
      /\ (after # None => after.secs >= 0)
           <=> ~(~IsUnset(doc.validity_not_after) /\ doc.validity_not_after.secs < 0)
  <2>1. CASE IsUnset(doc.validity_not_after)
    BY <2>1 DEF TimeRead
  <2>2. CASE ~IsUnset(doc.validity_not_after)
    <3>1. ReadsDate(doc.validity_not_after)
      BY <2>2 DEF ReadsDocument, doc
    <3>2. /\ after \in TimeValue /\ after.secs = doc.validity_not_after.secs /\ after # None
          /\ doc.validity_not_after.secs \in TimeMin .. TimeMax
      BY <1>2, <3>1, JsonTimeTyped DEF S
    <3>. HIDE DEF after
    <3>3. \A n \in TimeMin .. TimeMax : n >= 0 <=> ~(n < 0)
      BY TimesAssumption
    <3>. QED
      BY <2>2, <3>2, <3>3
  <2>. QED
    BY <2>1, <2>2
<1>9. /\ list \in ExtList
      /\ Encodes(list) <=>
              ~(\/ \E i \in DOMAIN Listed(doc) : JsonLongPath(Listed(doc)[i])
                \/ /\ Len(Listed(doc)) = 1 /\ Listed(doc)[1].name = "key_usage"
                   /\ Listed(doc)[1].value.number > I32Max)
  BY <1>1, JsonListFacts DEF doc
<1>10. v = Assembled(doc.certificate_type.number, FromBytesBe(TolerantHexRead(doc.serial_number)),
                     doc.issuer_signature_algorithm.number, issuer, before, after,
                     IntoName(doc.subject), doc.subject_public_key_algorithm.number,
                     TolerantHexRead(doc.subject_public_key), list,
                     TolerantHexRead(doc.issuer_signature_value))
  BY DEF IntoCertificate, Assembled, IntoList
<1>. HIDE DEF issuer, before, after, list, v
<1>11. /\ v \in CP!Value
       /\ CP!Encodable(v) <=> /\ before.secs >= 0
                              /\ after # None => after.secs >= 0
                              /\ Encodes(list)
  <2>. DEFINE type == doc.certificate_type.number
              serial == FromBytesBe(TolerantHexRead(doc.serial_number))
              algorithm == doc.issuer_signature_algorithm.number
              subject == IntoName(doc.subject)
              key_algorithm == doc.subject_public_key_algorithm.number
              key == TolerantHexRead(doc.subject_public_key)
              signature == TolerantHexRead(doc.issuer_signature_value)
  <2>1. /\ type \in I32 /\ serial \in BigUint /\ algorithm \in I32
        /\ issuer \in {None} \cup NameValue /\ before \in TimeValue
        /\ after \in {None} \cup TimeValue /\ subject \in NameList
        /\ key_algorithm \in I32 /\ key \in Seq(Octet) /\ list \in ExtList
        /\ signature \in Seq(Octet)
    BY <1>3, <1>4, <1>5, <1>6, <1>7, <1>8, <1>9
  <2>2. v = Assembled(type, serial, algorithm, issuer, before, after, subject,
                      key_algorithm, key, list, signature)
    BY <1>10
  <2>. HIDE DEF type, serial, algorithm, subject, key_algorithm, key, signature
  <2>. QED
    BY <2>1, <2>2, AssembledFacts, Zenon
<1>12. CannotEncode <=> \/ doc.validity_not_before.secs < 0
                        \/ ~IsUnset(doc.validity_not_after) /\ doc.validity_not_after.secs < 0
                        \/ \E i \in DOMAIN Listed(doc) : JsonLongPath(Listed(doc)[i])
                        \/ /\ Len(Listed(doc)) = 1 /\ Listed(doc)[1].name = "key_usage"
                           /\ Listed(doc)[1].value.number > I32Max
  BY DEF CannotEncode, JsonLongPath, doc
<1>13. CP!Encodable(v) <=> ~CannotEncode
  BY <1>7, <1>8, <1>9, <1>11, <1>12, Zenon
<1>. QED
  BY <1>11, <1>13 DEF v, doc

\* What a file is converted to.
ConvertedFrom(f, cert) ==
  \/ f.format = "json" /\ ReadsDocument(f.doc) /\ cert = IntoCertificate(f.doc)
  \/ /\ f.format = "x509" /\ ReadsX509Fields(f.cert)
     /\ \E list \in ExtList : /\ Collected(list, f.cert.extensions, Len(EXTENSION_OIDS))
                             /\ cert = Issued(f.cert, list)

-----------------------------------------------------------------------------
(* The invariant                                                           *)

\* The calls of RunAgain.
OwnCalls == {<<>>, <<Own>>, <<"--sequence", Own>>}

\* The library is between two steps of a session of its own.
LibraryInv == CP!DataTypeOK /\ CP!EncoderInv /\ CP!DecoderInv /\ CP!HeldInv

\* Before the library is called, it holds nothing.
ControlInv ==
  /\ pc \in CP!Calls \cup {"main", "x509"}
  /\ pc \in {"main", "x509"} => value = CP!NoValue /\ wire = CP!NoWire

\* convert_certificate: `extensions' is what becomes of those it looked for.
LoopInv ==
  pc = "x509" => /\ file.format = "x509" /\ printed = NoOutput
                 /\ Collected(exts, file.cert.extensions, tried)

\* What is being encoded is what the file is converted to, and encodes unless
\* the file is foreseen not to.
EncodedInv ==
  /\ Running /\ pc \in {"encode", "encoding"} =>
       /\ value \in CP!Value /\ ConvertedFrom(file, value)
       /\ CP!Encodable(value) <=> ~CannotEncode
  /\ status = "panicked" => IF pc = "main" THEN Contains(args, NotText) \/ LacksText
                                            ELSE CannotEncode

\* What was printed are the bytes of a certificate the file is converted to, and
\* what is shown is read from them; from then on the program runs on them only,
\* or has ended well.
PrintedInv ==
  /\ printed \in Seq(CP!Token)
  /\ printed # NoOutput =>
       /\ ~CannotEncode
       /\ \E cert \in CP!Value : /\ ConvertedFrom(file, cert) /\ CP!WrittenAsAll(printed, cert)
                               /\ shown \in {CP!NoValue, CP!Arriving(cert)}
       /\ status # "ok" => /\ Running /\ args \in OwnCalls /\ stdin = Own
                           /\ \/ pc = "main"
                              \/ pc \in {"decode", "decoding"} /\ wire = printed
                           /\ pc = "decoding" => decoder = "decode_certificate"

\* Nothing is shown while the program runs.
ShownInv == Running => shown = CP!NoValue

ProgramInv ==
  /\ TypeOK /\ file \in File
  /\ LibraryInv /\ ControlInv /\ LoopInv /\ EncodedInv /\ PrintedInv /\ ShownInv

-----------------------------------------------------------------------------
(* The parts                                                               *)

\* The arguments of a second run are no option but --sequence.
LEMMA OwnCallFacts ==
  ASSUME args \in OwnCalls, stdin = Own
  PROVE  /\ ~WantsHelp /\ ~WantsJson /\ ~WantsX509 /\ HexArgument = Own
         /\ ~Contains(args, NotText) /\ ~LacksText
<1>1. WithoutFlag \in {<<>>, <<Own>>}
  <2>1. CASE args = <<>>
    BY <2>1 DEF WithoutFlag, RemoveFirst
  <2>2. CASE args = <<Own>>
    <3>1. ~\E i \in 1 .. Len(args) : args[i] = "--sequence"
      BY <2>2 DEF Own
    <3>. QED
      BY <2>2, <3>1 DEF WithoutFlag, RemoveFirst
  <2>3. CASE args = <<"--sequence", Own>>
    <3>. DEFINE S == {i \in 1 .. Len(args) : args[i] = "--sequence"}
    <3>1. S = {1}
      BY <2>3 DEF Own
    <3>2. Min({1}) = 1
      BY DEF Min
    <3>3. SelectInSeq(args, LAMBDA v : v = "--sequence") = 1
      BY <3>1, <3>2 DEF SelectInSeq
    <3>4. \E i \in 1 .. Len(args) : args[i] = "--sequence"
      BY <3>1
    <3>5. WithoutFlag = RemoveAt(args, 1)
      BY <3>3, <3>4 DEF WithoutFlag, RemoveFirst
    <3>6. RemoveAt(<<"--sequence", Own>>, 1) = <<Own>>
      <4>. DEFINE s == <<"--sequence", Own>>
      <4>1. RemoveAt(s, 1) = SubSeq(s, 1, 0) \o SubSeq(s, 2, Len(s))
        BY DEF RemoveAt
      <4>2. Len(s) = 2 /\ s[2] = Own
        OBVIOUS
      <4>3. s \in Seq({"--sequence", Own})
        <5>1. \A T : \A x, y \in T : <<x, y>> \in Seq(T)
          OBVIOUS
        <5>. QED
          BY <5>1, Zenon
      <4>. HIDE DEF s
      <4>5. SubSeq(s, 1, 0) = <<>>
        BY <4>2, <4>3
      <4>6. SubSeq(s, 2, 2) = <<Own>>
        <5>. DEFINE t == SubSeq(s, 2, 2)
        <5>1. t \in Seq({"--sequence", Own}) /\ Len(t) = 1 /\ t[1] = Own
          BY <4>2, <4>3
        <5>. HIDE DEF t
        <5>2. \A x \in Seq({"--sequence", Own}) : Len(x) = 1 => x = <<x[1]>>
          OBVIOUS
        <5>. QED
          BY <5>1, <5>2 DEF t
      <4>4. \A x : <<>> \o <<x>> = <<x>>
        OBVIOUS
      <4>. QED
        BY <4>1, <4>2, <4>4, <4>5, <4>6 DEF s
    <3>. QED
      BY <2>3, <3>5, <3>6
  <2>. QED
    BY <2>1, <2>2, <2>3 DEF OwnCalls
<1>2. \A option \in {"--from-json", "--from-x509"} : ~Contains(WithoutFlag, option)
  BY <1>1 DEF Contains, Own
<1>3. ~Contains(args, "--help") /\ ~Contains(args, "-h")
  BY DEF Contains, Own, OwnCalls
<1>4. HexArgument = Own
  BY <1>1 DEF HexArgument
<1>5. ~Contains(args, NotText)
  <2>1. NotText \notin {"--sequence", Own}
    BY DEF Own, NotText
  <2>2. \A i \in 1 .. Len(args) : args[i] \in {"--sequence", Own}
    BY DEF OwnCalls
  <2>. QED
    BY <2>1, <2>2 DEF Contains
<1>6. ~LacksText
  BY DEF LacksText, Own, NotText
<1>. QED
  BY <1>2, <1>3, <1>4, <1>5, <1>6 DEF WantsHelp, WantsJson, WantsX509, Wants

\* During the calls of the library the invariant is that of Certificate.
LEMMA LibraryMeans == LibraryInv /\ pc \in CP!Calls <=> CP!IInv
BY DEF LibraryInv, CP!IInv, CP!TypeOK

\* Nothing of the library changes.
LEMMA LibraryKept ==
  ASSUME LibraryInv, ControlInv, UNCHANGED library
  PROVE  LibraryInv' /\ ControlInv'
<1>0. UNCHANGED <<pc, value, wire, items, rest, fields, decoder>>
  BY DEF library
<1>1. CASE pc \in CP!Calls
  <2>1. UNCHANGED CP!vars
    BY <1>0 DEF CP!vars
  <2>2. CP!IInv'
    BY <1>1, <2>1, LibraryMeans, LibraryStep
  <2>3. LibraryInv'
    BY <2>2 DEF LibraryInv, CP!IInv, CP!TypeOK
  <2>. QED
    BY <1>0, <2>3 DEF ControlInv
<1>2. CASE pc \in {"main", "x509"}
  <2>1. CP!DataTypeOK'
    BY <1>0 DEF LibraryInv, CP!DataTypeOK
  <2>2. CP!EncoderInv' /\ CP!DecoderInv'
    BY <1>0, <1>2 DEF CP!EncoderInv, CP!DecoderInv
  <2>3. CP!HeldInv'
    BY <1>0 DEF LibraryInv, CP!HeldInv
  <2>. QED
    BY <1>0, <2>1, <2>2, <2>3 DEF LibraryInv, ControlInv
<1>. QED
  BY <1>1, <1>2 DEF ControlInv

\* A call of the program that begins another step of a session.
LEMMA LibraryBegins ==
  ASSUME LibraryInv, pc' \in {"main", "x509", "encode", "decode"},
         value' \in CP!Value \cup {CP!NoValue}, wire' \in Seq(CP!Token),
         value' # CP!NoValue => wire' = CP!NoWire /\ pc' = "encode",
         pc' = "encode" => value' # CP!NoValue,
         pc' \in {"main", "x509"} => wire' = CP!NoWire,
         \/ UNCHANGED <<items, rest, fields, decoder>>
         \/ items' = <<>> /\ rest' = <<>> /\ fields' = <<>> /\ decoder' = "none"
  PROVE  LibraryInv' /\ ControlInv'
<1>1. CP!DataTypeOK'
  <2>1. CASE UNCHANGED <<items, rest, fields, decoder>>
    BY <2>1 DEF LibraryInv, CP!DataTypeOK
  <2>2. CASE items' = <<>> /\ rest' = <<>> /\ fields' = <<>> /\ decoder' = "none"
    <3>1. <<>> \in Seq(CP!Token) /\ DOMAIN fields' = {}
      BY <2>2
    <3>. QED
      BY <2>2, <3>1 DEF CP!DataTypeOK
  <2>. QED
    BY <2>1, <2>2
<1>2. CP!EncoderInv' /\ CP!DecoderInv'
  BY DEF CP!EncoderInv, CP!DecoderInv
<1>3. CP!HeldInv'
  BY DEF CP!HeldInv
<1>4. ControlInv'
  BY DEF ControlInv, CP!Calls
<1>. QED
  BY <1>1, <1>2, <1>3, <1>4 DEF LibraryInv

\* The file decides which certificates cannot be encoded.
LEMMA CannotEncodeKept == file' = file => (CannotEncode' <=> CannotEncode)
BY DEF CannotEncode

\* The actions of the library that the program takes.
LEMMA LibraryCalls ==
  ASSUME StartEncode \/ EncodeField \/ Panic \/ PrintHex \/ Decode \/ DecodeField
           \/ RefuseField \/ PrintFields
  PROVE  CP!Next /\ pc \in CP!Calls /\ Running
<1>1. CASE StartEncode
  <2>. DEFINE form == IF sequence THEN "sequence" ELSE "array"
  <2>1. CP!StartEncode(form) /\ form \in CP!Forms /\ Running
    BY <1>1, SameStart, Zenon DEF StartEncode, CP!Forms
  <2>2. pc = "encode"
    BY <2>1 DEF CP!StartEncode
  <2>. QED
    BY <2>1, <2>2 DEF CP!Next, CP!Calls
<1>2. CASE EncodeField
  <2>1. CP!EncodeField /\ Running
    BY <1>2, SameEncode DEF EncodeField
  <2>. QED
    BY <2>1 DEF CP!Next, CP!Calls, CP!EncodeField, CP!Encoding
<1>3. CASE Panic
  <2>1. CP!Panic /\ Running
    BY <1>3, SamePanic DEF Panic
  <2>. QED
    BY <2>1 DEF CP!Next, CP!Calls, CP!Panic, CP!Encoding
<1>4. CASE PrintHex
  <2>1. CP!EncodeEnd /\ Running
    BY <1>4, SameEncodeEnd DEF PrintHex
  <2>. QED
    BY <2>1 DEF CP!Next, CP!Calls, CP!EncodeEnd
<1>5. CASE Decode
  <2>1. CP!DecodeCertificate /\ Running /\ pc = "decode"
    BY <1>5, SameDecode DEF Decode
  <2>. QED
    BY <2>1 DEF CP!Next, CP!Calls
<1>6. CASE DecodeField
  <2>1. CP!DecodeField /\ Running
    BY <1>6, SameDecodeField DEF DecodeField
  <2>. QED
    BY <2>1 DEF CP!Next, CP!Calls, CP!DecodeField, CP!Decoding
<1>7. CASE RefuseField
  <2>1. CP!RefuseField /\ Running
    BY <1>7, SameRefuseField DEF RefuseField
  <2>. QED
    BY <2>1 DEF CP!Next, CP!Calls, CP!RefuseField, CP!Decoding
<1>8. CASE PrintFields
  <2>1. CP!DecodeEnd /\ Running
    BY <1>8, SameDecodeEnd DEF PrintFields
  <2>. QED
    BY <2>1 DEF CP!Next, CP!Calls, CP!DecodeEnd
<1>. QED
  BY <1>1, <1>2, <1>3, <1>4, <1>5, <1>6, <1>7, <1>8

-----------------------------------------------------------------------------
(* The invariant, action by action                                         *)

\* The program starts in the invariant.
LEMMA InitProgramInv == Init => ProgramInv
<1>. SUFFICES ASSUME Init PROVE ProgramInv
  OBVIOUS
<1>1. /\ status = "running" /\ sequence = FALSE /\ file \in Files
      /\ tried = 0 /\ exts = <<>> /\ printed = NoOutput /\ shown = C!NoValue
      /\ pc = "main" /\ value = C!NoValue /\ wire = C!NoWire
      /\ items = <<>> /\ rest = <<>> /\ fields = <<>> /\ decoder = "none"
  BY DEF Init
<1>2. value = CP!NoValue /\ shown = CP!NoValue /\ wire = CP!NoWire /\ DOMAIN fields = {}
  BY <1>1, SameSets
<1>3. <<>> \in Seq(CP!Token) /\ exts \in ExtList
  BY <1>1 DEF ExtList
<1>4. TypeOK
  <2>1. tried \in 0 .. Len(EXTENSION_OIDS)
    BY <1>1 DEF EXTENSION_OIDS
  <2>2. sequence \in BOOLEAN
    BY <1>1
  <2>3. DOMAIN fields \subseteq C!FieldNames
    BY <1>2
  <2>4. value \in C!Value \cup {C!NoValue} /\ shown \in C!Value \cup {C!NoValue}
    BY <1>1
  <2>5. status \in {"running", "ok", "failed", "panicked"}
    BY <1>1
  <2>. QED
    BY <1>3, <2>1, <2>2, <2>3, <2>4, <2>5 DEF TypeOK
<1>5. file \in File
  BY <1>1, FilesAssumption
<1>6. LibraryInv
  <2>1. CP!DataTypeOK
    BY <1>1, <1>2, <1>3 DEF CP!DataTypeOK, CP!NoWire
  <2>2. CP!EncoderInv /\ CP!DecoderInv /\ CP!HeldInv
    BY <1>1, <1>2 DEF CP!EncoderInv, CP!DecoderInv, CP!HeldInv
  <2>. QED
    BY <2>1, <2>2 DEF LibraryInv
<1>7. ControlInv /\ LoopInv /\ EncodedInv /\ ShownInv
  BY <1>1, <1>2 DEF ControlInv, LoopInv, EncodedInv, ShownInv
<1>8. PrintedInv
  BY <1>1, <1>3 DEF PrintedInv, NoOutput
<1>. QED
  BY <1>4, <1>5, <1>6, <1>7, <1>8 DEF ProgramInv

\* A call that converts, or refuses its arguments, is a first call.
LEMMA FirstCall ==
  ASSUME ProgramInv, Running,
         \/ WantsJson \/ WantsX509
         \/ WantsHex /\ ~ReadsHexArgument
         \/ pc = "main" /\ (Contains(args, NotText) \/ LacksText)
         \/ pc \in {"x509", "encode", "encoding"}
  PROVE  printed = NoOutput
<1>1. CASE pc \in {"x509", "encode", "encoding"}
  BY <1>1 DEF ProgramInv, PrintedInv, Running
<1>2. CASE args \in OwnCalls /\ stdin = Own
  <2>1. /\ ~WantsJson /\ ~WantsX509 /\ HexArgument = Own
        /\ ~Contains(args, NotText) /\ ~LacksText
    BY <1>2, OwnCallFacts
  <2>2. ReadsHexArgument
    BY <2>1 DEF ReadsHexArgument
  <2>. QED
    BY <1>1, <2>1, <2>2
<1>3. CASE ~(args \in OwnCalls /\ stdin = Own)
  BY <1>3 DEF ProgramInv, PrintedInv, Running
<1>. QED
  BY <1>1, <1>2, <1>3

\* The program ends without a call of the library.
LEMMA ExitStep ==
  ASSUME ProgramInv, UNCHANGED <<main, library>>,
         status' \in {"ok", "failed", "panicked"}, status' # "ok" => printed = NoOutput,
         status' = "panicked" => pc = "main" /\ (Contains(args, NotText) \/ LacksText)
  PROVE  ProgramInv'
<1>1. UNCHANGED <<args, stdin, sequence, file, tried, exts, printed, shown>>
  BY DEF main
<1>2. UNCHANGED <<pc, value, wire, items, rest, fields, decoder>>
  BY DEF library
<1>3. LibraryInv' /\ ControlInv'
  BY LibraryKept DEF ProgramInv
<1>4. TypeOK' /\ file' \in File
  BY <1>1, <1>2 DEF ProgramInv, TypeOK
<1>5. LoopInv'
  BY <1>1, <1>2 DEF ProgramInv, LoopInv
<1>6. EncodedInv' /\ ShownInv'
  BY <1>1, <1>2 DEF EncodedInv, ShownInv, Running, LacksText, WithoutFlag
<1>7. PrintedInv'
  BY <1>1, CannotEncodeKept DEF ProgramInv, PrintedInv
<1>. QED
  BY <1>3, <1>4, <1>5, <1>6, <1>7 DEF ProgramInv

\* The ends without a call of the library.
LEMMA ExitSteps ==
  ASSUME ProgramInv,
         \/ Help \/ RefuseJson \/ RefuseX509 \/ RefuseExtension \/ RefuseFields \/ RefuseHex
         \/ PanicArgs \/ PanicStdin
  PROVE  ProgramInv'
<1>1. CASE Help
  BY <1>1, ExitStep DEF Help, Exit
<1>2. CASE RefuseJson
  <2>1. printed = NoOutput
    BY <1>2, FirstCall DEF RefuseJson, WantsJson, Wants, AtMain
  <2>. QED
    BY <1>2, <2>1, ExitStep DEF RefuseJson, Exit
<1>3. CASE RefuseX509
  <2>1. printed = NoOutput
    BY <1>3, FirstCall DEF RefuseX509, WantsX509, Wants, AtMain
  <2>. QED
    BY <1>3, <2>1, ExitStep DEF RefuseX509, Exit
<1>4. CASE RefuseExtension
  <2>1. printed = NoOutput
    BY <1>4, FirstCall DEF RefuseExtension, Looking
  <2>. QED
    BY <1>4, <2>1, ExitStep DEF RefuseExtension, Exit
<1>5. CASE RefuseFields
  <2>1. printed = NoOutput
    BY <1>5, FirstCall DEF RefuseFields, Gathered
  <2>. QED
    BY <1>5, <2>1, ExitStep DEF RefuseFields, Exit
<1>6. CASE RefuseHex
  <2>1. printed = NoOutput
    BY <1>6, FirstCall DEF RefuseHex, WantsHex, AtMain
  <2>. QED
    BY <1>6, <2>1, ExitStep DEF RefuseHex, Exit
<1>7. CASE PanicArgs
  <2>1. printed = NoOutput
    BY <1>7, FirstCall DEF PanicArgs
  <2>. QED
    BY <1>7, <2>1, ExitStep DEF PanicArgs, Exit
<1>8. CASE PanicStdin
  <2>1. pc = "main" /\ Running
    BY <1>8 DEF PanicStdin, WantsHex, AtMain
  <2>2. printed = NoOutput
    BY <1>8, <2>1, FirstCall DEF PanicStdin
  <2>. QED
    BY <1>8, <2>1, <2>2, ExitStep DEF PanicStdin, Exit
<1>. QED
  BY <1>1, <1>2, <1>3, <1>4, <1>5, <1>6, <1>7, <1>8

\* A conversion ends in a certificate that encodes unless it is foreseen.
LEMMA ConvertsStep ==
  ASSUME ProgramInv, NEW cert \in CP!Value, ConvertedFrom(file, cert),
         CP!Encodable(cert) <=> ~CannotEncode, pc \in {"main", "x509"}, Running,
         printed = NoOutput, Converts(cert), sequence' \in BOOLEAN
  PROVE  ProgramInv'
<1>1. /\ value' = cert /\ pc' = "encode"
      /\ UNCHANGED <<args, stdin, status, file, tried, exts, printed, shown, wire, items, rest, fields,
                     decoder>>
  BY DEF Converts
<1>2. wire = CP!NoWire /\ CP!NoWire \in Seq(CP!Token) /\ cert # CP!NoValue
  BY LibraryValues DEF ProgramInv, ControlInv, CP!NoWire
<1>3. LibraryInv' /\ ControlInv'
  BY <1>1, <1>2, LibraryBegins DEF ProgramInv
<1>4. TypeOK' /\ file' \in File
  BY <1>1, SameSets DEF ProgramInv, TypeOK
<1>5. LoopInv'
  BY <1>1 DEF LoopInv
<1>6. EncodedInv' /\ ShownInv'
  BY <1>1, CannotEncodeKept DEF EncodedInv, ProgramInv, ShownInv, Running
<1>7. PrintedInv'
  BY <1>1 DEF ProgramInv, PrintedInv
<1>. QED
  BY <1>3, <1>4, <1>5, <1>6, <1>7 DEF ProgramInv

\* encode_from_json converts.
LEMMA FromJsonStep ==
  ASSUME HoldsConverted, ProgramInv, FromJson
  PROVE  ProgramInv'
<1>1. /\ WantsJson /\ Running /\ pc = "main" /\ TakesJson
      /\ sequence' = Contains(args, "--sequence") /\ Converts(IntoCertificate(file.doc))
  BY DEF FromJson, WantsJson, Wants, AtMain
<1>2. printed = NoOutput
  BY <1>1, FirstCall
<1>3. file \in File /\ file.format = "json" /\ ReadsDocument(file.doc)
  BY <1>1 DEF TakesJson, Readable, ProgramInv
<1>4. sequence' \in BOOLEAN
  BY <1>1 DEF Contains
<1>5. ConvertedFrom(file, IntoCertificate(file.doc))
  BY <1>3 DEF ConvertedFrom
<1>. QED
  BY <1>1, <1>2, <1>3, <1>4, <1>5, JsonFacts, ConvertsStep

\* convert_from_x509 parsed the file.
LEMMA FromX509Step ==
  ASSUME ProgramInv, FromX509
  PROVE  ProgramInv'
<1>1. /\ WantsX509 /\ Running /\ pc = "main" /\ TakesX509
      /\ sequence' = Contains(args, "--sequence") /\ tried' = 0 /\ exts' = <<>> /\ pc' = "x509"
      /\ UNCHANGED <<args, stdin, status, file, printed, shown, value, wire, items, rest, fields, decoder>>
  BY DEF FromX509, WantsX509, Wants, AtMain
<1>2. printed = NoOutput
  BY <1>1, FirstCall
<1>3. file.format = "x509"
  BY <1>1 DEF TakesX509, Readable
<1>4. value = CP!NoValue /\ wire = CP!NoWire /\ CP!NoWire \in Seq(CP!Token)
  BY <1>1 DEF ProgramInv, ControlInv, CP!NoWire
<1>5. LibraryInv' /\ ControlInv'
  BY <1>1, <1>4, LibraryBegins DEF ProgramInv
<1>6. TypeOK' /\ file' \in File
  <2>1. sequence' \in BOOLEAN
    BY <1>1 DEF Contains
  <2>2. exts' \in ExtList /\ tried' \in 0 .. Len(EXTENSION_OIDS)
    BY <1>1 DEF ExtList, EXTENSION_OIDS
  <2>. QED
    BY <1>1, <2>1, <2>2 DEF ProgramInv, TypeOK
<1>7. LoopInv'
  <2>1. Sought(file.cert.extensions, 0) = {} /\ Cardinality({}) = 0
    BY FS_EmptySet DEF Sought
  <2>2. Collected(<<>>, file.cert.extensions, 0)
    BY <2>1 DEF Collected
  <2>. QED
    BY <1>1, <1>2, <1>3, <2>2 DEF LoopInv
<1>8. EncodedInv' /\ ShownInv'
  BY <1>1, CannotEncodeKept DEF ProgramInv, EncodedInv, ShownInv, Running
<1>9. PrintedInv'
  BY <1>1, <1>2 DEF ProgramInv, PrintedInv
<1>. QED
  BY <1>5, <1>6, <1>7, <1>8, <1>9 DEF ProgramInv

\* What holds while convert_certificate looks for an extension.
LEMMA LookingFacts ==
  ASSUME ProgramInv, Looking
  PROVE  LET given == file.cert.extensions
         IN  /\ pc = "x509" /\ Running /\ file.format = "x509"
             /\ tried \in 0 .. 4 /\ Len(EXTENSION_OIDS) = 5
             /\ exts \in ExtList
             /\ given \in Seq(X509Extension) /\ \A i \in DOMAIN given : given[i] \in X509Extension
             /\ Found = {i \in DOMAIN given : given[i].oid = EXTENSION_OIDS[tried + 1]}
<1>. DEFINE given == file.cert.extensions
<1>1. pc = "x509" /\ Running /\ tried < Len(EXTENSION_OIDS)
  BY DEF Looking
<1>2. file.format = "x509" /\ file \in File /\ tried \in 0 .. Len(EXTENSION_OIDS) /\ exts \in ExtList
  BY <1>1 DEF ProgramInv, LoopInv, TypeOK
<1>3. Len(EXTENSION_OIDS) = 5
  BY DEF EXTENSION_OIDS
<1>4. given \in Seq(X509Extension)
  BY <1>2 DEF File, X509Cert
<1>. HIDE DEF given
<1>5. \A i \in DOMAIN given : given[i] \in X509Extension
  <2>1. \A T : \A s \in Seq(T) : \A k \in DOMAIN s : s[k] \in T
    OBVIOUS
  <2>. QED
    BY <1>4, <2>1, Zenon
<1>6. Found = {i \in DOMAIN given : given[i].oid = EXTENSION_OIDS[tried + 1]}
  BY Zenon DEF Found, PlacesOf, given
<1>7. tried \in 0 .. 4
  BY <1>1, <1>2, <1>3
<1>. QED
  BY <1>1, <1>2, <1>3, <1>4, <1>5, <1>6, <1>7, Zenon DEF given

\* A turn of the loop leaves everything but `extensions' alone.
LEMMA LookedStep ==
  ASSUME ProgramInv, Looking, NEW list \in ExtList, Looked(list), LoopInv'
  PROVE  ProgramInv'
<1>1. /\ tried' = tried + 1 /\ exts' = list
      /\ UNCHANGED <<args, stdin, status, sequence, file, printed, shown>> /\ UNCHANGED library
  BY DEF Looked
<1>2. UNCHANGED <<pc, value, wire, items, rest, fields, decoder>>
  BY <1>1 DEF library
<1>3. pc = "x509" /\ Running /\ printed = NoOutput /\ tried \in 0 .. 4 /\ Len(EXTENSION_OIDS) = 5
  BY LookingFacts DEF ProgramInv, LoopInv
<1>4. LibraryInv' /\ ControlInv'
  BY <1>1, LibraryKept DEF ProgramInv
<1>5. TypeOK' /\ file' \in File
  <2>1. tried' \in 0 .. Len(EXTENSION_OIDS)
    BY <1>1, <1>3
  <2>. QED
    BY <1>1, <1>2, <2>1 DEF ProgramInv, TypeOK
<1>6. EncodedInv' /\ PrintedInv' /\ ShownInv'
  BY <1>1, <1>2, <1>3, CannotEncodeKept DEF ProgramInv, EncodedInv, PrintedInv, ShownInv, Running
<1>. QED
  BY <1>4, <1>5, <1>6 DEF ProgramInv

\* A turn of the loop looks for one kind more.
LEMMA SoughtStep ==
  ASSUME NEW given \in Seq(X509Extension), NEW n \in 0 .. 4
  PROVE  LET found == {i \in DOMAIN given : given[i].oid = EXTENSION_OIDS[n + 1]}
         IN  /\ IsFiniteSet(Sought(given, n))
             /\ Sought(given, n + 1)
                  = Sought(given, n) \cup {i \in found : IsParsed(given[i])}
             /\ \A i \in found : i \notin Sought(given, n)
<1>. DEFINE found == {i \in DOMAIN given : given[i].oid = EXTENSION_OIDS[n + 1]}
<1>1. IsFiniteSet(Sought(given, n))
  <2>1. Len(given) \in Nat /\ DOMAIN given = 1 .. Len(given)
    OBVIOUS
  <2>2. IsFiniteSet(1 .. Len(given))
    BY <2>1, FS_Interval
  <2>3. Sought(given, n) \subseteq 1 .. Len(given)
    BY <2>1 DEF Sought
  <2>. QED
    BY <2>2, <2>3, FS_Subset
<1>2. \A k \in 1 .. n + 1 : k \in 1 .. n \/ k = n + 1
  OBVIOUS
<1>3. \A k \in 1 .. n : k \in 1 .. n + 1
  OBVIOUS
<1>4. n + 1 \in 1 .. n + 1
  OBVIOUS
<1>5. Sought(given, n + 1) = Sought(given, n) \cup {i \in found : IsParsed(given[i])}
  BY <1>2, <1>3, <1>4, Zenon DEF Sought
<1>6. \A k \in 1 .. n : EXTENSION_OIDS[k] # EXTENSION_OIDS[n + 1]
  BY DEF EXTENSION_OIDS
<1>7. \A i \in found : i \notin Sought(given, n)
  BY <1>6, Zenon DEF Sought
<1>. QED
  BY <1>1, <1>5, <1>7

\* A turn of the loop that converts adds what becomes of the one it found.
LEMMA ConvertExtensionStep ==
  ASSUME HoldsConverted, ProgramInv, ConvertExtension
  PROVE  ProgramInv'
<1>. DEFINE given == file.cert.extensions
<1>1. Looking
  BY DEF ConvertExtension
<1>2. PICK i \in Found : /\ Found = {i} /\ IsParsed(given[i]) /\ IsSupported(given[i].parsed)
                         /\ Looked(Append(exts, ExtensionOf(given[i])))
  BY Zenon DEF ConvertExtension
<1>3. /\ pc = "x509" /\ file.format = "x509" /\ tried \in 0 .. 4 /\ Len(EXTENSION_OIDS) = 5
      /\ exts \in ExtList
      /\ given \in Seq(X509Extension) /\ \A j \in DOMAIN given : given[j] \in X509Extension
      /\ Found = {j \in DOMAIN given : given[j].oid = EXTENSION_OIDS[tried + 1]}
  BY <1>1, LookingFacts, Zenon
<1>4. UNCHANGED <<pc, file, printed>> /\ tried' = tried + 1
  BY <1>2 DEF Looked, library
<1>. DEFINE e == given[i]
            new == ExtensionOf(e)
            list == Append(exts, new)
            S == Sought(given, tried)
<1>5. i \in DOMAIN given /\ e \in X509Extension /\ Taken(e)
  <2>1. tried + 1 \in 1 .. Len(EXTENSION_OIDS)
    BY <1>3
  <2>. QED
    BY <1>2, <1>3, <2>1 DEF Taken
<1>6. new \in Extension
  BY <1>5, X509ExtensionFacts DEF Convertible
<1>7. exts \in Seq(Extension)
  BY <1>3 DEF ExtList
<1>8. Looked(list) /\ exts' = list
  BY <1>2 DEF Looked
<1>9. Collected(exts, given, tried) /\ printed = NoOutput
  BY <1>3 DEF ProgramInv, LoopInv
<1>10. IsSupported(e.parsed)
  BY <1>2
<1>. HIDE DEF given, e, new
<1>11. /\ IsFiniteSet(S) /\ Sought(given, tried + 1) = S \cup {i} /\ i \notin S
  <2>1. /\ IsFiniteSet(S)
        /\ Sought(given, tried + 1) = S \cup {k \in Found : IsParsed(given[k])}
        /\ \A k \in Found : k \notin S
    BY <1>3, SoughtStep, Zenon
  <2>2. {k \in Found : IsParsed(given[k])} = {i}
    BY <1>2 DEF given
  <2>. QED
    BY <1>2, <2>1, <2>2
<1>12. /\ list \in ExtList
       /\ Len(list) = Len(exts) + 1 /\ Len(exts) \in Nat
       /\ \A j \in 1 .. Len(exts) : list[j] = exts[j]
       /\ list[Len(exts) + 1] = new
  BY <1>6, <1>7 DEF ExtList
<1>. HIDE DEF list, S
<1>13. Collected(list, given, tried + 1)
  <2>1. Len(list) = Cardinality(S \cup {i})
    BY <1>9, <1>11, <1>12, FS_AddElement DEF Collected, S
  <2>2. ASSUME NEW j \in 1 .. Len(list)
        PROVE  \E k \in S \cup {i} : list[j] = ExtensionOf(given[k])
    <3>1. CASE j = Len(exts) + 1
      BY <1>12, <3>1 DEF new, e
    <3>2. CASE j # Len(exts) + 1
      <4>1. j \in 1 .. Len(exts) /\ list[j] = exts[j]
        BY <1>12, <3>2
      <4>. QED
        BY <1>9, <4>1 DEF Collected, S
    <3>. QED
      BY <3>1, <3>2
  <2>3. ASSUME NEW k \in S \cup {i}
        PROVE  /\ IsSupported(given[k].parsed)
               /\ \E j \in 1 .. Len(list) : list[j] = ExtensionOf(given[k])
    <3>1. CASE k = i
      <4>1. Len(exts) + 1 \in 1 .. Len(list)
        BY <1>12
      <4>. QED
        BY <1>10, <1>12, <3>1, <4>1 DEF new, e
    <3>2. CASE k \in S
      <4>1. PICK j \in 1 .. Len(exts) : exts[j] = ExtensionOf(given[k])
        BY <1>9, <3>2 DEF Collected, S
      <4>2. j \in 1 .. Len(list) /\ list[j] = ExtensionOf(given[k])
        BY <1>12, <4>1
      <4>. QED
        BY <1>9, <3>2, <4>2 DEF Collected, S
    <3>. QED
      BY <3>1, <3>2
  <2>. QED
    BY <1>11, <2>1, <2>2, <2>3 DEF Collected
<1>14. LoopInv'
  BY <1>3, <1>4, <1>8, <1>9, <1>13 DEF LoopInv, given
<1>. QED
  BY <1>1, <1>8, <1>12, <1>14, LookedStep

\* A turn that skips: an extension that is taken for absent was not understood.
LEMMA SkipExtensionStep ==
  ASSUME ProgramInv, SkipExtension
  PROVE  ProgramInv'
<1>. DEFINE given == file.cert.extensions
<1>1. Looking /\ Looked(exts) /\ \A i \in Found : Found = {i} /\ MayBeAbsent(given[i])
  BY Zenon DEF SkipExtension
<1>2. /\ pc = "x509" /\ file.format = "x509" /\ tried \in 0 .. 4 /\ exts \in ExtList
      /\ given \in Seq(X509Extension)
      /\ Found = {j \in DOMAIN given : given[j].oid = EXTENSION_OIDS[tried + 1]}
  BY <1>1, LookingFacts, Zenon
<1>3. UNCHANGED <<pc, file, printed, exts>> /\ tried' = tried + 1
  BY <1>1 DEF Looked, library
<1>4. Sought(given, tried + 1) = Sought(given, tried)
  <2>1. {i \in Found : IsParsed(given[i])} = {}
    BY <1>1 DEF MayBeAbsent
  <2>. HIDE DEF given
  <2>2. Sought(given, tried + 1) = Sought(given, tried) \cup {i \in Found : IsParsed(given[i])}
    BY <1>2, SoughtStep, Zenon
  <2>. QED
    BY <2>1, <2>2
<1>5. Collected(exts, given, tried) /\ printed = NoOutput
  BY <1>2 DEF ProgramInv, LoopInv
<1>6. Collected(exts, given, tried + 1)
  BY <1>4, <1>5 DEF Collected
<1>7. LoopInv'
  BY <1>2, <1>3, <1>5, <1>6 DEF LoopInv
<1>. QED
  BY <1>1, <1>2, <1>7, LookedStep

\* The loop is over.
LEMMA ConvertFieldsStep ==
  ASSUME HoldsConverted, ProgramInv, ConvertFields
  PROVE  ProgramInv'
<1>1. /\ pc = "x509" /\ Running /\ tried = Len(EXTENSION_OIDS) /\ ReadsX509Fields(file.cert)
      /\ Converts(X509Certificate(file.cert)) /\ sequence' = sequence
  BY DEF ConvertFields, Gathered
<1>2. printed = NoOutput
  BY <1>1, FirstCall
<1>3. file.format = "x509" /\ file \in File /\ exts \in ExtList /\ sequence' \in BOOLEAN
  BY <1>1 DEF ProgramInv, LoopInv, TypeOK
<1>4. Collected(exts, file.cert.extensions, Len(EXTENSION_OIDS))
  BY <1>1 DEF ProgramInv, LoopInv
<1>5. X509Certificate(file.cert) = Issued(file.cert, exts)
  BY DEF X509Certificate, Issued, Assembled, NotAfterRead
<1>6. ConvertedFrom(file, Issued(file.cert, exts))
  BY <1>1, <1>3, <1>4 DEF ConvertedFrom
<1>. QED
  BY <1>1, <1>2, <1>3, <1>4, <1>5, <1>6, X509Facts, ConvertsStep

\* What every step of the library keeps, whatever the program makes of it.
LEMMA LibraryKeeps ==
  ASSUME ProgramInv,
         StartEncode \/ EncodeField \/ Panic \/ PrintHex \/ Decode \/ DecodeField
           \/ RefuseField \/ PrintFields
  PROVE  /\ Running /\ CP!IInv /\ LibraryInv' /\ ControlInv' /\ LoopInv'
         /\ value' \in C!Value \cup {C!NoValue} /\ DOMAIN fields' \subseteq C!FieldNames
<1>1. CP!Next /\ pc \in CP!Calls /\ Running
  BY LibraryCalls
<1>2. CP!IInv
  BY <1>1, LibraryMeans DEF ProgramInv
<1>3. CP!IInv'
  BY <1>1, <1>2, LibraryStep
<1>4. LibraryInv' /\ pc' \in CP!Calls
  BY <1>3 DEF LibraryInv, CP!IInv, CP!TypeOK
<1>5. ControlInv' /\ LoopInv'
  BY <1>4 DEF ControlInv, LoopInv, CP!Calls
<1>6. value' \in CP!Value \cup {CP!NoValue} /\ DOMAIN fields' \subseteq CP!FieldNames
  BY <1>4 DEF LibraryInv, CP!DataTypeOK
<1>7. value' \in C!Value \cup {C!NoValue} /\ DOMAIN fields' \subseteq C!FieldNames
  BY <1>6, SameSets
<1>. QED
  BY <1>1, <1>2, <1>4, <1>5, <1>7

\* The steps of the library that the program takes without a change of its own.
LEMMA QuietStep ==
  ASSUME ProgramInv, StartEncode \/ EncodeField \/ DecodeField
  PROVE  ProgramInv'
<1>1. /\ Running /\ CP!IInv /\ LibraryInv' /\ ControlInv' /\ LoopInv'
      /\ value' \in C!Value \cup {C!NoValue} /\ DOMAIN fields' \subseteq C!FieldNames
  BY LibraryKeeps
<1>2. UNCHANGED <<args, stdin, status, sequence, file, tried, exts, printed, shown>>
  BY DEF main, StartEncode, EncodeField, DecodeField
<1>3. TypeOK' /\ file' \in File
  BY <1>1, <1>2 DEF ProgramInv, TypeOK
<1>4. \/ /\ pc \in {"encode", "encoding"} /\ pc' = "encoding"
         /\ UNCHANGED <<value, wire>>
      \/ pc = "decoding" /\ pc' = "decoding" /\ UNCHANGED <<wire, decoder>>
  <2>1. CASE StartEncode
    <3>1. CP!StartEncode(IF sequence THEN "sequence" ELSE "array")
      BY <2>1, SameStart DEF StartEncode
    <3>. QED
      BY <3>1 DEF CP!StartEncode
  <2>2. CASE EncodeField
    <3>1. CP!EncodeField
      BY <2>2, SameEncode DEF EncodeField
    <3>. QED
      BY <3>1 DEF CP!EncodeField, CP!Encoding
  <2>3. CASE DecodeField
    <3>1. CP!DecodeField
      BY <2>3, SameDecodeField DEF DecodeField
    <3>. QED
      BY <3>1 DEF CP!DecodeField, CP!Decoding
  <2>. QED
    BY <2>1, <2>2, <2>3
<1>5. EncodedInv'
  <2>1. CannotEncode' <=> CannotEncode
    BY <1>2, CannotEncodeKept
  <2>2. CASE pc' = "encoding"
    <3>1. /\ value' = value /\ value \in CP!Value /\ ConvertedFrom(file, value)
          /\ CP!Encodable(value) <=> ~CannotEncode
      BY <1>1, <1>4, <2>2 DEF ProgramInv, EncodedInv
    <3>2. CP!Encodable(value') <=> CP!Encodable(value)
      BY <3>1
    <3>. QED
      BY <1>1, <1>2, <2>1, <3>1, <3>2 DEF EncodedInv, Running
  <2>3. CASE pc' = "decoding"
    BY <1>1, <1>2, <2>1, <2>3 DEF EncodedInv, Running
  <2>. QED
    BY <1>4, <2>2, <2>3
<1>6. PrintedInv'
  <2>1. CASE pc' = "encoding"
    <3>1. printed = NoOutput
      BY <1>1, <1>4, <2>1, FirstCall
    <3>. QED
      BY <1>2, <3>1 DEF ProgramInv, PrintedInv
  <2>2. CASE pc' = "decoding"
    <3>1. pc = "decoding" /\ pc' = "decoding" /\ UNCHANGED <<wire, decoder>>
      BY <1>4, <2>2
    <3>2. CannotEncode' <=> CannotEncode
      BY <1>2, CannotEncodeKept
    <3>. QED
      BY <1>1, <1>2, <3>1, <3>2 DEF ProgramInv, PrintedInv, Running
  <2>. QED
    BY <1>4, <2>1, <2>2
<1>7. ShownInv'
  BY <1>1, <1>2 DEF ProgramInv, ShownInv, Running
<1>. QED
  BY <1>1, <1>3, <1>5, <1>6, <1>7 DEF ProgramInv

\* A panic: the certificate was not encodable, so the file is foreseen.
LEMMA ProgramPanicStep ==
  ASSUME ProgramInv, Panic
  PROVE  ProgramInv'
<1>1. /\ Running /\ CP!IInv /\ LibraryInv' /\ ControlInv' /\ LoopInv'
      /\ value' \in C!Value \cup {C!NoValue} /\ DOMAIN fields' \subseteq C!FieldNames
  BY LibraryKeeps
<1>2. /\ CP!Panic /\ status' = "panicked"
      /\ UNCHANGED <<args, stdin, sequence, file, tried, exts, printed, shown>>
  BY SamePanic DEF main, Panic, Exit
<1>3. pc = "encoding" /\ pc' = "panicked"
  BY <1>2 DEF CP!Panic, CP!Encoding
<1>4. printed = NoOutput
  BY <1>1, <1>3, FirstCall
<1>5. TypeOK' /\ file' \in File
  BY <1>1, <1>2 DEF ProgramInv, TypeOK
<1>6. CannotEncode
  <2>1. CP!Encodable(value) <=> ~CannotEncode
    BY <1>1, <1>3 DEF ProgramInv, EncodedInv
  <2>2. ~CP!Encodable(value)
    BY <1>1, <1>2, LibraryEncodes
  <2>. QED
    BY <2>1, <2>2
<1>7. CannotEncode'
  BY <1>2, <1>6, CannotEncodeKept
<1>8. EncodedInv' /\ PrintedInv' /\ ShownInv'
  BY <1>2, <1>3, <1>4, <1>7 DEF ProgramInv, EncodedInv, PrintedInv, ShownInv, Running
<1>. QED
  BY <1>1, <1>5, <1>8 DEF ProgramInv

\* The bytes of an encodable certificate are printed.
LEMMA PrintHexStep ==
  ASSUME ProgramInv, PrintHex
  PROVE  ProgramInv'
<1>1. /\ Running /\ CP!IInv /\ LibraryInv' /\ ControlInv' /\ LoopInv'
      /\ value' \in C!Value \cup {C!NoValue} /\ DOMAIN fields' \subseteq C!FieldNames
  BY LibraryKeeps
<1>2. /\ CP!EncodeEnd /\ status' = "ok" /\ printed' = wire'
      /\ UNCHANGED <<args, stdin, sequence, file, tried, exts, shown>>
  BY SameEncodeEnd DEF PrintHex
<1>3. pc = "encoding" /\ value \in CP!Value /\ wire' = items /\ CP!WrittenAsAll(items, value)
  BY <1>1, <1>2, LibraryWrites
<1>4. TypeOK' /\ file' \in File
  BY <1>1, <1>2 DEF ProgramInv, TypeOK
<1>5. ~CannotEncode'
  <2>1. CP!Encodable(value) <=> ~CannotEncode
    BY <1>1, <1>3 DEF ProgramInv, EncodedInv
  <2>2. CP!Encodable(value)
    BY <1>1, <1>2, LibraryEncodes
  <2>. QED
    BY <1>2, <2>1, <2>2, CannotEncodeKept
<1>6. EncodedInv' /\ ShownInv'
  BY <1>2 DEF EncodedInv, ShownInv, Running
<1>7. PrintedInv'
  <2>1. printed' \in Seq(CP!Token)
    BY <1>1, <1>2 DEF LibraryInv, CP!DataTypeOK
  <2>2. CP!WrittenAsAll(printed', value)
    BY <1>2, <1>3
  <2>3. ConvertedFrom(file', value) /\ shown' = CP!NoValue
    BY <1>1, <1>2, <1>3 DEF ProgramInv, EncodedInv, ShownInv
  <2>. QED
    BY <1>2, <1>3, <1>5, <2>1, <2>2, <2>3 DEF PrintedInv
<1>. QED
  BY <1>1, <1>4, <1>6, <1>7 DEF ProgramInv

\* What the program printed is never refused.
LEMMA PrintedIsRead ==
  ASSUME ProgramInv, CP!IInv, Running, pc \in {"decode", "decoding"},
         decoder' = "decode_certificate", CP!RefusesHeader \/ CP!RefuseField
  PROVE  printed = NoOutput
<1>. SUFFICES ASSUME printed # NoOutput PROVE FALSE
  OBVIOUS
<1>1. wire = printed /\ \E cert \in CP!Value : CP!WrittenAsAll(printed, cert)
  BY DEF ProgramInv, PrintedInv, Running
<1>. PICK cert \in CP!Value : CP!WrittenAsAll(printed, cert)
  BY <1>1
<1>2. CP!WrittenAsAll(wire, cert)
  BY <1>1
<1>3. ~CP!WrongForm(decoder', wire)
  BY DEF CP!WrongForm
<1>. QED
  BY <1>2, <1>3, LibraryReads

\* decode_certificate begins: what was printed is not refused for its header.
LEMMA ProgramDecodeStep ==
  ASSUME ProgramInv, Decode
  PROVE  ProgramInv'
<1>1. /\ Running /\ CP!IInv /\ LibraryInv' /\ ControlInv' /\ LoopInv'
      /\ value' \in C!Value \cup {C!NoValue} /\ DOMAIN fields' \subseteq C!FieldNames
  BY LibraryKeeps
<1>2. /\ CP!DecodeCertificate /\ pc = "decode"
      /\ status' = IF pc' = "refused" THEN "failed" ELSE status
      /\ UNCHANGED <<args, stdin, sequence, file, tried, exts, printed, shown>>
  BY SameDecode DEF main, Decode, Exit
<1>3. /\ decoder' = "decode_certificate" /\ UNCHANGED <<value, wire>>
      /\ \/ pc' = "decoding"
         \/ pc' = "refused" /\ CP!RefusesHeader
  BY <1>2 DEF CP!DecodeCertificate, CP!DecodeArray, CP!StartFields, CP!Refuse, CP!RefusesHeader,
              CP!MayDecode
<1>4. pc' = "refused" => printed = NoOutput
  BY <1>1, <1>2, <1>3, PrintedIsRead
<1>5. TypeOK' /\ file' \in File
  BY <1>1, <1>2 DEF ProgramInv, TypeOK
<1>6. EncodedInv' /\ ShownInv'
  BY <1>1, <1>2, <1>3 DEF ProgramInv, EncodedInv, ShownInv, Running
<1>7. PrintedInv'
  <2>1. CASE printed = NoOutput
    BY <1>2, <2>1 DEF ProgramInv, PrintedInv
  <2>2. CASE printed # NoOutput
    <3>1. pc' = "decoding" /\ status' = status
      BY <1>2, <1>3, <1>4, <2>2
    <3>2. CannotEncode' <=> CannotEncode
      BY <1>2, CannotEncodeKept
    <3>. QED
      BY <1>1, <1>2, <1>3, <2>2, <3>1, <3>2 DEF ProgramInv, PrintedInv, Running
  <2>. QED
    BY <2>1, <2>2
<1>. QED
  BY <1>1, <1>5, <1>6, <1>7 DEF ProgramInv

\* And none of its fields is refused.
LEMMA ProgramRefuseStep ==
  ASSUME ProgramInv, RefuseField
  PROVE  ProgramInv'
<1>1. /\ Running /\ CP!IInv /\ LibraryInv' /\ ControlInv' /\ LoopInv'
      /\ value' \in C!Value \cup {C!NoValue} /\ DOMAIN fields' \subseteq C!FieldNames
  BY LibraryKeeps
<1>2. /\ CP!RefuseField /\ status' = "failed"
      /\ UNCHANGED <<args, stdin, sequence, file, tried, exts, printed, shown>>
  BY SameRefuseField DEF main, RefuseField, Exit
<1>3. pc = "decoding" /\ pc' = "refused" /\ decoder' = decoder
  BY <1>2 DEF CP!RefuseField, CP!Decoding, CP!Refuse
<1>4. printed = NoOutput
  <2>1. printed # NoOutput => decoder = "decode_certificate"
    BY <1>1, <1>3 DEF ProgramInv, PrintedInv, Running
  <2>. QED
    BY <1>1, <1>2, <1>3, <2>1, PrintedIsRead
<1>5. TypeOK' /\ file' \in File
  BY <1>1, <1>2 DEF ProgramInv, TypeOK
<1>6. EncodedInv' /\ PrintedInv' /\ ShownInv'
  BY <1>2, <1>4 DEF ProgramInv, EncodedInv, PrintedInv, ShownInv, Running
<1>. QED
  BY <1>1, <1>5, <1>6 DEF ProgramInv

\* The certificate that was read is printed.
LEMMA PrintFieldsStep ==
  ASSUME ProgramInv, PrintFields
  PROVE  ProgramInv'
<1>1. /\ Running /\ CP!IInv /\ LibraryInv' /\ ControlInv' /\ LoopInv'
      /\ value' \in C!Value \cup {C!NoValue} /\ DOMAIN fields' \subseteq C!FieldNames
  BY LibraryKeeps
<1>2. /\ CP!DecodeEnd /\ status' = "ok" /\ shown' = value'
      /\ UNCHANGED <<args, stdin, sequence, file, tried, exts, printed>>
  BY SameDecodeEnd DEF PrintFields
<1>3. TypeOK' /\ file' \in File
  BY <1>1, <1>2 DEF ProgramInv, TypeOK
<1>4. EncodedInv' /\ ShownInv'
  BY <1>2 DEF EncodedInv, ShownInv, Running
<1>5. PrintedInv'
  <2>1. CannotEncode' <=> CannotEncode
    BY <1>2, CannotEncodeKept
  <2>2. /\ pc = "decoding" /\ shown' \in CP!Value /\ CP!ReadFromAll(wire, shown')
        /\ printed # NoOutput => wire = printed
    BY <1>1, <1>2, LibraryReturns DEF ProgramInv, PrintedInv, Running
  <2>3. ASSUME NEW cert \in CP!Value, CP!WrittenAsAll(printed, cert), printed # NoOutput
        PROVE  shown' = CP!Arriving(cert)
    BY <2>2, <2>3, LibraryArrives
  <2>. QED
    BY <1>2, <2>1, <2>3 DEF ProgramInv, PrintedInv
<1>. QED
  BY <1>1, <1>3, <1>4, <1>5 DEF ProgramInv

\* What others send are tokens of the library.
LEMMA ReceivedTokens == Seq(Received) \subseteq Seq(CP!Token)
<1>. DEFINE Names == [type : {"opaque"}, codec : {"name"},
                      content : {n \in NameList : NameOnWire[n] = n}]
            Lists == [type : {"opaque"}, codec : {"extensions"}, content : ExtList]
            Item == Nested1 \cup [type : {"opaque"}, codec : {"name"},
                                  content : {NameOnWire[n] : n \in NameList}] \cup Lists
            Headers == [type : {"header"}, len : Nat]
<1>1. Names \subseteq [type : {"opaque"}, codec : {"name"}, content : {NameOnWire[n] : n \in NameList}]
  <2>1. {n \in NameList : NameOnWire[n] = n} \subseteq {NameOnWire[n] : n \in NameList}
    OBVIOUS
  <2>2. \A S, T : S \subseteq T => [type : {"opaque"}, codec : {"name"}, content : S]
                                     \subseteq [type : {"opaque"}, codec : {"name"}, content : T]
    OBVIOUS
  <2>. QED
    BY <2>1, <2>2, Zenon
<1>2. CP!FieldItem = Item
  <2>1. CP!Octet = Octet
    BY DEF CP!Octet, Octet
  <2>2. CP!Leaf = Leaf
    BY <2>1 DEF CP!Leaf, Leaf
  <2>3. CP!Nested1 = Nested1
    BY <2>2, Zenon DEF CP!Nested1, Nested1, CP!ArrayOf, ArrayOf
  <2>. QED
    BY <2>3, Zenon DEF CP!FieldItem
<1>3. CP!Token = Item \cup Headers \cup {C!IndefiniteHeader}
  BY <1>2 DEF CP!Token, CP!IndefiniteHeader, C!IndefiniteHeader
<1>4. Received = Nested1 \cup Headers \cup {C!IndefiniteHeader} \cup Names \cup Lists
  BY Zenon DEF Received
<1>5. Received \subseteq CP!Token
  <2>1. Nested1 \subseteq Item /\ Lists \subseteq Item /\ Names \subseteq Item
    BY <1>1
  <2>. HIDE DEF Names, Lists, Item, Headers
  <2>. QED
    BY <1>3, <1>4, <2>1
<1>6. \A S, T : S \subseteq T => Seq(S) \subseteq Seq(T)
  OBVIOUS
<1>. QED
  BY <1>5, <1>6

\* A second run reads what the first one printed.
LEMMA ReadHexStep ==
  ASSUME ProgramInv, ReadHex
  PROVE  ProgramInv'
<1>1. /\ WantsHex /\ ReadsHexArgument /\ Running /\ pc = "main" /\ pc' = "decode"
      /\ wire' = IF HexArgument = Own THEN printed ELSE HexTexts[HexArgument]
      /\ sequence' = Contains(args, "--sequence")
      /\ UNCHANGED <<args, stdin, status, file, tried, exts, printed, shown,
                     value, items, rest, fields, decoder>>
  BY DEF ReadHex, WantsHex, AtMain
<1>2. value = CP!NoValue
  BY <1>1 DEF ProgramInv, ControlInv
<1>3. wire' \in Seq(CP!Token)
  <2>1. CASE HexArgument = Own
    BY <1>1, <2>1 DEF ProgramInv, PrintedInv
  <2>2. CASE HexArgument # Own
    <3>1. HexArgument \in DOMAIN HexTexts
      BY <1>1, <2>2 DEF ReadsHexArgument
    <3>. QED
      BY <1>1, <2>2, <3>1, HexTextsAssumption, ReceivedTokens
  <2>. QED
    BY <2>1, <2>2
<1>4. LibraryInv' /\ ControlInv'
  BY <1>1, <1>2, <1>3, LibraryBegins DEF ProgramInv
<1>5. TypeOK' /\ file' \in File
  <2>1. sequence' \in BOOLEAN
    BY <1>1 DEF Contains
  <2>. QED
    BY <1>1, <2>1 DEF ProgramInv, TypeOK
<1>6. LoopInv'
  BY <1>1 DEF LoopInv
<1>7. EncodedInv' /\ ShownInv'
  BY <1>1, CannotEncodeKept DEF ProgramInv, EncodedInv, ShownInv, Running
<1>8. PrintedInv'
  <2>1. CASE printed = NoOutput
    BY <1>1, <2>1 DEF ProgramInv, PrintedInv
  <2>2. CASE printed # NoOutput
    <3>1. args \in OwnCalls /\ stdin = Own
      BY <1>1, <2>2 DEF ProgramInv, PrintedInv, Running
    <3>2. HexArgument = Own
      BY <3>1, OwnCallFacts
    <3>3. CannotEncode' <=> CannotEncode
      BY <1>1, CannotEncodeKept
    <3>. QED
      BY <1>1, <2>2, <3>1, <3>2, <3>3 DEF ProgramInv, PrintedInv, Running
  <2>. QED
    BY <2>1, <2>2
<1>. QED
  BY <1>4, <1>5, <1>6, <1>7, <1>8 DEF ProgramInv

\* And it starts with nothing.
LEMMA RunAgainStep ==
  ASSUME ProgramInv, RunAgain
  PROVE  ProgramInv'
<1>1. /\ printed # NoOutput /\ shown = CP!NoValue /\ args' \in OwnCalls
      /\ status' = "running" /\ pc' = "main" /\ value' = CP!NoValue /\ wire' = CP!NoWire
      /\ items' = <<>> /\ rest' = <<>> /\ fields' = <<>> /\ decoder' = "none"
      /\ sequence' = FALSE /\ tried' = 0 /\ exts' = <<>> /\ stdin' = Own
      /\ UNCHANGED <<file, printed, shown>>
  BY SameSets DEF RunAgain, OwnCalls
<1>2. wire' \in Seq(CP!Token)
  BY <1>1 DEF CP!NoWire
<1>3. LibraryInv' /\ ControlInv'
  BY <1>1, <1>2, LibraryBegins DEF ProgramInv
<1>4. TypeOK' /\ file' \in File
  <2>1. exts' \in ExtList /\ tried' \in 0 .. Len(EXTENSION_OIDS)
    BY <1>1 DEF ExtList, EXTENSION_OIDS
  <2>2. DOMAIN fields' = {}
    BY <1>1
  <2>3. value' \in C!Value \cup {C!NoValue} /\ shown' \in C!Value \cup {C!NoValue}
    BY <1>1, SameSets DEF ProgramInv, TypeOK
  <2>4. status' \in {"running", "ok", "failed", "panicked"} /\ file' \in File
    BY <1>1 DEF ProgramInv
  <2>5. sequence' \in BOOLEAN /\ DOMAIN fields' \subseteq C!FieldNames
    BY <1>1, <2>2
  <2>. QED
    BY <2>1, <2>3, <2>4, <2>5 DEF TypeOK
<1>5. LoopInv' /\ EncodedInv' /\ ShownInv'
  BY <1>1, SameSets DEF LoopInv, EncodedInv, ShownInv
<1>6. PrintedInv'
  <2>1. CannotEncode' <=> CannotEncode
    BY <1>1, CannotEncodeKept
  <2>. QED
    BY <1>1, <2>1 DEF ProgramInv, PrintedInv, Running
<1>. QED
  BY <1>3, <1>4, <1>5, <1>6 DEF ProgramInv

\* Nothing changes.
LEMMA StutterStep ==
  ASSUME ProgramInv, UNCHANGED vars
  PROVE  ProgramInv'
<1>1. UNCHANGED <<args, stdin, sequence, file, tried, exts, printed, shown>> /\ UNCHANGED <<status, library>>
  BY DEF vars, main
<1>2. UNCHANGED <<pc, value, wire, items, rest, fields, decoder>>
  BY <1>1 DEF library
<1>3. LibraryInv' /\ ControlInv'
  BY <1>1, LibraryKept DEF ProgramInv
<1>4. TypeOK' /\ file' \in File /\ LoopInv'
  BY <1>1, <1>2 DEF ProgramInv, TypeOK, LoopInv
<1>5. CannotEncode' <=> CannotEncode
  BY <1>1, CannotEncodeKept
<1>6. CP!Encodable(value') <=> CP!Encodable(value)
  BY <1>2
<1>7. EncodedInv' /\ ShownInv'
  BY <1>1, <1>2, <1>5, <1>6 DEF ProgramInv, EncodedInv, ShownInv, Running, LacksText, WithoutFlag
<1>8. PrintedInv'
  BY <1>1, <1>2, <1>5 DEF ProgramInv, PrintedInv, Running
<1>. QED
  BY <1>3, <1>4, <1>7, <1>8 DEF ProgramInv

\* The invariant is kept by every step of the program.
LEMMA StepProgramInv ==
  ASSUME HoldsConverted
  PROVE  ProgramInv /\ [Next]_vars => ProgramInv'
<1>. SUFFICES ASSUME ProgramInv, [Next]_vars PROVE ProgramInv'
  OBVIOUS
<1>1. CASE \/ Help \/ RefuseJson \/ RefuseX509 \/ RefuseExtension \/ RefuseFields \/ RefuseHex
           \/ PanicArgs \/ PanicStdin
  BY <1>1, ExitSteps
<1>2. CASE FromJson
  BY <1>2, FromJsonStep
<1>3. CASE FromX509
  BY <1>3, FromX509Step
<1>4. CASE ConvertExtension
  BY <1>4, ConvertExtensionStep
<1>5. CASE SkipExtension
  BY <1>5, SkipExtensionStep
<1>6. CASE ConvertFields
  BY <1>6, ConvertFieldsStep
<1>7. CASE StartEncode \/ EncodeField \/ DecodeField
  BY <1>7, QuietStep
<1>8. CASE Panic
  BY <1>8, ProgramPanicStep
<1>9. CASE PrintHex
  BY <1>9, PrintHexStep
<1>10. CASE ReadHex
  BY <1>10, ReadHexStep
<1>11. CASE Decode
  BY <1>11, ProgramDecodeStep
<1>12. CASE RefuseField
  BY <1>12, ProgramRefuseStep
<1>13. CASE PrintFields
  BY <1>13, PrintFieldsStep
<1>14. CASE RunAgain
  BY <1>14, RunAgainStep
<1>15. CASE UNCHANGED vars
  BY <1>15, StutterStep
<1>. QED
  BY <1>1, <1>2, <1>3, <1>4, <1>5, <1>6, <1>7, <1>8, <1>9, <1>10, <1>11, <1>12, <1>13, <1>14, <1>15
     DEF Next

-----------------------------------------------------------------------------
(* What arrives: both conversions                                          *)

\* The fields of a converted certificate when it has been written and read.
LEMMA ArrivedFields ==
  ASSUME NEW type, NEW serial, NEW algorithm, NEW issuer, NEW before, NEW after, NEW subject,
         NEW key_algorithm, NEW key, NEW list, NEW signature
  PROVE  LET v == CP!Arriving(Assembled(type, serial, algorithm, issuer, before, after, subject,
                                        key_algorithm, key, list, signature))
         IN  /\ v.c509_certificate_type = type
             /\ v.certificate_serial_number = serial
             /\ v.issuer_signature_algorithm.int = algorithm
             /\ v.issuer = CP!NameArriving(issuer)
             /\ v.validity_not_before = CP!WholeSeconds(before)
             /\ v.validity_not_after = CP!WholeSeconds(after)
             /\ v.subject.content = NameOnWire[subject]
             /\ v.subject_public_key_algorithm.int = key_algorithm
             /\ v.subject_public_key = key
             /\ v.extensions.content = ExtOnWire[list]
             /\ v.issuer_signature_value = signature
<1>. DEFINE v == Assembled(type, serial, algorithm, issuer, before, after, subject,
                           key_algorithm, key, list, signature)
            x == [CP!Whole(v) EXCEPT !.issuer     = CP!NameArriving(@),
                                     !.subject    = CP!NameArriving(@),
                                     !.extensions = CP!ExtensionsOf(ExtOnWire[@.content])]
<1>1. /\ CP!Whole(v).issuer = issuer /\ CP!Whole(v).subject = C!NameOf(subject)
      /\ CP!Whole(v).extensions = C!ExtensionsOf(list)
      /\ DOMAIN CP!Whole(v) = DOMAIN v
      /\ CP!Whole(v).validity_not_before = CP!WholeSeconds(before)
      /\ CP!Whole(v).validity_not_after = CP!WholeSeconds(after)
  BY DEF CP!Whole, Assembled
<1>2. /\ CP!Whole(v).c509_certificate_type = type
      /\ CP!Whole(v).certificate_serial_number = serial
      /\ CP!Whole(v).issuer_signature_algorithm = C!AlgInt(algorithm)
      /\ CP!Whole(v).subject_public_key_algorithm = C!AlgInt(key_algorithm)
      /\ CP!Whole(v).subject_public_key = key
      /\ CP!Whole(v).issuer_signature_value = signature
  BY DEF CP!Whole, Assembled
<1>3. DOMAIN v = {"c509_certificate_type", "certificate_serial_number",
                  "issuer_signature_algorithm", "issuer", "validity_not_before",
                  "validity_not_after", "subject", "subject_public_key_algorithm",
                  "subject_public_key", "extensions", "issuer_signature_value"}
  BY DEF Assembled
<1>4. CP!Arriving(v) = x
  BY DEF CP!Arriving
<1>. HIDE DEF v
<1>5. /\ x.c509_certificate_type = type
      /\ x.certificate_serial_number = serial
      /\ x.issuer_signature_algorithm = C!AlgInt(algorithm)
      /\ x.issuer = CP!NameArriving(issuer)
      /\ x.validity_not_before = CP!WholeSeconds(before)
      /\ x.validity_not_after = CP!WholeSeconds(after)
      /\ x.subject = CP!NameArriving(C!NameOf(subject))
      /\ x.subject_public_key_algorithm = C!AlgInt(key_algorithm)
      /\ x.subject_public_key = key
      /\ x.extensions = CP!ExtensionsOf(ExtOnWire[C!ExtensionsOf(list).content])
      /\ x.issuer_signature_value = signature
  BY <1>1, <1>2, <1>3
<1>6. /\ C!AlgInt(algorithm).int = algorithm /\ C!AlgInt(key_algorithm).int = key_algorithm
      /\ C!ExtensionsOf(list).content = list /\ CP!ExtensionsOf(ExtOnWire[list]).content = ExtOnWire[list]
  BY DEF C!AlgInt, C!ExtensionsOf, CP!ExtensionsOf
<1>7. CP!NameArriving(C!NameOf(subject)).content = NameOnWire[subject]
  BY DEF CP!NameArriving, C!NameOf, CP!NameOf, CP!None
<1>. HIDE DEF x
<1>. QED
  BY <1>4, <1>5, <1>6, <1>7, Zenon DEF v

\* An attribute that has been written and read.
LEMMA ArrivedAttribute ==
  ASSUME NEW id, NEW printable \in BOOLEAN, NEW t
  PROVE  LET a == UnsignedAttr(Registered(id, printable, SpecialTextOf(t)))
         IN  /\ a.id = id
             /\ \/ a.printable = printable
                \/ a.id = 0 /\ ~a.printable
             /\ SameText(a.value, t)
<1>. DEFINE a == UnsignedAttr(Registered(id, printable, SpecialTextOf(t)))
<1>1. /\ a.id = id /\ a.value = SpecialTextOf(t)
      /\ id # 0 => a.printable = printable
      /\ id = 0 => a.printable = FALSE
  BY DEF UnsignedAttr, Registered
<1>2. SameText(SpecialTextOf(t), t)
  BY DEF SameText, SpecialTextOf, Mac, Text
<1>. QED
  BY <1>1, <1>2, Zenon

\* A time that has been written and read.
LEMMA ArrivedTime ==
  ASSUME NEW secs, NEW fraction
  PROVE  /\ CP!WholeSeconds(C!Time(secs, fraction)) = C!Time(secs, FALSE)
         /\ CP!WholeSeconds(None) = None
BY DEF CP!WholeSeconds, CP!None, None, C!Time

\* An extension that has been written and read: only its criticality may be
\* lost, where a single KeyUsage has no flag.
LEMMA ArrivedExtension ==
  ASSUME NEW list \in ExtList, NEW i \in DOMAIN list, list[i].id # IntId(0)
  PROVE  LET out == ExtOnWire[list]
         IN  /\ DOMAIN out = DOMAIN list /\ Len(out) = Len(list)
             /\ out[i].id = list[i].id /\ out[i].value = list[i].value
             /\ \/ out[i].critical = list[i].critical
                \/ /\ IsSingleKeyUsage(out) /\ list[i].value.uint = 0 /\ list[i].id = IntId(2)
                   /\ list[i].value.kind = "KeyUsage" /\ ~out[i].critical
<1>. DEFINE out == ExtOnWire[list]
            zero == IsSingleKeyUsage(list) /\ list[1].value.uint = 0
<1>1. out = [k \in DOMAIN list |-> IF list[k].id = IntId(0) \/ zero
                                     THEN [list[k] EXCEPT !.critical = FALSE] ELSE list[k]]
  BY DEF ExtOnWire, UnsignedZero
<1>2. /\ Len(list) \in Nat /\ DOMAIN list = 1 .. Len(list) /\ list \in Seq(Extension)
      /\ list[i] \in Extension
  BY DEF ExtList
<1>. HIDE DEF zero
<1>3. DOMAIN out = 1 .. Len(list) /\ Len(out) = Len(list)
  <2>1. \A n \in Nat : \A f : DOMAIN f = 1 .. n /\ f = [k \in 1 .. n |-> f[k]] => Len(f) = n
    OBVIOUS
  <2>2. DOMAIN out = 1 .. Len(list) /\ out = [k \in 1 .. Len(list) |-> out[k]]
    BY <1>1, <1>2
  <2>. HIDE DEF out
  <2>. QED
    BY <1>2, <2>1, <2>2
<1>4. CASE ~zero
  <2>1. out[i] = list[i]
    BY <1>1, <1>4
  <2>. QED
    BY <1>2, <1>3, <2>1
<1>5. CASE zero
  <2>1. out[i] = [list[i] EXCEPT !.critical = FALSE]
    BY <1>1, <1>5
  <2>2. /\ out[i].id = list[i].id /\ out[i].value = list[i].value /\ out[i].critical = FALSE
    BY <1>2, <2>1 DEF Extension
  <2>3. /\ Len(list) = 1 /\ i = 1 /\ list[i].id = IntId(2) /\ list[i].value.kind = "KeyUsage"
        /\ list[i].value.uint = 0
    BY <1>2, <1>5 DEF zero, IsSingleKeyUsage
  <2>4. IsSingleKeyUsage(out)
    BY <1>3, <2>2, <2>3 DEF IsSingleKeyUsage
  <2>. QED
    BY <1>2, <1>3, <2>2, <2>3, <2>4
<1>. QED
  BY <1>4, <1>5

-----------------------------------------------------------------------------
(* What arrives of an X.509 file                                           *)

\* lookup_oid returns the id of an entry.
LEMMA Lookup ==
  ASSUME NEW table, NEW oid, Recognized(oid, table)
  PROVE  \E entry \in table : entry[1] = oid /\ entry[2] = IdOf(oid, table)
BY DEF Recognized, IdOf

\* The tables of x509_to_c509.rs give the ids that registry.rs has for a name.
LEMMA TablesAgree ==
  ASSUME NEW oid
  PROVE  /\ Recognized(oid, RDN_ATTRIBUTE_OIDS) =>
              <<IdOf(oid, RDN_ATTRIBUTE_OIDS), oid>> \in RdnAttributeNames
         /\ Recognized(oid, SIGNATURE_ALGORITHM_OIDS) =>
              <<IdOf(oid, SIGNATURE_ALGORITHM_OIDS), oid>> \in SignatureAlgorithmNames
         /\ Recognized(oid, PUBLIC_KEY_ALGORITHM_OIDS) =>
              <<IdOf(oid, PUBLIC_KEY_ALGORITHM_OIDS), oid>> \in PublicKeyAlgorithmNames
<1>1. \A entry \in RDN_ATTRIBUTE_OIDS : <<entry[2], entry[1]>> \in RdnAttributeNames
  BY DEF RDN_ATTRIBUTE_OIDS, RdnAttributeNames
<1>2. \A entry \in SIGNATURE_ALGORITHM_OIDS : <<entry[2], entry[1]>> \in SignatureAlgorithmNames
  <2>1. /\ <<0, "ecdsa-with-SHA256">> \in SignatureAlgorithmNames
        /\ <<1, "ecdsa-with-SHA384">> \in SignatureAlgorithmNames
        /\ <<2, "ecdsa-with-SHA512">> \in SignatureAlgorithmNames
    BY Zenon DEF SignatureAlgorithmNames
  <2>2. /\ <<12, "id-Ed25519">> \in SignatureAlgorithmNames
        /\ <<13, "id-Ed448">> \in SignatureAlgorithmNames
    BY Zenon DEF SignatureAlgorithmNames
  <2>3. /\ <<23, "sha256WithRSAEncryption">> \in SignatureAlgorithmNames
        /\ <<24, "sha384WithRSAEncryption">> \in SignatureAlgorithmNames
        /\ <<25, "sha512WithRSAEncryption">> \in SignatureAlgorithmNames
    BY Zenon DEF SignatureAlgorithmNames
  <2>. QED
    BY <2>1, <2>2, <2>3 DEF SIGNATURE_ALGORITHM_OIDS
<1>3. \A entry \in PUBLIC_KEY_ALGORITHM_OIDS : <<entry[2], entry[1]>> \in PublicKeyAlgorithmNames
  <2>1. /\ <<0, "rsaEncryption">> \in PublicKeyAlgorithmNames
        /\ <<12, "id-Ed25519">> \in PublicKeyAlgorithmNames
        /\ <<13, "id-Ed448">> \in PublicKeyAlgorithmNames
    BY Zenon DEF PublicKeyAlgorithmNames
  <2>. QED
    BY <2>1 DEF PUBLIC_KEY_ALGORITHM_OIDS
<1>4. ASSUME NEW table, NEW names, \A entry \in table : <<entry[2], entry[1]>> \in names,
             Recognized(oid, table)
      PROVE  <<IdOf(oid, table), oid>> \in names
  <2>1. PICK entry \in table : entry[1] = oid /\ entry[2] = IdOf(oid, table)
    BY <1>4, Lookup
  <2>. QED
    BY <1>4, <2>1
<1>. QED
  BY <1>1, <1>2, <1>3, <1>4, Zenon

\* public_key_algorithm_id names the key's algorithm, and the curve of an EC key.
LEMMA KeyAlgorithmAgrees ==
  ASSUME NEW cert, cert.key_parameters \in Option(STRING), ReadsKeyAlgorithm(cert)
  PROVE  <<KeyAlgorithmId(cert), CurveName(cert)>> \in PublicKeyAlgorithmNames
<1>1. CASE Recognized(cert.key_algorithm, PUBLIC_KEY_ALGORITHM_OIDS)
  <2>1. KeyAlgorithmId(cert) = IdOf(cert.key_algorithm, PUBLIC_KEY_ALGORITHM_OIDS)
    BY <1>1 DEF KeyAlgorithmId
  <2>2. cert.key_algorithm # "id-ecPublicKey"
    BY <1>1 DEF Recognized, PUBLIC_KEY_ALGORITHM_OIDS
  <2>3. CurveName(cert) = cert.key_algorithm
    BY <2>2, Zenon DEF CurveName
  <2>. QED
    BY <1>1, <2>1, <2>3, TablesAgree
<1>2. CASE ~Recognized(cert.key_algorithm, PUBLIC_KEY_ALGORITHM_OIDS)
  <2>. DEFINE oid == cert.key_parameters.some
              id == IdOf(oid, EC_CURVE_OIDS)
  <2>1. /\ cert.key_algorithm = "id-ecPublicKey" /\ cert.key_parameters # None
        /\ Recognized(oid, EC_CURVE_OIDS)
    BY <1>2 DEF ReadsKeyAlgorithm
  <2>2. KeyAlgorithmId(cert) = id
    BY <1>2 DEF KeyAlgorithmId
  <2>3. cert.key_parameters = Some(oid)
    BY <2>1 DEF Option, Some
  <2>. HIDE DEF oid, id
  <2>4. PICK entry \in EC_CURVE_OIDS : entry[1] = oid /\ entry[2] = id
    BY <2>1, Lookup DEF id
  <2>5. \/ oid = "secp256r1" /\ id = 1
        \/ oid = "secp384r1" /\ id = 2
        \/ oid = "secp521r1" /\ id = 3
    BY <2>4 DEF EC_CURVE_OIDS
  <2>6. \A s, t : Some(s) = Some(t) => s = t
    BY DEF Some
  <2>7. CASE oid = "secp256r1" /\ id = 1
    <3>1. CurveName(cert) = "id-ecPublicKey (secp256r1)"
      BY <2>1, <2>3, <2>6, <2>7 DEF CurveName
    <3>. QED
      BY <2>2, <2>7, <3>1 DEF PublicKeyAlgorithmNames
  <2>8. CASE oid = "secp384r1" /\ id = 2
    <3>1. CurveName(cert) = "id-ecPublicKey (secp384r1)"
      BY <2>1, <2>3, <2>6, <2>8 DEF CurveName
    <3>. QED
      BY <2>2, <2>8, <3>1 DEF PublicKeyAlgorithmNames
  <2>9. CASE oid = "secp521r1" /\ id = 3
    <3>1. CurveName(cert) = "id-ecPublicKey (secp521r1)"
      BY <2>1, <2>3, <2>6, <2>9 DEF CurveName
    <3>. QED
      BY <2>2, <2>9, <3>1 DEF PublicKeyAlgorithmNames
  <2>. QED
    BY <2>5, <2>7, <2>8, <2>9
<1>. QED
  BY <1>1, <1>2

\* The attributes of a name, in their order.
LEMMA IssuedName ==
  ASSUME NEW name \in X509Name, ReadsX509Name(name)
  PROVE  SameName(NameOnWire[NameToRdn(name)], name)
<1>. DEFINE rdn == NameToRdn(name)
            out == NameOnWire[rdn]
            Made(i) == Registered(IdOf(name[i].oid, RDN_ATTRIBUTE_OIDS),
                                  name[i].tag = "PrintableString",
                                  SpecialTextOf(name[i].value.some))
<1>1. rdn \in NameList
  BY X509NameTyped
<1>2. rdn = [i \in DOMAIN name |-> Made(i)]
  BY DEF NameToRdn
<1>3. out = [i \in DOMAIN rdn |-> UnsignedAttr(rdn[i])]
  BY <1>1 DEF NameOnWire
<1>. HIDE DEF rdn, out, Made
<1>4. DOMAIN out = DOMAIN name /\ \A i \in DOMAIN name : out[i] = UnsignedAttr(Made(i))
  BY <1>2, <1>3
<1>5. ASSUME NEW i \in DOMAIN name
      PROVE  /\ <<out[i].id, name[i].oid>> \in RdnAttributeNames
             /\ \/ out[i].printable = (name[i].tag = "PrintableString")
                \/ out[i].id = 0 /\ ~out[i].printable
             /\ SameText(out[i].value, name[i].value.some)
  <2>. DEFINE id == IdOf(name[i].oid, RDN_ATTRIBUTE_OIDS)
              printable == name[i].tag = "PrintableString"
              t == name[i].value.some
  <2>1. <<id, name[i].oid>> \in RdnAttributeNames
    BY TablesAgree DEF ReadsX509Name
  <2>2. out[i] = UnsignedAttr(Registered(id, printable, SpecialTextOf(t)))
    BY <1>4 DEF Made
  <2>3. printable \in BOOLEAN
    OBVIOUS
  <2>. HIDE DEF id, printable, t
  <2>4. /\ out[i].id = id
        /\ \/ out[i].printable = printable
           \/ out[i].id = 0 /\ ~out[i].printable
        /\ SameText(out[i].value, t)
    BY <2>2, <2>3, ArrivedAttribute
  <2>. QED
    BY <2>1, <2>4, Zenon DEF printable, t
<1>. QED
  BY <1>4, <1>5, Zenon DEF SameName, out, rdn

\* The sequence has the element.
Has(s, x) == \E i \in DOMAIN s : s[i] = x

\* So has a concatenation.
LEMMA HasConcat ==
  ASSUME NEW S, NEW s \in Seq(S), NEW t \in Seq(S), NEW x
  PROVE  /\ s \o t \in Seq(S)
         /\ Has(s \o t, x) <=> Has(s, x) \/ Has(t, x)
<1>1. /\ s \o t \in Seq(S) /\ Len(s) \in Nat /\ Len(t) \in Nat
      /\ DOMAIN s = 1 .. Len(s) /\ DOMAIN t = 1 .. Len(t)
      /\ DOMAIN (s \o t) = 1 .. Len(s) + Len(t)
      /\ \A i \in 1 .. Len(s) + Len(t) : (s \o t)[i] = IF i <= Len(s) THEN s[i] ELSE t[i - Len(s)]
  OBVIOUS
<1>2. ASSUME NEW i \in DOMAIN s PROVE i \in DOMAIN (s \o t) /\ (s \o t)[i] = s[i]
  BY <1>1
<1>3. ASSUME NEW i \in DOMAIN t
      PROVE  Len(s) + i \in DOMAIN (s \o t) /\ (s \o t)[Len(s) + i] = t[i]
  <2>1. Len(s) + i \in 1 .. Len(s) + Len(t) /\ ~(Len(s) + i <= Len(s)) /\ Len(s) + i - Len(s) = i
    BY <1>1
  <2>. QED
    BY <1>1, <2>1
<1>4. ASSUME NEW i \in DOMAIN (s \o t)
      PROVE  \/ i \in DOMAIN s /\ (s \o t)[i] = s[i]
             \/ i - Len(s) \in DOMAIN t /\ (s \o t)[i] = t[i - Len(s)]
  BY <1>1
<1>. QED
  BY <1>1, <1>2, <1>3, <1>4 DEF Has

\* The ids of an ExtendedKeyUsage are those of its flags.
LEMMA PurposesOf ==
  ASSUME NEW flags, NEW x
  PROVE  Has(PurposeIds(flags), x)
           <=> \E i \in 1 .. 7 : EXTENDED_KEY_USAGES[i][1] \in flags /\ x = EXTENDED_KEY_USAGES[i][2]
<1>. DEFINE Pushed(i) == IF EXTENDED_KEY_USAGES[i][1] \in flags
                           THEN <<EXTENDED_KEY_USAGES[i][2]>> ELSE <<>>
            T == {EXTENDED_KEY_USAGES[i][2] : i \in 1 .. 7}
            Is(i) == EXTENDED_KEY_USAGES[i][1] \in flags /\ x = EXTENDED_KEY_USAGES[i][2]
<1>1. ASSUME NEW i \in 1 .. 7
      PROVE  Pushed(i) \in Seq(T) /\ (Has(Pushed(i), x) <=> Is(i))
  <2>. DEFINE y == EXTENDED_KEY_USAGES[i][2]
  <2>0. \A S : <<>> \in Seq(S) /\ \A z \in S : <<z>> \in Seq(S)
    OBVIOUS
  <2>1. y \in T
    OBVIOUS
  <2>. HIDE DEF T
  <2>2. CASE EXTENDED_KEY_USAGES[i][1] \in flags
    <3>1. Pushed(i) = <<y>>
      BY <2>2
    <3>. HIDE DEF y
    <3>2. Has(<<y>>, x) <=> x = y
      BY DEF Has
    <3>. QED
      BY <2>0, <2>1, <2>2, <3>1, <3>2, Zenon DEF y
  <2>3. CASE EXTENDED_KEY_USAGES[i][1] \notin flags
    <3>1. Pushed(i) = <<>>
      BY <2>3
    <3>2. ~Has(<<>>, x)
      BY DEF Has
    <3>. QED
      BY <2>0, <2>3, <3>1, <3>2, Zenon
  <2>. QED
    BY <2>2, <2>3
<1>2. PurposeIds(flags) = Pushed(1) \o Pushed(2) \o Pushed(3) \o Pushed(4) \o Pushed(5)
                            \o Pushed(6) \o Pushed(7)
  BY DEF PurposeIds
<1>. HIDE DEF Pushed, T, Is
<1>3. /\ Pushed(1) \in Seq(T) /\ (Has(Pushed(1), x) <=> Is(1))
      /\ Pushed(2) \in Seq(T) /\ (Has(Pushed(2), x) <=> Is(2))
      /\ Pushed(3) \in Seq(T) /\ (Has(Pushed(3), x) <=> Is(3))
      /\ Pushed(4) \in Seq(T) /\ (Has(Pushed(4), x) <=> Is(4))
      /\ Pushed(5) \in Seq(T) /\ (Has(Pushed(5), x) <=> Is(5))
      /\ Pushed(6) \in Seq(T) /\ (Has(Pushed(6), x) <=> Is(6))
      /\ Pushed(7) \in Seq(T) /\ (Has(Pushed(7), x) <=> Is(7))
  BY <1>1
<1>. DEFINE two == Pushed(1) \o Pushed(2)
            three == two \o Pushed(3)
            four == three \o Pushed(4)
            five == four \o Pushed(5)
            six == five \o Pushed(6)
            seven == six \o Pushed(7)
<1>4. two \in Seq(T) /\ (Has(two, x) <=> Is(1) \/ Is(2))
  BY <1>3, HasConcat
<1>. HIDE DEF two
<1>5. three \in Seq(T) /\ (Has(three, x) <=> Is(1) \/ Is(2) \/ Is(3))
  BY <1>3, <1>4, HasConcat
<1>. HIDE DEF three
<1>6. four \in Seq(T) /\ (Has(four, x) <=> Is(1) \/ Is(2) \/ Is(3) \/ Is(4))
  BY <1>3, <1>5, HasConcat
<1>. HIDE DEF four
<1>7. five \in Seq(T) /\ (Has(five, x) <=> Is(1) \/ Is(2) \/ Is(3) \/ Is(4) \/ Is(5))
  BY <1>3, <1>6, HasConcat
<1>. HIDE DEF five
<1>8. six \in Seq(T) /\ (Has(six, x) <=> Is(1) \/ Is(2) \/ Is(3) \/ Is(4) \/ Is(5) \/ Is(6))
  BY <1>3, <1>7, HasConcat
<1>. HIDE DEF six
<1>9. Has(seven, x) <=> Is(1) \/ Is(2) \/ Is(3) \/ Is(4) \/ Is(5) \/ Is(6) \/ Is(7)
  BY <1>3, <1>8, HasConcat
<1>10. PurposeIds(flags) = seven
  BY <1>2 DEF two, three, four, five, six
<1>11. (\E i \in 1 .. 7 : Is(i)) <=> Is(1) \/ Is(2) \/ Is(3) \/ Is(4) \/ Is(5) \/ Is(6) \/ Is(7)
  BY \A i \in 1 .. 7 : i = 1 \/ i = 2 \/ i = 3 \/ i = 4 \/ i = 5 \/ i = 6 \/ i = 7
<1>. HIDE DEF seven
<1>. QED
  BY <1>9, <1>10, <1>11 DEF Is

\* The purposes of an ExtendedKeyUsage, by the names of registry.rs.
LEMMA IssuedPurposes ==
  ASSUME NEW purposes \in SUBSET PurposeFlags
  PROVE  SamePurposes(PurposeIds(purposes), purposes)
<1>. DEFINE ids == PurposeIds(purposes)
<1>1. \A k \in 1 .. 7 : <<EXTENDED_KEY_USAGES[k][2], EXTENDED_KEY_USAGES[k][1]>> \in ExtendedKeyUsageNames
  <2>1. \A k \in 1 .. 7 : k = 1 \/ k = 2 \/ k = 3 \/ k = 4 \/ k = 5 \/ k = 6 \/ k = 7
    OBVIOUS
  <2>. QED
    BY <2>1 DEF EXTENDED_KEY_USAGES, ExtendedKeyUsageNames
<1>2. \A n \in PurposeFlags : \E k \in 1 .. 7 : EXTENDED_KEY_USAGES[k][1] = n
  <2>1. /\ EXTENDED_KEY_USAGES[1][1] = "anyExtendedKeyUsage"
        /\ EXTENDED_KEY_USAGES[2][1] = "id-kp-serverAuth"
        /\ EXTENDED_KEY_USAGES[3][1] = "id-kp-clientAuth"
        /\ EXTENDED_KEY_USAGES[4][1] = "id-kp-codeSigning"
        /\ EXTENDED_KEY_USAGES[5][1] = "id-kp-emailProtection"
        /\ EXTENDED_KEY_USAGES[6][1] = "id-kp-timeStamping"
        /\ EXTENDED_KEY_USAGES[7][1] = "id-kp-OCSPSigning"
    BY DEF EXTENDED_KEY_USAGES
  <2>2. 1 \in 1 .. 7 /\ 2 \in 1 .. 7 /\ 3 \in 1 .. 7 /\ 4 \in 1 .. 7 /\ 5 \in 1 .. 7 /\ 6 \in 1 .. 7
        /\ 7 \in 1 .. 7
    OBVIOUS
  <2>. QED
    BY <2>1, <2>2 DEF PurposeFlags
<1>. HIDE DEF ids
<1>3. ASSUME NEW i \in DOMAIN ids
      PROVE  \E n \in purposes : <<ids[i], n>> \in ExtendedKeyUsageNames
  <2>1. Has(ids, ids[i])
    BY DEF Has
  <2>2. PICK k \in 1 .. 7 : EXTENDED_KEY_USAGES[k][1] \in purposes /\ ids[i] = EXTENDED_KEY_USAGES[k][2]
    BY <2>1, PurposesOf, Zenon DEF ids
  <2>. QED
    BY <1>1, <2>2
<1>4. ASSUME NEW n \in purposes
      PROVE  \E i \in DOMAIN ids : <<ids[i], n>> \in ExtendedKeyUsageNames
  <2>1. PICK k \in 1 .. 7 : EXTENDED_KEY_USAGES[k][1] = n
    BY <1>2
  <2>2. Has(ids, EXTENDED_KEY_USAGES[k][2])
    BY <2>1, PurposesOf, Zenon DEF ids
  <2>3. PICK i \in DOMAIN ids : ids[i] = EXTENDED_KEY_USAGES[k][2]
    BY <2>2 DEF Has
  <2>. QED
    BY <1>1, <2>1, <2>3
<1>. QED
  BY <1>3, <1>4 DEF SamePurposes, ids

\* An extension says what it was made of, whatever becomes of its criticality.
LEMMA IssuedExtension ==
  ASSUME NEW e \in X509Extension, IsParsed(e), IsSupported(e.parsed), NEW x,
         x.id = ExtensionOf(e).id, x.value = ExtensionOf(e).value
  PROVE  /\ SameExtension(x, e)
         /\ ExtensionOf(e).critical = e.critical /\ ExtensionOf(e).id # IntId(0)
         /\ e.oid \in {"basicConstraints", "keyUsage", "extKeyUsage", "subjectAltName",
                       "authorityKeyIdentifier"}
         /\ ExtensionOf(e).value.kind = "KeyUsage" =>
              e.parsed.kind = "keyUsage" /\ ExtensionOf(e).value.uint = e.parsed.flags
<1>. DEFINE p == e.parsed
            y == ExtensionOf(e)
<1>1. p \in ParsedExtension /\ p.kind = e.oid /\ p.kind # "unparsed"
  BY DEF X509Extension, IsParsed
<1>2. p.kind \in {"basicConstraints", "keyUsage", "extKeyUsage", "subjectAltName",
                  "authorityKeyIdentifier"}
  BY <1>1 DEF ParsedExtension
<1>3. /\ KindOf(EXT_BASIC_CONSTRAINTS_ID) # "KeyUsage" /\ KindOf(EXT_EXT_KEY_USAGE_ID) # "KeyUsage"
      /\ KindOf(EXT_SUBJECT_ALT_NAME_ID) # "KeyUsage"
      /\ KindOf(EXT_AUTHORITY_KEY_IDENTIFIER_ID) # "KeyUsage"
  BY Kinds
<1>4. /\ <<4, "basicConstraints">> \in ExtensionNames /\ <<2, "keyUsage">> \in ExtensionNames
      /\ <<8, "extKeyUsage">> \in ExtensionNames /\ <<3, "subjectAltName">> \in ExtensionNames
      /\ <<7, "authorityKeyIdentifier">> \in ExtensionNames
  BY Zenon DEF ExtensionNames
<1>5. \A id, critical, content :
        LET z == Typed(id, critical, content)
        IN  /\ z.id = IntId(id) /\ z.id.int = id /\ z.critical = critical
            /\ z.value.content = content /\ z.value.kind = KindOf(id)
            /\ id \in 2 .. 8 => z.id # IntId(0)
  BY DEF Typed, IntId
<1>6. CASE p.kind = "basicConstraints"
  <2>1. y = Typed(EXT_BASIC_CONSTRAINTS_ID, e.critical, BasicConstraintsOf(p.ca, p.path_len))
    BY <1>6 DEF ExtensionOf, BasicConstraintsExt
  <2>2. /\ x.id.int = 4 /\ x.value.content = BasicConstraintsOf(p.ca, p.path_len)
        /\ y.critical = e.critical /\ y.id # IntId(0) /\ y.value.kind # "KeyUsage"
    <3>. HIDE DEF y
    <3>1. EXT_BASIC_CONSTRAINTS_ID = 4 /\ EXT_BASIC_CONSTRAINTS_ID \in 2 .. 8
      BY DEF EXT_BASIC_CONSTRAINTS_ID
    <3>. QED
      BY <1>3, <1>5, <2>1, <3>1 DEF y
  <2>3. SameExtension(x, e)
    BY <1>1, <1>4, <1>6, <2>2 DEF SameExtension, BasicConstraintsOf
  <2>. QED
    BY <1>1, <1>6, <2>2, <2>3
<1>7. CASE p.kind = "keyUsage"
  <2>1. y = KeyUsageExt(e.critical, p.flags)
    BY <1>7 DEF ExtensionOf
  <2>2. /\ x.id.int = 2 /\ x.value.uint = p.flags /\ y.critical = e.critical
        /\ y.id # IntId(0) /\ y.value.uint = p.flags
    BY <2>1 DEF KeyUsageExt, IntId, EXT_KEY_USAGE_ID
  <2>3. SameExtension(x, e)
    BY <1>1, <1>4, <1>7, <2>2 DEF SameExtension
  <2>. QED
    BY <1>1, <1>7, <2>2, <2>3
<1>8. CASE p.kind = "extKeyUsage"
  <2>. DEFINE content == [purposes |-> PurposeIds(p.purposes)]
  <2>1. y = Typed(EXT_EXT_KEY_USAGE_ID, e.critical, content)
    BY <1>8 DEF ExtensionOf, ExtKeyUsageExt
  <2>2. content.purposes = PurposeIds(p.purposes)
    OBVIOUS
  <2>. HIDE DEF y, content
  <2>3. /\ x.id.int = 8 /\ x.value.content = content
        /\ y.critical = e.critical /\ y.id # IntId(0) /\ y.value.kind # "KeyUsage"
    <3>1. EXT_EXT_KEY_USAGE_ID = 8 /\ EXT_EXT_KEY_USAGE_ID \in 2 .. 8
      BY DEF EXT_EXT_KEY_USAGE_ID
    <3>. QED
      BY <1>3, <1>5, <2>1, <3>1 DEF y
  <2>4. SamePurposes(x.value.content.purposes, p.purposes)
    <3>1. p.purposes \in SUBSET PurposeFlags
      BY <1>1, <1>8 DEF ParsedExtension
    <3>. QED
      BY <2>2, <2>3, <3>1, IssuedPurposes
  <2>5. SameExtension(x, e)
    BY <1>1, <1>4, <1>8, <2>3, <2>4 DEF SameExtension
  <2>. QED
    BY <1>1, <1>8, <2>3, <2>5 DEF y
<1>9. CASE p.kind = "subjectAltName"
  <2>. DEFINE texts == [i \in DOMAIN p.names |-> p.names[i].text]
              names == [i \in DOMAIN texts |-> [kind |-> GENERAL_NAME_DNS, value |-> texts[i]]]
              content == [names |-> names]
  <2>1. y = Typed(EXT_SUBJECT_ALT_NAME_ID, e.critical, content)
    BY <1>9 DEF ExtensionOf, SubjectAltNameExt
  <2>2. content.names = names
    OBVIOUS
  <2>3. SameNames(names, texts)
    <3>1. <<GENERAL_NAME_DNS, "dNSName">> \in GeneralNameTypeNames
      BY Zenon DEF GENERAL_NAME_DNS, GeneralNameTypeNames
    <3>2. DOMAIN names = DOMAIN texts
      OBVIOUS
    <3>3. \A i \in DOMAIN names : names[i].value = texts[i] /\ names[i].kind = GENERAL_NAME_DNS
      OBVIOUS
    <3>. HIDE DEF names, texts
    <3>. QED
      BY <3>1, <3>2, <3>3 DEF SameNames
  <2>. HIDE DEF y, content, names, texts
  <2>4. /\ x.id.int = 3 /\ x.value.content = content
        /\ y.critical = e.critical /\ y.id # IntId(0) /\ y.value.kind # "KeyUsage"
    <3>1. EXT_SUBJECT_ALT_NAME_ID = 3 /\ EXT_SUBJECT_ALT_NAME_ID \in 2 .. 8
      BY DEF EXT_SUBJECT_ALT_NAME_ID
    <3>. QED
      BY <1>3, <1>5, <2>1, <3>1 DEF y
  <2>5. SameNames(x.value.content.names, [i \in DOMAIN p.names |-> p.names[i].text])
    BY <2>2, <2>3, <2>4 DEF texts
  <2>6. SameExtension(x, e)
    BY <1>1, <1>4, <1>9, <2>4, <2>5 DEF SameExtension
  <2>. QED
    BY <1>1, <1>9, <2>4, <2>6 DEF y
<1>10. CASE p.kind = "authorityKeyIdentifier"
  <2>. DEFINE content == KeyIdentifierAlone(p.key_identifier.some)
  <2>1. y = Typed(EXT_AUTHORITY_KEY_IDENTIFIER_ID, e.critical, content)
    BY <1>10 DEF ExtensionOf, AuthorityKeyIdentifierExt
  <2>2. content = KeyIdentifierAlone(p.key_identifier.some)
    OBVIOUS
  <2>. HIDE DEF y, content
  <2>3. /\ x.id.int = 7 /\ x.value.content = content
        /\ y.critical = e.critical /\ y.id # IntId(0) /\ y.value.kind # "KeyUsage"
    <3>1. EXT_AUTHORITY_KEY_IDENTIFIER_ID = 7 /\ EXT_AUTHORITY_KEY_IDENTIFIER_ID \in 2 .. 8
      BY DEF EXT_AUTHORITY_KEY_IDENTIFIER_ID
    <3>. QED
      BY <1>3, <1>5, <2>1, <3>1 DEF y
  <2>4. SameExtension(x, e)
    BY <1>1, <1>4, <1>10, <2>2, <2>3 DEF SameExtension
  <2>. QED
    BY <1>1, <1>10, <2>3, <2>4 DEF y
<1>. QED
  BY <1>2, <1>6, <1>7, <1>8, <1>9, <1>10

\* convert_certificate: the list that has been written and read has each of the
\* parsed extensions once, and no others.
LEMMA IssuedList ==
  ASSUME NEW given \in Seq(X509Extension), NEW list \in ExtList,
         Collected(list, given, Len(EXTENSION_OIDS))
  PROVE  SameExtensions(ExtOnWire[list], given)
<1>. DEFINE out == ExtOnWire[list]
            parsed == {j \in DOMAIN given : IsParsed(given[j])}
            Sought5 == Sought(given, Len(EXTENSION_OIDS))
<1>1. \A j \in DOMAIN given : given[j] \in X509Extension
  <2>1. \A S : \A s \in Seq(S) : \A k \in DOMAIN s : s[k] \in S
    OBVIOUS
  <2>. QED
    BY <2>1, Zenon
<1>2. \A j \in parsed : \E k \in 1 .. Len(EXTENSION_OIDS) : given[j].oid = EXTENSION_OIDS[k]
  <2>. SUFFICES ASSUME NEW j \in parsed
                PROVE  \E k \in 1 .. Len(EXTENSION_OIDS) : given[j].oid = EXTENSION_OIDS[k]
    OBVIOUS
  <2>1. given[j].parsed \in ParsedExtension /\ given[j].parsed.kind = given[j].oid
    BY <1>1 DEF X509Extension, IsParsed
  <2>2. given[j].oid \in {"basicConstraints", "keyUsage", "extKeyUsage", "subjectAltName",
                          "authorityKeyIdentifier"}
    <3>1. given[j].parsed.kind # "unparsed"
      BY DEF IsParsed
    <3>. QED
      BY <2>1, <3>1 DEF ParsedExtension
  <2>3. /\ EXTENSION_OIDS[1] = "basicConstraints" /\ EXTENSION_OIDS[2] = "keyUsage"
        /\ EXTENSION_OIDS[3] = "extKeyUsage" /\ EXTENSION_OIDS[4] = "subjectAltName"
        /\ EXTENSION_OIDS[5] = "authorityKeyIdentifier"
        /\ 1 .. Len(EXTENSION_OIDS) = 1 .. 5
    BY DEF EXTENSION_OIDS
  <2>4. 1 \in 1 .. 5 /\ 2 \in 1 .. 5 /\ 3 \in 1 .. 5 /\ 4 \in 1 .. 5 /\ 5 \in 1 .. 5
    OBVIOUS
  <2>. QED
    BY <2>2, <2>3, <2>4, Zenon
<1>3. Sought5 = parsed
  BY <1>2, Zenon DEF Sought
<1>4. DOMAIN list = 1 .. Len(list)
  BY DEF ExtList
<1>5. ASSUME NEW j \in parsed, NEW i \in DOMAIN list, list[i] = ExtensionOf(given[j])
      PROVE  /\ i \in DOMAIN out
             /\ SameExtension(out[i], given[j])
             /\ \/ out[i].critical = given[j].critical
                \/ IsSingleKeyUsage(out) /\ given[j].parsed.flags = 0
  <2>. DEFINE e == given[j]
              x == out[i]
  <2>1. e \in X509Extension /\ IsParsed(e) /\ IsSupported(e.parsed)
    BY <1>1, <1>3 DEF Collected
  <2>. HIDE DEF e, x, out
  <2>2. list[i].id = ExtensionOf(e).id /\ list[i].value = ExtensionOf(e).value
    BY <1>5 DEF e
  <2>3. /\ ExtensionOf(e).critical = e.critical /\ ExtensionOf(e).id # IntId(0)
        /\ ExtensionOf(e).value.kind = "KeyUsage" =>
             e.parsed.kind = "keyUsage" /\ ExtensionOf(e).value.uint = e.parsed.flags
    BY <2>1, <2>2, IssuedExtension, Zenon
  <2>4. list[i].id # IntId(0)
    BY <2>2, <2>3
  <2>5. /\ DOMAIN out = DOMAIN list
        /\ x.id = list[i].id /\ x.value = list[i].value
        /\ \/ x.critical = list[i].critical
           \/ /\ IsSingleKeyUsage(out) /\ list[i].value.uint = 0
              /\ list[i].value.kind = "KeyUsage"
    BY <2>4, ArrivedExtension, Zenon DEF out, x
  <2>6. SameExtension(x, e)
    <3>1. x.id = ExtensionOf(e).id /\ x.value = ExtensionOf(e).value
      BY <2>2, <2>5
    <3>. QED
      BY <2>1, <3>1, IssuedExtension, Zenon
  <2>7. \/ x.critical = e.critical
        \/ IsSingleKeyUsage(out) /\ e.parsed.flags = 0
    BY <1>5, <2>3, <2>5 DEF e
  <2>. QED
    BY <2>5, <2>6, <2>7 DEF e, x
<1>6. Len(out) = Len(list)
  <2>1. list = [k \in 1 .. Len(list) |-> list[k]] /\ Len(list) \in Nat
    BY DEF ExtList
  <2>2. DOMAIN out = 1 .. Len(list)
    BY <2>1 DEF ExtOnWire, UnsignedZero
  <2>. QED
    BY <2>1, <2>2 DEF ExtOnWire, UnsignedZero
<1>7. Len(out) = Cardinality(parsed)
  BY <1>3, <1>6 DEF Collected
<1>8. ASSUME NEW j \in parsed
      PROVE  \E i \in DOMAIN out :
               /\ SameExtension(out[i], given[j])
               /\ \/ out[i].critical = given[j].critical
                  \/ IsSingleKeyUsage(out) /\ given[j].parsed.flags = 0
  <2>1. PICK i \in DOMAIN list : list[i] = ExtensionOf(given[j])
    BY <1>3, <1>4, <1>8 DEF Collected
  <2>. HIDE DEF out
  <2>. QED
    BY <1>5, <2>1, Zenon
<1>. HIDE DEF out
<1>9. SameExtensions(out, given)
  BY <1>7, <1>8, Zenon DEF SameExtensions
<1>. QED
  BY <1>9 DEF out

\* A name that has been written and read.
LEMMA ArrivedName ==
  ASSUME NEW n
  PROVE  /\ CP!NameArriving(C!NameOf(n)) # None
         /\ CP!NameArriving(C!NameOf(n)).content = NameOnWire[n]
         /\ CP!NameArriving(None) = None
BY DEF CP!NameArriving, C!NameOf, CP!NameOf, CP!None, None

\* The X.509 conversion, on its way through the hex.
LEMMA IssuedArrives ==
  ASSUME NEW cert \in X509Cert(TimeMin .. TimeMax), ReadsX509Fields(cert), NEW list \in ExtList,
         Collected(list, cert.extensions, Len(EXTENSION_OIDS))
  PROVE  LET v == CP!Arriving(Issued(cert, list))
         IN  /\ v.certificate_serial_number = FromBytesBe(cert.serial)
             /\ <<v.issuer_signature_algorithm.int, cert.signature_algorithm>>
                   \in SignatureAlgorithmNames
             /\ SameName(v.issuer.content, cert.issuer)
             /\ SameName(v.subject.content, cert.subject)
             /\ SameTime(v.validity_not_before, cert.not_before)
             /\ \/ SameTime(v.validity_not_after, cert.not_after) /\ cert.not_after < TimeMax
                \/ v.validity_not_after = None /\ cert.not_after = TimeMax
             /\ <<v.subject_public_key_algorithm.int, CurveName(cert)>>
                   \in PublicKeyAlgorithmNames
             /\ v.subject_public_key = cert.subject_public_key
             /\ v.issuer_signature_value = cert.signature_value
             /\ SameExtensions(v.extensions.content, cert.extensions)
<1>. DEFINE v == CP!Arriving(Issued(cert, list))
            serial == FromBytesBe(cert.serial)
            algorithm == IdOf(cert.signature_algorithm, SIGNATURE_ALGORITHM_OIDS)
            issuer == C!NameOf(NameToRdn(cert.issuer))
            before == C!Time(cert.not_before, FALSE)
            after == NotAfterRead(cert)
            subject == NameToRdn(cert.subject)
            key_algorithm == KeyAlgorithmId(cert)
            key == cert.subject_public_key
            signature == cert.signature_value
<1>1. /\ cert.issuer \in X509Name /\ cert.subject \in X509Name
      /\ cert.not_after \in TimeMin .. TimeMax
      /\ cert.key_parameters \in Option(STRING) /\ cert.extensions \in Seq(X509Extension)
  BY DEF X509Cert
<1>2. /\ Recognized(cert.signature_algorithm, SIGNATURE_ALGORITHM_OIDS)
      /\ ReadsX509Name(cert.issuer) /\ ReadsX509Name(cert.subject)
      /\ ReadsKeyAlgorithm(cert)
  BY DEF ReadsX509Fields
<1>3. v = CP!Arriving(Assembled(CERTIFICATE_TYPE_DER_REENCODED, serial, algorithm, issuer, before,
                                after, subject, key_algorithm, key, list, signature))
  BY DEF Issued
<1>. HIDE DEF v, serial, algorithm, issuer, before, after, subject, key_algorithm, key, signature
<1>. DEFINE w == CP!Arriving(Assembled(CERTIFICATE_TYPE_DER_REENCODED, serial, algorithm, issuer,
                                      before, after, subject, key_algorithm, key, list, signature))
<1>4. /\ v.certificate_serial_number = serial
      /\ v.issuer_signature_algorithm.int = algorithm
      /\ v.issuer = CP!NameArriving(issuer)
      /\ v.validity_not_before = CP!WholeSeconds(before)
      /\ v.validity_not_after = CP!WholeSeconds(after)
      /\ v.subject.content = NameOnWire[subject]
      /\ v.subject_public_key_algorithm.int = key_algorithm
      /\ v.subject_public_key = key
      /\ v.extensions.content = ExtOnWire[list]
      /\ v.issuer_signature_value = signature
  <2>1. /\ w.certificate_serial_number = serial
        /\ w.issuer_signature_algorithm.int = algorithm
        /\ w.issuer = CP!NameArriving(issuer)
        /\ w.validity_not_before = CP!WholeSeconds(before)
        /\ w.validity_not_after = CP!WholeSeconds(after)
        /\ w.subject.content = NameOnWire[subject]
        /\ w.subject_public_key_algorithm.int = key_algorithm
        /\ w.subject_public_key = key
        /\ w.extensions.content = ExtOnWire[list]
        /\ w.issuer_signature_value = signature
    BY ArrivedFields
  <2>2. v = w
    BY <1>3
  <2>. QED
    BY <2>1, <2>2, Zenon
<1>5. <<v.issuer_signature_algorithm.int, cert.signature_algorithm>> \in SignatureAlgorithmNames
  BY <1>2, <1>4, TablesAgree DEF algorithm
<1>6. SameName(v.issuer.content, cert.issuer) /\ SameName(v.subject.content, cert.subject)
  <2>1. v.issuer.content = NameOnWire[NameToRdn(cert.issuer)]
    BY <1>4, ArrivedName DEF issuer
  <2>2. v.subject.content = NameOnWire[NameToRdn(cert.subject)]
    BY <1>4 DEF subject
  <2>. QED
    BY <1>1, <1>2, <2>1, <2>2, IssuedName
<1>7. SameTime(v.validity_not_before, cert.not_before)
  BY <1>4, ArrivedTime DEF SameTime, before
<1>8. \/ SameTime(v.validity_not_after, cert.not_after) /\ cert.not_after < TimeMax
      \/ v.validity_not_after = None /\ cert.not_after = TimeMax
  <2>1. CASE cert.not_after = TimeMax
    <3>1. after = None
      BY <2>1 DEF after, NotAfterRead, NO_EXPIRATION_TIMESTAMP
    <3>. QED
      BY <1>4, <2>1, <3>1, ArrivedTime
  <2>2. CASE cert.not_after # TimeMax
    <3>1. after = C!Time(cert.not_after, FALSE)
      BY <2>2 DEF after, NotAfterRead, NO_EXPIRATION_TIMESTAMP
    <3>2. SameTime(v.validity_not_after, cert.not_after)
      BY <1>4, <3>1, ArrivedTime DEF SameTime
    <3>3. cert.not_after < TimeMax
      BY <1>1, <2>2, TimesAssumption
    <3>. QED
      BY <3>2, <3>3
  <2>. QED
    BY <2>1, <2>2
<1>9. <<v.subject_public_key_algorithm.int, CurveName(cert)>> \in PublicKeyAlgorithmNames
  BY <1>1, <1>2, <1>4, KeyAlgorithmAgrees DEF key_algorithm
<1>10. SameExtensions(v.extensions.content, cert.extensions)
  BY <1>1, <1>4, IssuedList
<1>. QED
  BY <1>4, <1>5, <1>6, <1>7, <1>8, <1>9, <1>10, Zenon DEF v, serial, key, signature

\* A certificate that was shown is what arrives of one the file converts to.
LEMMA ShownArrived ==
  ASSUME ProgramInv, printed # NoOutput, shown # C!NoValue
  PROVE  \E cert : ConvertedFrom(file, cert) /\ shown = CP!Arriving(cert)
BY SameSets, Zenon DEF ProgramInv, PrintedInv

\* So the certificate that is shown in the end is the one the file issued.
LEMMA ProgramArrivesAsIssued == ProgramInv => ArrivesAsIssued
<1>. SUFFICES ASSUME ProgramInv, printed # NoOutput, shown # C!NoValue, file.format = "x509"
              PROVE  ArrivesAsIssued
  BY DEF ArrivesAsIssued
<1>. DEFINE cert == file.cert
<1>1. PICK list \in ExtList : /\ Collected(list, cert.extensions, Len(EXTENSION_OIDS))
                              /\ ReadsX509Fields(cert)
                              /\ shown = CP!Arriving(Issued(cert, list))
  BY ShownArrived DEF ConvertedFrom
<1>2. cert \in X509Cert(TimeMin .. TimeMax)
  BY DEF ProgramInv, File
<1>. HIDE DEF cert
<1>3. /\ shown.certificate_serial_number = FromBytesBe(cert.serial)
      /\ <<shown.issuer_signature_algorithm.int, cert.signature_algorithm>>
            \in SignatureAlgorithmNames
      /\ SameName(shown.issuer.content, cert.issuer)
      /\ SameName(shown.subject.content, cert.subject)
      /\ SameTime(shown.validity_not_before, cert.not_before)
      /\ \/ SameTime(shown.validity_not_after, cert.not_after) /\ cert.not_after < TimeMax
         \/ shown.validity_not_after = None /\ cert.not_after = TimeMax
      /\ <<shown.subject_public_key_algorithm.int, CurveName(cert)>>
            \in PublicKeyAlgorithmNames
      /\ shown.subject_public_key = cert.subject_public_key
      /\ shown.issuer_signature_value = cert.signature_value
      /\ SameExtensions(shown.extensions.content, cert.extensions)
  BY <1>1, <1>2, IssuedArrives, Zenon
<1>. QED
  BY <1>3, Zenon DEF ArrivesAsIssued, cert

-----------------------------------------------------------------------------
(* What arrives of a document's hex                                        *)

\* The octets of digits, one by one, and their digits.
LEMMA OctetsOfDigits ==
  ASSUME NEW n \in Nat, NEW d \in Seq(0 .. HexBase - 1), Len(d) = 2 * n
  PROVE  /\ HexDecoded(d) \in Seq(Nat) /\ Len(HexDecoded(d)) = n
         /\ \A k \in 1 .. n : HexDecoded(d)[k] = HexBase * d[2 * k - 1] + d[2 * k]
         /\ \A k \in 1 .. 2 * n : IF k % 2 = 1 THEN HexDecoded(d)[(k + 1) \div 2] \div HexBase = d[k]
                                             ELSE HexDecoded(d)[(k + 1) \div 2] % HexBase = d[k]
<1>. DEFINE b == HexDecoded(d)
<1>1. HexBase = 16 /\ HexBase - 1 = 15
  BY DEF HexBase
<1>2. d \in Seq(0 .. 15) /\ \A k \in 1 .. 2 * n : d[k] \in 0 .. 15
  BY <1>1
<1>3. b = [k \in 1 .. n |-> HexBase * d[2 * k - 1] + d[2 * k]]
  <2>1. \A m \in Nat : (2 * m) \div 2 = m
    OBVIOUS
  <2>2. Len(d) \div 2 = n
    BY <2>1
  <2>. QED
    BY <2>2 DEF HexDecoded
<1>. HIDE DEF b
<1>4. ASSUME NEW k \in 1 .. n
      PROVE  /\ 2 * k - 1 \in 1 .. 2 * n /\ 2 * k \in 1 .. 2 * n
             /\ b[k] = 16 * d[2 * k - 1] + d[2 * k] /\ b[k] \in Nat
  <2>1. 2 * k - 1 \in 1 .. 2 * n /\ 2 * k \in 1 .. 2 * n
    OBVIOUS
  <2>2. b[k] = 16 * d[2 * k - 1] + d[2 * k]
    BY <1>1, <1>3
  <2>3. \A h, l \in 0 .. 15 : 16 * h + l \in Nat
    OBVIOUS
  <2>. QED
    BY <1>2, <2>1, <2>2, <2>3
<1>5. b \in Seq(Nat) /\ Len(b) = n
  <2>1. b \in [1 .. n -> Nat]
    <3>1. DOMAIN b = 1 .. n /\ b = [k \in 1 .. n |-> b[k]]
      BY <1>3
    <3>. QED
      BY <1>4, <3>1
  <2>2. \A m \in Nat : \A S : \A s \in [1 .. m -> S] : s \in Seq(S) /\ Len(s) = m
    OBVIOUS
  <2>. QED
    BY <2>1, <2>2, Zenon
<1>6. \A h, l \in 0 .. 15 : \A x : x = 16 * h + l => x \div 16 = h /\ x % 16 = l
  <2>1. \A h, l \in 0 .. 15 : (16 * h + l) \div 16 = h /\ (16 * h + l) % 16 = l
    OBVIOUS
  <2>. QED
    BY <2>1, Zenon
<1>7. ASSUME NEW k \in 1 .. 2 * n
      PROVE  IF k % 2 = 1 THEN b[(k + 1) \div 2] \div 16 = d[k] ELSE b[(k + 1) \div 2] % 16 = d[k]
  <2>. DEFINE i == (k + 1) \div 2
  <2>1. /\ i \in 1 .. n
        /\ IF k % 2 = 1 THEN k = 2 * i - 1 ELSE k = 2 * i
    <3>1. \A m \in Nat \ {0} : /\ m <= 2 * n => (m + 1) \div 2 \in 1 .. n
                              /\ IF m % 2 = 1 THEN m = 2 * ((m + 1) \div 2) - 1
                                              ELSE m = 2 * ((m + 1) \div 2)
      OBVIOUS
    <3>. QED
      BY <3>1
  <2>. HIDE DEF i
  <2>2. b[i] = 16 * d[2 * i - 1] + d[2 * i] /\ d[2 * i - 1] \in 0 .. 15 /\ d[2 * i] \in 0 .. 15
    BY <1>2, <1>4, <2>1
  <2>3. b[i] \div 16 = d[2 * i - 1] /\ b[i] % 16 = d[2 * i]
    <3>. DEFINE h == d[2 * i - 1]
                l == d[2 * i]
                x == b[i]
    <3>1. h \in 0 .. 15 /\ l \in 0 .. 15 /\ x = 16 * h + l
      BY <2>2
    <3>. HIDE DEF h, l, x
    <3>2. x \div 16 = h /\ x % 16 = l
      BY <1>6, <3>1
    <3>. QED
      BY <3>2 DEF h, l, x
  <2>4. IF k % 2 = 1 THEN b[i] \div 16 = d[k] ELSE b[i] % 16 = d[k]
    BY <2>1, <2>3
  <2>. QED
    BY <2>4 DEF i
<1>. QED
  BY <1>1, <1>3, <1>5, <1>7 DEF b

\* hex::encode undoes hex::decode.
LEMMA HexSurvives ==
  ASSUME NEW n \in Nat, NEW d \in Seq(0 .. HexBase - 1), Len(d) = 2 * n
  PROVE  HexEncoded(HexDecoded(d)) = d
<1>. DEFINE b == HexDecoded(d)
<1>1. /\ Len(b) = n
      /\ \A k \in 1 .. 2 * n : IF k % 2 = 1 THEN b[(k + 1) \div 2] \div HexBase = d[k]
                                           ELSE b[(k + 1) \div 2] % HexBase = d[k]
  BY OctetsOfDigits
<1>. HIDE DEF b
<1>2. HexEncoded(b) = [k \in 1 .. 2 * n |-> IF k % 2 = 1 THEN b[(k + 1) \div 2] \div HexBase
                                                       ELSE b[(k + 1) \div 2] % HexBase]
  BY <1>1 DEF HexEncoded
<1>3. HexEncoded(b) = [k \in 1 .. 2 * n |-> d[k]]
  BY <1>1, <1>2
<1>4. d = [k \in 1 .. 2 * n |-> d[k]]
  OBVIOUS
<1>. QED
  BY <1>3, <1>4 DEF b

\* Hex of a document that has been read, written and printed: its digits.
LEMMA HexKept ==
  ASSUME NEW j \in HexString, ReadsTolerantHex(j)
  PROVE  HexEncoded(TolerantHexRead(j)) = Cleaned(j.digits)
BY CleanedTyped, HexSurvives DEF TolerantHexRead

\* BigUint::from_bytes_be drops the digits before the first that is not zero.
LEMMA LeadingZeros ==
  ASSUME NEW b \in Seq(Nat)
  PROVE  /\ (\A i \in 1 .. Len(b) : b[i] = 0) => FromBytesBe(b) = <<>>
         /\ \A m \in 1 .. Len(b) : b[m] # 0 /\ (\A i \in 1 .. m - 1 : b[i] = 0)
              => FromBytesBe(b) = SubSeq(b, m, Len(b))
         /\ \/ \A i \in 1 .. Len(b) : b[i] = 0
            \/ \E m \in 1 .. Len(b) : b[m] # 0 /\ \A i \in 1 .. m - 1 : b[i] = 0
<1>. DEFINE digits == {i \in DOMAIN b : b[i] # 0}
<1>1. DOMAIN b = 1 .. Len(b) /\ Len(b) \in Nat
  OBVIOUS
<1>2. IsFiniteSet(digits) /\ digits \subseteq Nat
  <2>1. digits \subseteq 1 .. Len(b) /\ Len(b) \in Int
    BY <1>1
  <2>2. IsFiniteSet(1 .. Len(b))
    BY <2>1, FS_Interval
  <2>3. \A x \in 1 .. Len(b) : x \in Nat
    BY <1>1
  <2>. HIDE DEF digits
  <2>. QED
    BY <2>1, <2>2, <2>3, FS_Subset
<1>3. digits # {} => Min(digits) \in digits /\ \A y \in digits : Min(digits) <= y
  <2>. HIDE DEF digits
  <2>1. CP!Min(digits) = Min(digits)
    BY DEF CP!Min, Min
  <2>2. ASSUME digits # {}
        PROVE  CP!Min(digits) \in digits /\ \A y \in digits : CP!Min(digits) <= y
    <3>1. CP!IsFiniteSet(digits)
      BY <1>2 DEF CP!IsFiniteSet, IsFiniteSet
    <3>. QED
      BY <1>2, <2>2, <3>1, CP!MinFacts, NameLoss, ExtLoss, Instantiated
  <2>. QED
    BY <2>1, <2>2
<1>4. FromBytesBe(b) = IF digits = {} THEN <<>> ELSE SubSeq(b, Min(digits), Len(b))
  BY DEF FromBytesBe
<1>5. digits = {} <=> \A i \in 1 .. Len(b) : b[i] = 0
  BY <1>1
<1>6. ASSUME NEW m \in 1 .. Len(b), b[m] # 0, \A i \in 1 .. m - 1 : b[i] = 0
      PROVE  digits # {} /\ Min(digits) = m
  <2>1. m \in digits
    BY <1>1, <1>6
  <2>2. \A y \in digits : y \in 1 .. Len(b) /\ b[y] # 0
    BY <1>1
  <2>. HIDE DEF digits
  <2>3. Min(digits) \in 1 .. Len(b) /\ b[Min(digits)] # 0 /\ Min(digits) <= m
    BY <1>3, <2>1, <2>2
  <2>. QED
    BY <1>6, <2>1, <2>3
<1>7. digits # {} =>
        \E m \in 1 .. Len(b) : b[m] # 0 /\ \A i \in 1 .. m - 1 : b[i] = 0
  <2>. SUFFICES ASSUME digits # {}
                PROVE  \E m \in 1 .. Len(b) : b[m] # 0 /\ \A i \in 1 .. m - 1 : b[i] = 0
    OBVIOUS
  <2>. DEFINE m == Min(digits)
  <2>1. m \in digits /\ \A y \in digits : m <= y
    BY <1>3
  <2>2. \A i \in 1 .. Len(b) : b[i] # 0 => i \in digits
    BY <1>1
  <2>3. m \in 1 .. Len(b) /\ b[m] # 0
    BY <1>1, <2>1
  <2>. HIDE DEF m, digits
  <2>4. \A i \in 1 .. m - 1 : b[i] = 0
    BY <1>1, <2>1, <2>2, <2>3
  <2>. QED
    BY <2>3, <2>4
<1>. HIDE DEF digits
<1>. QED
  BY <1>4, <1>5, <1>6, <1>7

\* What is left behind the first m octets is what is left behind 2 * m digits.
LEMMA HexBehind ==
  ASSUME NEW n \in Nat, NEW d \in Seq(0 .. HexBase - 1), Len(d) = 2 * n, NEW m \in 1 .. n
  PROVE  LET tail == HexEncoded(SubSeq(HexDecoded(d), m, n))
         IN  /\ tail \in Seq(Nat) /\ Len(tail) = 2 * (n - m + 1)
             /\ \A k \in 1 .. 2 * (n - m + 1) : tail[k] = d[k + 2 * (m - 1)]
<1>. DEFINE b == HexDecoded(d)
            s == SubSeq(b, m, n)
            l == n - m + 1
            tail == HexEncoded(s)
<1>1. /\ b \in Seq(Nat) /\ Len(b) = n
      /\ \A k \in 1 .. 2 * n : IF k % 2 = 1 THEN b[(k + 1) \div 2] \div HexBase = d[k]
                                           ELSE b[(k + 1) \div 2] % HexBase = d[k]
  BY OctetsOfDigits
<1>. HIDE DEF b
<1>2. l \in Nat /\ Len(s) = l /\ \A k \in 1 .. l : s[k] = b[k + m - 1]
  BY <1>1
<1>. HIDE DEF s
<1>3. tail = [k \in 1 .. 2 * l |-> IF k % 2 = 1 THEN s[(k + 1) \div 2] \div HexBase
                                              ELSE s[(k + 1) \div 2] % HexBase]
  BY <1>2 DEF HexEncoded
<1>. HIDE DEF tail
<1>4. ASSUME NEW k \in 1 .. 2 * l
      PROVE  tail[k] = d[k + 2 * (m - 1)] /\ tail[k] \in Nat
  <2>. DEFINE k2 == k + 2 * (m - 1)
              i == (k + 1) \div 2
  <2>1. k2 \in 1 .. 2 * n /\ i \in 1 .. l
    <3>1. \A x \in Nat : \A y \in Nat : x <= 2 * y /\ x >= 1 => (x + 1) \div 2 \in 1 .. y
      OBVIOUS
    <3>2. k \in Nat /\ k <= 2 * l /\ k >= 1
      BY <1>2
    <3>. QED
      BY <1>2, <3>1, <3>2
  <2>2. (k2 + 1) \div 2 = i + m - 1 /\ (k2 % 2 = 1 <=> k % 2 = 1)
    <3>1. \A x \in Nat, y \in Nat : /\ (x + 2 * y + 1) \div 2 = (x + 1) \div 2 + y
                                    /\ (x + 2 * y) % 2 = x % 2
      OBVIOUS
    <3>2. k \in Nat /\ m - 1 \in Nat
      BY <1>2
    <3>3. /\ (k + 2 * (m - 1) + 1) \div 2 = (k + 1) \div 2 + (m - 1)
          /\ (k + 2 * (m - 1)) % 2 = k % 2
      BY <3>1, <3>2
    <3>4. i \in Int
      BY <2>1
    <3>. QED
      BY <3>3, <3>4
  <2>. HIDE DEF k2, i
  <2>3. s[i] = b[i + m - 1]
    BY <1>2, <2>1
  <2>4. tail[k] = IF k % 2 = 1 THEN s[i] \div HexBase ELSE s[i] % HexBase
    BY <1>3 DEF i
  <2>5. tail[k] = d[k2]
    BY <1>1, <2>1, <2>2, <2>3, <2>4
  <2>6. d[k2] \in Nat
    <3>1. HexBase - 1 \in Nat
      BY DEF HexBase
    <3>. QED
      BY <2>1, <3>1
  <2>. QED
    BY <2>5, <2>6 DEF k2
<1>5. tail \in Seq(Nat) /\ Len(tail) = 2 * l
  <2>1. 2 * l \in Nat
    BY <1>2
  <2>2. tail \in [1 .. 2 * l -> Nat]
    <3>1. DOMAIN tail = 1 .. 2 * l /\ tail = [k \in 1 .. 2 * l |-> tail[k]]
      BY <1>3
    <3>. QED
      BY <1>4, <3>1
  <2>3. \A z \in Nat : \A S : \A f \in [1 .. z -> S] : f \in Seq(S) /\ Len(f) = z
    OBVIOUS
  <2>. QED
    BY <2>1, <2>2, <2>3, Zenon
<1>. QED
  BY <1>4, <1>5 DEF tail, s, b

\* A serial number that has been read, written and printed is the same number.
LEMMA SerialKept ==
  ASSUME NEW n \in Nat, NEW d \in Seq(0 .. HexBase - 1), Len(d) = 2 * n
  PROVE  FromBytesBe(HexEncoded(FromBytesBe(HexDecoded(d)))) = FromBytesBe(d)
<1>. DEFINE b == HexDecoded(d)
<1>1. HexBase = 16 /\ HexBase - 1 = 15
  BY DEF HexBase
<1>2. d \in Seq(Nat) /\ \A k \in 1 .. 2 * n : d[k] \in 0 .. 15
  <2>1. \A S : \A T : S \subseteq T => (\A s \in Seq(S) : s \in Seq(T))
    OBVIOUS
  <2>2. 0 .. 15 \subseteq Nat
    OBVIOUS
  <2>3. d \in Seq(0 .. 15)
    BY <1>1
  <2>. QED
    BY <2>1, <2>2, <2>3
<1>3. /\ b \in Seq(Nat) /\ Len(b) = n
      /\ \A k \in 1 .. n : b[k] = 16 * d[2 * k - 1] + d[2 * k]
  BY <1>1, OctetsOfDigits
<1>. HIDE DEF b
<1>4. \A k \in 1 .. n : /\ 2 * k - 1 \in 1 .. 2 * n /\ 2 * k \in 1 .. 2 * n
                        /\ b[k] = 0 <=> d[2 * k - 1] = 0 /\ d[2 * k] = 0
  <2>. SUFFICES ASSUME NEW k \in 1 .. n
                PROVE  /\ 2 * k - 1 \in 1 .. 2 * n /\ 2 * k \in 1 .. 2 * n
                       /\ b[k] = 0 <=> d[2 * k - 1] = 0 /\ d[2 * k] = 0
    OBVIOUS
  <2>1. 2 * k - 1 \in 1 .. 2 * n /\ 2 * k \in 1 .. 2 * n
    OBVIOUS
  <2>2. \A h, l \in 0 .. 15 : 16 * h + l = 0 <=> h = 0 /\ l = 0
    OBVIOUS
  <2>. QED
    <3>. DEFINE h == d[2 * k - 1]
                l == d[2 * k]
                x == b[k]
    <3>1. h \in 0 .. 15 /\ l \in 0 .. 15 /\ x = 16 * h + l
      BY <1>2, <1>3, <2>1
    <3>. HIDE DEF h, l, x
    <3>2. x = 0 <=> h = 0 /\ l = 0
      BY <2>2, <3>1
    <3>. QED
      BY <2>1, <3>2 DEF h, l, x
<1>5. CASE \A i \in 1 .. n : b[i] = 0
  <2>1. FromBytesBe(b) = <<>>
    BY <1>3, <1>5, LeadingZeros
  <2>2. HexEncoded(<<>>) \in Seq(Nat) /\ Len(HexEncoded(<<>>)) = 0
    BY DEF HexEncoded
  <2>3. FromBytesBe(HexEncoded(<<>>)) = <<>>
    BY <2>2, LeadingZeros
  <2>4. \A k \in 1 .. 2 * n : d[k] = 0
    <3>. SUFFICES ASSUME NEW k \in 1 .. 2 * n PROVE d[k] = 0
      OBVIOUS
    <3>1. \E i \in 1 .. n : k = 2 * i - 1 \/ k = 2 * i
      <4>1. (k + 1) \div 2 \in 1 .. n /\ (k = 2 * ((k + 1) \div 2) - 1 \/ k = 2 * ((k + 1) \div 2))
        OBVIOUS
      <4>. QED
        BY <4>1
    <3>. QED
      BY <1>4, <1>5, <3>1
  <2>5. FromBytesBe(d) = <<>>
    BY <1>2, <2>4, LeadingZeros
  <2>. QED
    BY <2>1, <2>3, <2>5 DEF b
<1>6. ASSUME NEW m \in 1 .. n, b[m] # 0, \A i \in 1 .. m - 1 : b[i] = 0
      PROVE  FromBytesBe(HexEncoded(FromBytesBe(b))) = FromBytesBe(d)
  <2>. DEFINE tail == HexEncoded(SubSeq(b, m, n))
              o == 2 * (m - 1)
              l == 2 * (n - m + 1)
  <2>1. FromBytesBe(b) = SubSeq(b, m, n)
    BY <1>3, <1>6, LeadingZeros
  <2>2. /\ tail \in Seq(Nat) /\ Len(tail) = l
        /\ \A k \in 1 .. l : tail[k] = d[k + o]
    BY HexBehind DEF b
  <2>3. o \in Nat /\ l \in Nat /\ o + l = 2 * n
    OBVIOUS
  <2>4. PICK p \in 1 .. 2 : /\ o + p \in 1 .. 2 * n /\ p <= l /\ d[o + p] # 0
                            /\ \A i \in 1 .. p - 1 : d[o + i] = 0
    <3>1. o + 1 = 2 * m - 1 /\ o + 2 = 2 * m /\ 2 <= l
      OBVIOUS
    <3>2. o + 1 \in 1 .. 2 * n /\ o + 2 \in 1 .. 2 * n
      OBVIOUS
    <3>3. d[o + 1] # 0 \/ (d[o + 1] = 0 /\ d[o + 2] # 0)
      BY <1>4, <1>6, <3>1
    <3>. HIDE DEF o, l
    <3>4. \A i \in 1 .. 2 - 1 : i = 1
      OBVIOUS
    <3>5. \A i : i \notin 1 .. 1 - 1
      OBVIOUS
    <3>. DEFINE First(q) == /\ o + q \in 1 .. 2 * n /\ q <= l /\ d[o + q] # 0
                            /\ \A i \in 1 .. q - 1 : d[o + i] = 0
    <3>6. d[o + 1] # 0 => First(1)
      <4>1. 1 <= l
        BY <3>1 DEF l
      <4>. QED
        BY <3>2, <3>5, <4>1
    <3>7. d[o + 1] = 0 /\ d[o + 2] # 0 => First(2)
      BY <3>1, <3>2, <3>4
    <3>8. First(1) \/ First(2)
      BY <3>3, <3>6, <3>7
    <3>9. 1 \in 1 .. 2 /\ 2 \in 1 .. 2
      OBVIOUS
    <3>. QED
      BY <3>8, <3>9, Zenon
  <2>5. \A i \in 1 .. o : d[i] = 0
    <3>. SUFFICES ASSUME NEW i \in 1 .. o PROVE d[i] = 0
      OBVIOUS
    <3>1. PICK k \in 1 .. m - 1 : i = 2 * k - 1 \/ i = 2 * k
      <4>1. /\ (i + 1) \div 2 \in 1 .. m - 1
            /\ i = 2 * ((i + 1) \div 2) - 1 \/ i = 2 * ((i + 1) \div 2)
        OBVIOUS
      <4>. QED
        BY <4>1
    <3>2. k \in 1 .. n /\ b[k] = 0
      BY <1>6
    <3>3. d[2 * k - 1] = 0 /\ d[2 * k] = 0
      BY <1>4, <3>2
    <3>. QED
      BY <3>1, <3>3
  <2>. HIDE DEF tail, o, l
  <2>6. FromBytesBe(d) = SubSeq(d, o + p, 2 * n)
    <3>1. \A i \in 1 .. (o + p) - 1 : d[i] = 0
      <4>. SUFFICES ASSUME NEW i \in 1 .. (o + p) - 1, i \notin 1 .. o PROVE d[i] = 0
        BY <2>5
      <4>1. i - o \in 1 .. p - 1 /\ i = o + (i - o)
        BY <2>3
      <4>. QED
        BY <2>4, <4>1
    <3>. QED
      BY <1>2, <2>4, <3>1, LeadingZeros
  <2>7. FromBytesBe(tail) = SubSeq(tail, p, l)
    <3>1. p \in 1 .. l /\ tail[p] # 0
      BY <2>2, <2>3, <2>4
    <3>2. \A i \in 1 .. p - 1 : tail[i] = 0
      <4>. SUFFICES ASSUME NEW i \in 1 .. p - 1 PROVE tail[i] = 0
        OBVIOUS
      <4>1. i \in 1 .. l /\ i + o = o + i
        BY <2>3, <2>4
      <4>. QED
        BY <2>2, <2>4, <4>1
    <3>. QED
      BY <2>2, <3>1, <3>2, LeadingZeros
  <2>8. SubSeq(tail, p, l) = SubSeq(d, o + p, 2 * n)
    <3>. DEFINE r == l - p + 1
                s == SubSeq(tail, p, l)
                t == SubSeq(d, o + p, 2 * n)
    <3>1. s = [k \in 1 .. r |-> tail[k + p - 1]]
      BY <2>2, <2>3, <2>4
    <3>2. t = [k \in 1 .. r |-> d[k + (o + p) - 1]]
      <4>1. 2 * n - (o + p) + 1 = r
        BY <2>3
      <4>2. t = [k \in 1 .. 2 * n - (o + p) + 1 |-> d[k + (o + p) - 1]]
        BY <1>2, <2>3, <2>4
      <4>. QED
        BY <4>1, <4>2
    <3>3. \A k \in 1 .. r : tail[k + p - 1] = d[k + (o + p) - 1]
      <4>. SUFFICES ASSUME NEW k \in 1 .. r PROVE tail[k + p - 1] = d[k + (o + p) - 1]
        OBVIOUS
      <4>1. k + p - 1 \in 1 .. l /\ (k + p - 1) + o = k + (o + p) - 1
        BY <2>3, <2>4
      <4>. QED
        BY <2>2, <4>1
    <3>. HIDE DEF r, s, t
    <3>4. s = t
      BY <3>1, <3>2, <3>3
    <3>. QED
      BY <3>4 DEF s, t
  <2>. QED
    BY <2>1, <2>6, <2>7, <2>8 DEF tail
<1>7. \/ \A i \in 1 .. n : b[i] = 0
      \/ \E m \in 1 .. n : b[m] # 0 /\ \A i \in 1 .. m - 1 : b[i] = 0
  BY <1>3, LeadingZeros
<1>. QED
  BY <1>5, <1>6, <1>7 DEF b

-----------------------------------------------------------------------------
(* What arrives of the other members of a document                         *)

\* Members that are numbers, hex and text.
LEMMA MemberFacts ==
  ASSUME NEW times, NEW j \in Scalar(times)
  PROVE  /\ \A S : IsNumber(j, S) => j = Number(j.number)
         /\ ReadsTolerantHex(j) => j \in HexString
         /\ IsUnset(j) <=> j.json \in {"missing", "null"}
<1>1. \A S : IsNumber(j, S) => j = Number(j.number)
  <2>. SUFFICES ASSUME j.json = "number" PROVE j = Number(j.number)
    BY DEF IsNumber
  <2>1. j \in [json : {"number"}, number : Int]
    BY DEF Scalar, Missing, Null, HexString
  <2>. QED
    BY <2>1 DEF Number
<1>2. ReadsTolerantHex(j) => j \in HexString
  BY DEF ReadsTolerantHex, Scalar, Missing, Null
<1>3. IsUnset(j) <=> j.json \in {"missing", "null"}
  BY DEF IsUnset, Missing, Null, Scalar, HexString
<1>. QED
  BY <1>1, <1>2, <1>3

\* JsonName: a text, or the attributes of a name, in their order.
LEMMA DescribedNameArrives ==
  ASSUME NEW times, NEW j \in JsonMember(times), ReadsJsonName(j)
  PROVE  DescribedName(NameOnWire[IntoName(j)], j)
<1>. DEFINE rdn == IntoName(j)
            out == NameOnWire[rdn]
<1>1. rdn \in NameList
  BY JsonNameTyped
<1>2. out = [i \in DOMAIN rdn |-> UnsignedAttr(rdn[i])]
  BY <1>1 DEF NameOnWire
<1>. HIDE DEF rdn, out
<1>3. CASE j.json = "text"
  <2>. DEFINE a == Registered(COMMON_NAME_ID, FALSE, SpecialTextOf(j.text))
  <2>1. rdn = <<a>>
    BY <1>3 DEF IntoName, rdn
  <2>2. /\ UnsignedAttr(a).id = 1 /\ ~UnsignedAttr(a).printable
        /\ SameText(UnsignedAttr(a).value, j.text)
    <3>. DEFINE printable == FALSE
    <3>1. printable \in BOOLEAN /\ COMMON_NAME_ID = 1
      BY DEF COMMON_NAME_ID
    <3>. HIDE DEF printable
    <3>2. a = Registered(1, printable, SpecialTextOf(j.text))
      BY <3>1 DEF printable
    <3>. HIDE DEF a
    <3>3. /\ UnsignedAttr(a).id = 1
          /\ \/ UnsignedAttr(a).printable = printable
             \/ UnsignedAttr(a).id = 0 /\ ~UnsignedAttr(a).printable
          /\ SameText(UnsignedAttr(a).value, j.text)
      BY <3>1, <3>2, ArrivedAttribute
    <3>. QED
      BY <3>3, Zenon DEF printable
  <2>. HIDE DEF a
  <2>3. DOMAIN rdn = {1} /\ rdn[1] = a
    BY <2>1
  <2>4. out = <<UnsignedAttr(a)>>
    BY <1>2, <2>3
  <2>5. Len(out) = 1 /\ out[1] = UnsignedAttr(a)
    BY <2>4
  <2>6. out[1].id = 1 /\ ~out[1].printable /\ SameText(out[1].value, j.text)
    BY <2>2, <2>5, Zenon
  <2>. QED
    BY <1>3, <2>5, <2>6 DEF DescribedName, out, rdn
<1>4. CASE j.json = "attributes"
  <2>. DEFINE list == j.attributes
              Made(i) == Registered(list[i].id.number, FlagRead(list[i].printable_string),
                                    SpecialTextOf(list[i].value.text))
  <2>1. list \in Seq(JsonRdnAttribute(times))
    BY <1>4 DEF JsonMember, Scalar, Missing, Null, HexString
  <2>2. rdn = [i \in DOMAIN list |-> Made(i)]
    BY <1>4 DEF IntoName, rdn
  <2>. HIDE DEF list, Made
  <2>3. DOMAIN out = DOMAIN list /\ \A i \in DOMAIN list : out[i] = UnsignedAttr(Made(i))
    BY <1>2, <2>2
  <2>4. ASSUME NEW i \in DOMAIN list
        PROVE  /\ out[i].id = list[i].id.number
               /\ \/ out[i].printable = (list[i].printable_string = Bool(TRUE))
                  \/ out[i].id = 0 /\ ~out[i].printable
               /\ SameText(out[i].value, list[i].value.text)
    <3>. DEFINE id == list[i].id.number
                printable == FlagRead(list[i].printable_string)
                t == list[i].value.text
    <3>1. list[i] \in JsonRdnAttribute(times)
      BY <2>1
    <3>2. list[i].printable_string \in Scalar(times)
      BY <3>1 DEF JsonRdnAttribute
    <3>3. /\ printable \in BOOLEAN
          /\ printable <=> list[i].printable_string = Bool(TRUE)
      BY <3>2, FlagFacts
    <3>4. out[i] = UnsignedAttr(Registered(id, printable, SpecialTextOf(t)))
      BY <2>3 DEF Made
    <3>. HIDE DEF id, printable, t
    <3>5. printable = (list[i].printable_string = Bool(TRUE))
      BY <3>3, Zenon
    <3>6. /\ out[i].id = id
          /\ \/ out[i].printable = printable
             \/ out[i].id = 0 /\ ~out[i].printable
          /\ SameText(out[i].value, t)
      BY <3>3, <3>4, ArrivedAttribute
    <3>. QED
      BY <3>5, <3>6, Zenon DEF id, t
  <2>. QED
    BY <1>4, <2>3, <2>4, Zenon DEF DescribedName, out, rdn, list
<1>. QED
  BY <1>3, <1>4 DEF ReadsJsonName

\* Dates: the fraction of a second is lost.
LEMMA DescribedTimeArrives ==
  ASSUME NEW j \in Scalar(TimeMin .. TimeMax), IsUnset(j) \/ ReadsDate(j)
  PROVE  DescribedTime(CP!WholeSeconds(TimeRead(j)), j)
<1>1. CASE IsUnset(j)
  <2>1. CP!WholeSeconds(TimeRead(j)) = None
    BY <1>1, ArrivedTime DEF TimeRead
  <2>. QED
    BY <1>1, <2>1 DEF DescribedTime
<1>2. CASE ~IsUnset(j)
  <2>1. TimeRead(j) = C!Time(j.secs, j.fraction) /\ j.json = "date"
    BY <1>2 DEF TimeRead, ReadsDate
  <2>2. CP!WholeSeconds(TimeRead(j)) = C!Time(j.secs, FALSE)
    BY <2>1, ArrivedTime
  <2>3. C!Time(j.secs, FALSE) # None /\ C!Time(j.secs, FALSE).secs = j.secs
    BY DEF C!Time, None
  <2>. QED
    BY <2>1, <2>2, <2>3 DEF DescribedTime
<1>. QED
  BY <1>1, <1>2

\* The fields of an extension built by Typed.
LEMMA TypedFacts ==
  ASSUME NEW id \in 2 .. 8, NEW critical, NEW content
  PROVE  LET y == Typed(id, critical, content)
         IN  /\ y.id = IntId(id) /\ y.id.int = id /\ y.critical = critical
             /\ y.value.content = content /\ y.value.kind = KindOf(id)
             /\ y.id # IntId(0)
BY DEF Typed, IntId

\* A SubjectAltName has the texts, as names that registry.rs calls dNSName.
LEMMA DnsNames ==
  ASSUME NEW texts
  PROVE  SameNames([i \in DOMAIN texts |-> [kind |-> GENERAL_NAME_DNS, value |-> texts[i]]], texts)
<1>. DEFINE names == [i \in DOMAIN texts |-> [kind |-> GENERAL_NAME_DNS, value |-> texts[i]]]
<1>1. <<GENERAL_NAME_DNS, "dNSName">> \in GeneralNameTypeNames
  BY Zenon DEF GENERAL_NAME_DNS, GeneralNameTypeNames
<1>2. /\ DOMAIN names = DOMAIN texts
      /\ \A i \in DOMAIN names : names[i].value = texts[i] /\ names[i].kind = GENERAL_NAME_DNS
  OBVIOUS
<1>. HIDE DEF names
<1>3. SameNames(names, texts)
  BY <1>1, <1>2 DEF SameNames
<1>. QED
  BY <1>3 DEF names

\* The conversion of an extension keeps its members, whatever becomes of its
\* criticality.
LEMMA DescribedExtensionArrives ==
  ASSUME NEW times, NEW e \in JsonExtension(times), ReadsJsonExtension(e), NEW x,
         x.id = IntoExtension(e).id, x.value = IntoExtension(e).value,
         \/ x.critical = (e.critical = Bool(TRUE))
         \/ e.name = "key_usage" /\ e.value = Number(0) /\ ~x.critical
  PROVE  DescribedExtension(x, e)
<1>. DEFINE y == IntoExtension(e)
            critical == FlagRead(e.critical)
<1>1. /\ e.ca \in Scalar(times) /\ e.path_len \in Scalar(times) /\ e.value \in Scalar(times)
      /\ e.key_identifier \in Scalar(times)
      /\ e.dns_names \in JsonMember(times) /\ e.oids \in JsonMember(times)
  BY DEF JsonExtension
<1>2. e.name \in {"basic_constraints", "key_usage", "subject_alt_name", "authority_key_identifier",
                  "ext_key_usage"}
  BY DEF ReadsJsonExtension
<1>3. /\ <<"basic_constraints", "basicConstraints">> \in ExtensionMembers
      /\ <<"key_usage", "keyUsage">> \in ExtensionMembers
      /\ <<"subject_alt_name", "subjectAltName">> \in ExtensionMembers
      /\ <<"ext_key_usage", "extKeyUsage">> \in ExtensionMembers
      /\ <<"authority_key_identifier", "authorityKeyIdentifier">> \in ExtensionMembers
      /\ <<4, "basicConstraints">> \in ExtensionNames /\ <<2, "keyUsage">> \in ExtensionNames
      /\ <<8, "extKeyUsage">> \in ExtensionNames /\ <<3, "subjectAltName">> \in ExtensionNames
      /\ <<7, "authorityKeyIdentifier">> \in ExtensionNames
  BY Zenon DEF ExtensionMembers, ExtensionNames
<1>. DEFINE Called == \E m \in ExtensionMembers : m[1] = e.name /\ <<x.id.int, m[2]>> \in ExtensionNames
<1>4. ASSUME NEW called, NEW m \in ExtensionMembers, m = <<e.name, called>>,
             <<x.id.int, called>> \in ExtensionNames
      PROVE  Called
  BY <1>4
<1>. HIDE DEF critical, Called
<1>5. CASE e.name = "basic_constraints"
  <2>. DEFINE path_len == IF IsUnset(e.path_len) THEN None ELSE Some(e.path_len.number)
              content == BasicConstraintsOf(FlagRead(e.ca), path_len)
  <2>1. y = Typed(EXT_BASIC_CONSTRAINTS_ID, critical, content) /\ EXT_BASIC_CONSTRAINTS_ID = 4
    BY <1>5 DEF IntoExtension, BasicConstraintsExt, critical, EXT_BASIC_CONSTRAINTS_ID
  <2>2. FlagRead(e.ca) \in BOOLEAN /\ (FlagRead(e.ca) <=> e.ca = Bool(TRUE))
    BY <1>1, FlagFacts
  <2>3. ~IsUnset(e.path_len) => e.path_len = Number(e.path_len.number)
    BY <1>1, <1>5, MemberFacts DEF ReadsJsonExtension
  <2>4. IF e.ca # Bool(TRUE) THEN content = NotCa
        ELSE IF IsUnset(e.path_len) THEN content = Ca(None)
        ELSE e.path_len = Number(content.path_len.some)
    <3>1. CASE e.ca # Bool(TRUE)
      BY <2>2, <3>1 DEF BasicConstraintsOf
    <3>2. CASE e.ca = Bool(TRUE) /\ IsUnset(e.path_len)
      BY <2>2, <3>2 DEF BasicConstraintsOf
    <3>3. CASE e.ca = Bool(TRUE) /\ ~IsUnset(e.path_len)
      <4>1. content = Ca(Some(e.path_len.number))
        BY <2>2, <3>3 DEF BasicConstraintsOf
      <4>2. \A n : Ca(Some(n)).path_len.some = n
        BY DEF Ca, Some
      <4>. QED
        BY <2>3, <3>3, <4>1, <4>2
    <3>. QED
      BY <3>1, <3>2, <3>3
  <2>. HIDE DEF y, content, path_len
  <2>5. x.id.int = 4 /\ x.value.content = content
    BY <2>1, TypedFacts DEF y
  <2>6. Called
    BY <1>3, <1>4, <1>5, <2>5
  <2>. QED
    BY <1>5, <2>4, <2>5, <2>6, Zenon DEF DescribedExtension, Called
<1>6. CASE e.name = "key_usage"
  <2>1. y = KeyUsageExt(critical, e.value.number)
    BY <1>6 DEF IntoExtension, critical
  <2>2. e.value = Number(e.value.number)
    BY <1>1, <1>6, MemberFacts DEF ReadsJsonExtension
  <2>3. x.id.int = 2 /\ x.value.uint = e.value.number
    BY <2>1 DEF KeyUsageExt, IntId, EXT_KEY_USAGE_ID
  <2>4. Called
    BY <1>3, <1>4, <1>6, <2>3
  <2>5. e.value = Number(x.value.uint)
    BY <2>2, <2>3
  <2>. QED
    BY <1>6, <2>4, <2>5 DEF DescribedExtension, Called
<1>7. CASE e.name = "subject_alt_name"
  <2>. DEFINE texts == e.dns_names.texts
              names == [i \in DOMAIN texts |-> [kind |-> GENERAL_NAME_DNS, value |-> texts[i]]]
              content == [names |-> names]
  <2>1. y = Typed(EXT_SUBJECT_ALT_NAME_ID, critical, content) /\ EXT_SUBJECT_ALT_NAME_ID = 3
    BY <1>7 DEF IntoExtension, SubjectAltNameExt, critical, EXT_SUBJECT_ALT_NAME_ID
  <2>2. SameNames(content.names, texts)
    <3>1. SameNames(names, texts)
      BY DnsNames
    <3>. HIDE DEF names, texts
    <3>2. content.names = names
      OBVIOUS
    <3>. QED
      BY <3>1, <3>2
  <2>. HIDE DEF y, content, names
  <2>3. x.id.int = 3 /\ x.value.content = content
    BY <2>1, TypedFacts DEF y
  <2>4. Called
    BY <1>3, <1>4, <1>7, <2>3
  <2>5. SameNames(x.value.content.names, e.dns_names.texts)
    BY <2>2, <2>3
  <2>. QED
    BY <1>7, <2>4, <2>5 DEF DescribedExtension, Called
<1>8. CASE e.name = "authority_key_identifier"
  <2>. DEFINE content == KeyIdentifierAlone(TolerantHexRead(e.key_identifier))
  <2>1. /\ y = Typed(EXT_AUTHORITY_KEY_IDENTIFIER_ID, critical, content)
        /\ EXT_AUTHORITY_KEY_IDENTIFIER_ID = 7
    BY <1>8 DEF IntoExtension, AuthorityKeyIdentifierExt, critical, EXT_AUTHORITY_KEY_IDENTIFIER_ID
  <2>2. /\ SameHex(content.key_identifier, e.key_identifier)
        /\ content.cert_issuer = None /\ content.cert_serial = None
    <3>1. ReadsTolerantHex(e.key_identifier)
      BY <1>8 DEF ReadsJsonExtension
    <3>2. e.key_identifier \in HexString
      BY <1>1, <3>1, MemberFacts
    <3>. QED
      BY <3>1, <3>2, HexKept DEF SameHex, KeyIdentifierAlone
  <2>. HIDE DEF y, content
  <2>3. x.id.int = 7 /\ x.value.content = content
    BY <2>1, TypedFacts DEF y
  <2>4. Called
    BY <1>3, <1>4, <1>8, <2>3
  <2>5. /\ SameHex(x.value.content.key_identifier, e.key_identifier)
        /\ x.value.content.cert_issuer = None /\ x.value.content.cert_serial = None
    BY <2>2, <2>3
  <2>. QED
    BY <1>8, <2>4, <2>5 DEF DescribedExtension, Called
<1>9. CASE e.name = "ext_key_usage"
  <2>. DEFINE content == [purposes |-> e.oids.numbers]
  <2>1. y = Typed(EXT_EXT_KEY_USAGE_ID, critical, content) /\ EXT_EXT_KEY_USAGE_ID = 8
    BY <1>9 DEF IntoExtension, ExtKeyUsageExt, critical, EXT_EXT_KEY_USAGE_ID
  <2>2. e.oids = Numbers(content.purposes)
    <3>1. e.oids \in [json : {"numbers"}, numbers : Seq(Int)]
      BY <1>1, <1>9 DEF ReadsJsonExtension, JsonMember, Scalar, Missing, Null, HexString
    <3>. QED
      BY <3>1 DEF Numbers
  <2>. HIDE DEF y, content
  <2>3. x.id.int = 8 /\ x.value.content = content
    BY <2>1, TypedFacts DEF y
  <2>4. Called
    BY <1>3, <1>4, <1>9, <2>3
  <2>5. e.oids = Numbers(x.value.content.purposes)
    BY <2>2, <2>3
  <2>. QED
    BY <1>9, <2>4, <2>5 DEF DescribedExtension, Called
<1>. QED
  BY <1>2, <1>5, <1>6, <1>7, <1>8, <1>9

\* The id and the criticality of what is made of an extension.
LEMMA IntoFacts ==
  ASSUME NEW e, ReadsJsonExtension(e)
  PROVE  IntoExtension(e).id # IntId(0) /\ IntoExtension(e).critical = FlagRead(e.critical)
<1>. DEFINE y == IntoExtension(e)
            critical == FlagRead(e.critical)
<1>. SUFFICES y.id # IntId(0) /\ y.critical = critical
  OBVIOUS
<1>1. e.name \in {"basic_constraints", "key_usage", "subject_alt_name", "authority_key_identifier",
                  "ext_key_usage"}
  BY DEF ReadsJsonExtension
<1>2. ASSUME NEW id \in 2 .. 8, NEW content, y = Typed(id, critical, content)
      PROVE  y.id # IntId(0) /\ y.critical = critical
  <2>. HIDE DEF y, critical
  <2>. QED
    BY <1>2, TypedFacts
<1>3. /\ EXT_BASIC_CONSTRAINTS_ID \in 2 .. 8 /\ EXT_SUBJECT_ALT_NAME_ID \in 2 .. 8
      /\ EXT_AUTHORITY_KEY_IDENTIFIER_ID \in 2 .. 8 /\ EXT_EXT_KEY_USAGE_ID \in 2 .. 8
  BY DEF EXT_BASIC_CONSTRAINTS_ID, EXT_SUBJECT_ALT_NAME_ID, EXT_AUTHORITY_KEY_IDENTIFIER_ID,
         EXT_EXT_KEY_USAGE_ID
<1>4. CASE e.name = "basic_constraints"
  <2>1. PICK content : y = Typed(EXT_BASIC_CONSTRAINTS_ID, critical, content)
    BY <1>4 DEF IntoExtension, BasicConstraintsExt
  <2>. HIDE DEF y, critical
  <2>. QED
    BY <1>2, <1>3, <2>1
<1>5. CASE e.name = "key_usage"
  <2>1. y = KeyUsageExt(critical, e.value.number)
    BY <1>5 DEF IntoExtension
  <2>. HIDE DEF y, critical
  <2>. QED
    BY <2>1 DEF KeyUsageExt, IntId, EXT_KEY_USAGE_ID
<1>6. CASE e.name = "subject_alt_name"
  <2>1. PICK content : y = Typed(EXT_SUBJECT_ALT_NAME_ID, critical, content)
    BY <1>6 DEF IntoExtension, SubjectAltNameExt
  <2>. HIDE DEF y, critical
  <2>. QED
    BY <1>2, <1>3, <2>1
<1>7. CASE e.name = "authority_key_identifier"
  <2>1. PICK content : y = Typed(EXT_AUTHORITY_KEY_IDENTIFIER_ID, critical, content)
    BY <1>7 DEF IntoExtension, AuthorityKeyIdentifierExt
  <2>. HIDE DEF y, critical
  <2>. QED
    BY <1>2, <1>3, <2>1
<1>8. CASE e.name = "ext_key_usage"
  <2>1. PICK content : y = Typed(EXT_EXT_KEY_USAGE_ID, critical, content)
    BY <1>8 DEF IntoExtension, ExtKeyUsageExt
  <2>. HIDE DEF y, critical
  <2>. QED
    BY <1>2, <1>3, <2>1
<1>. QED
  BY <1>1, <1>4, <1>5, <1>6, <1>7, <1>8

\* The list of a document: each of its extensions, in their order.
LEMMA DescribedListArrives ==
  ASSUME HoldsConverted, NEW doc \in JsonCertificate(TimeMin .. TimeMax), ReadsDocument(doc)
  PROVE  LET out == ExtOnWire[IntoList(doc)]
         IN  /\ DOMAIN out = DOMAIN Listed(doc)
             /\ \A i \in DOMAIN Listed(doc) : DescribedExtension(out[i], Listed(doc)[i])
<1>. DEFINE times == TimeMin .. TimeMax
            given == Listed(doc)
            list == IntoList(doc)
            out == ExtOnWire[list]
<1>1. /\ \A i \in DOMAIN given : given[i] \in JsonExtension(times) /\ ReadsJsonExtension(given[i])
      /\ list \in ExtList
  BY ListedTyped, JsonListFacts
<1>2. DOMAIN list = DOMAIN given /\ \A i \in DOMAIN given : list[i] = IntoExtension(given[i])
  BY DEF IntoList
<1>. HIDE DEF times, given, list
<1>3. out = [k \in DOMAIN list |-> out[k]]
  BY <1>1 DEF ExtOnWire, UnsignedZero
<1>. HIDE DEF out
<1>4. DOMAIN out = DOMAIN given
  BY <1>2, <1>3
<1>5. ASSUME NEW i \in DOMAIN given
      PROVE  DescribedExtension(out[i], given[i])
  <2>. DEFINE e == given[i]
              x == out[i]
              y == IntoExtension(e)
  <2>1. e \in JsonExtension(times) /\ ReadsJsonExtension(e)
    BY <1>1
  <2>. HIDE DEF e, x, y
  <2>2. list[i] = y
    BY <1>2 DEF e, y
  <2>3. /\ y.id # IntId(0) /\ y.critical = FlagRead(e.critical)
        /\ y.id = IntId(EXT_KEY_USAGE_ID) <=> e.name = "key_usage"
        /\ e.name = "key_usage" => y.value.uint = e.value.number
    <3>1. /\ y.id = IntId(EXT_KEY_USAGE_ID) <=> e.name = "key_usage"
          /\ e.name = "key_usage" => y.value.uint = e.value.number
      BY <2>1, JsonExtensionFacts DEF y
    <3>2. y.id # IntId(0) /\ y.critical = FlagRead(e.critical)
      BY <2>1, IntoFacts DEF y
    <3>. QED
      BY <3>1, <3>2
  <2>4. /\ x.id = list[i].id /\ x.value = list[i].value
        /\ \/ x.critical = list[i].critical
           \/ list[i].value.uint = 0 /\ list[i].id = IntId(2) /\ ~x.critical
    <3>1. i \in DOMAIN list /\ list[i].id # IntId(0)
      BY <1>2, <2>2, <2>3
    <3>. QED
      BY <1>1, <3>1, ArrivedExtension, Zenon DEF out, x
  <2>5. x.critical = list[i].critical => x.critical = (e.critical = Bool(TRUE))
    <3>1. e.critical \in Scalar(times)
      BY <2>1 DEF JsonExtension
    <3>2. /\ FlagRead(e.critical) \in BOOLEAN
          /\ FlagRead(e.critical) <=> e.critical = Bool(TRUE)
      BY <3>1, FlagFacts
    <3>3. FlagRead(e.critical) = (e.critical = Bool(TRUE))
      BY <3>2, Zenon
    <3>. QED
      BY <2>2, <2>3, <3>3, Zenon
  <2>6. list[i].value.uint = 0 /\ list[i].id = IntId(2) =>
          e.name = "key_usage" /\ e.value = Number(0)
    <3>. SUFFICES ASSUME list[i].value.uint = 0, list[i].id = IntId(2)
                  PROVE  e.name = "key_usage" /\ e.value = Number(0)
      OBVIOUS
    <3>1. e.name = "key_usage" /\ e.value.number = 0
      BY <2>2, <2>3 DEF EXT_KEY_USAGE_ID
    <3>2. e.value = Number(e.value.number)
      <4>1. e.value \in Scalar(times)
        BY <2>1 DEF JsonExtension
      <4>. QED
        BY <2>1, <3>1, <4>1, MemberFacts DEF ReadsJsonExtension
    <3>. QED
      BY <3>1, <3>2
  <2>7. DescribedExtension(x, e)
    <3>1. \/ x.critical = (e.critical = Bool(TRUE))
          \/ e.name = "key_usage" /\ e.value = Number(0) /\ ~x.critical
      BY <2>4, <2>5, <2>6, Zenon
    <3>2. x.id = IntoExtension(e).id /\ x.value = IntoExtension(e).value
      BY <2>2, <2>4 DEF y
    <3>. QED
      BY <2>1, <3>1, <3>2, DescribedExtensionArrives, Zenon
  <2>. QED
    BY <2>7 DEF e, x
<1>. QED
  BY <1>4, <1>5 DEF out, list, given

\* The conversion of a document, on its way through the hex.
LEMMA DescribedArrives ==
  ASSUME HoldsConverted, NEW doc \in JsonCertificate(TimeMin .. TimeMax), ReadsDocument(doc)
  PROVE  LET v == CP!Arriving(IntoCertificate(doc))
         IN  /\ doc.certificate_type = Number(v.c509_certificate_type)
             /\ FromBytesBe(HexEncoded(v.certificate_serial_number))
                   = FromBytesBe(Cleaned(doc.serial_number.digits))
             /\ doc.issuer_signature_algorithm = Number(v.issuer_signature_algorithm.int)
             /\ IF v.issuer = None THEN IsUnset(doc.issuer)
                                   ELSE DescribedName(v.issuer.content, doc.issuer)
             /\ DescribedTime(v.validity_not_before, doc.validity_not_before)
             /\ DescribedTime(v.validity_not_after, doc.validity_not_after)
             /\ DescribedName(v.subject.content, doc.subject)
             /\ doc.subject_public_key_algorithm = Number(v.subject_public_key_algorithm.int)
             /\ SameHex(v.subject_public_key, doc.subject_public_key)
             /\ SameHex(v.issuer_signature_value, doc.issuer_signature_value)
             /\ DOMAIN v.extensions.content = DOMAIN Listed(doc)
             /\ \A i \in DOMAIN Listed(doc) :
                  DescribedExtension(v.extensions.content[i], Listed(doc)[i])
<1>. DEFINE v == CP!Arriving(IntoCertificate(doc))
            S == Scalar(TimeMin .. TimeMax)
            type == doc.certificate_type.number
            serial == FromBytesBe(TolerantHexRead(doc.serial_number))
            algorithm == doc.issuer_signature_algorithm.number
            issuer == IF IsUnset(doc.issuer) THEN None ELSE C!NameOf(IntoName(doc.issuer))
            before == TimeRead(doc.validity_not_before)
            after == TimeRead(doc.validity_not_after)
            subject == IntoName(doc.subject)
            key_algorithm == doc.subject_public_key_algorithm.number
            key == TolerantHexRead(doc.subject_public_key)
            list == IntoList(doc)
            signature == TolerantHexRead(doc.issuer_signature_value)
            w == CP!Arriving(Assembled(type, serial, algorithm, issuer, before, after, subject,
                                       key_algorithm, key, list, signature))
<1>1. /\ doc.certificate_type \in S /\ doc.serial_number \in S
      /\ doc.issuer_signature_algorithm \in S /\ doc.issuer \in JsonMember(TimeMin .. TimeMax)
      /\ doc.validity_not_before \in S /\ doc.validity_not_after \in S
      /\ doc.subject \in JsonMember(TimeMin .. TimeMax)
      /\ doc.subject_public_key_algorithm \in S /\ doc.subject_public_key \in S
      /\ doc.issuer_signature_value \in S
  <2>. HIDE DEF S
  <2>. QED
    BY DEF JsonCertificate, S
<1>2. /\ IsNumber(doc.certificate_type, I32) /\ IsNumber(doc.issuer_signature_algorithm, I32)
      /\ IsNumber(doc.subject_public_key_algorithm, I32)
      /\ ReadsTolerantHex(doc.serial_number) /\ ReadsTolerantHex(doc.subject_public_key)
      /\ ReadsTolerantHex(doc.issuer_signature_value)
      /\ IsUnset(doc.issuer) \/ ReadsJsonName(doc.issuer)
      /\ ReadsJsonName(doc.subject)
      /\ ReadsDate(doc.validity_not_before)
      /\ IsUnset(doc.validity_not_after) \/ ReadsDate(doc.validity_not_after)
  BY DEF ReadsDocument
<1>3. v = w
  <2>1. IntoCertificate(doc) = Assembled(type, serial, algorithm, issuer, before, after, subject,
                                         key_algorithm, key, list, signature)
    BY DEF IntoCertificate, Assembled, IntoList
  <2>. HIDE DEF type, serial, algorithm, issuer, before, after, subject, key_algorithm, key, list,
                signature
  <2>. QED
    BY <2>1
<1>. HIDE DEF v, S, type, serial, algorithm, issuer, before, after, subject, key_algorithm, key,
              list, signature
<1>4. /\ v.c509_certificate_type = type
      /\ v.certificate_serial_number = serial
      /\ v.issuer_signature_algorithm.int = algorithm
      /\ v.issuer = CP!NameArriving(issuer)
      /\ v.validity_not_before = CP!WholeSeconds(before)
      /\ v.validity_not_after = CP!WholeSeconds(after)
      /\ v.subject.content = NameOnWire[subject]
      /\ v.subject_public_key_algorithm.int = key_algorithm
      /\ v.subject_public_key = key
      /\ v.extensions.content = ExtOnWire[list]
      /\ v.issuer_signature_value = signature
  <2>1. /\ w.c509_certificate_type = type
        /\ w.certificate_serial_number = serial
        /\ w.issuer_signature_algorithm.int = algorithm
        /\ w.issuer = CP!NameArriving(issuer)
        /\ w.validity_not_before = CP!WholeSeconds(before)
        /\ w.validity_not_after = CP!WholeSeconds(after)
        /\ w.subject.content = NameOnWire[subject]
        /\ w.subject_public_key_algorithm.int = key_algorithm
        /\ w.subject_public_key = key
        /\ w.extensions.content = ExtOnWire[list]
        /\ w.issuer_signature_value = signature
    BY ArrivedFields
  <2>. QED
    BY <1>3, <2>1, Zenon
<1>5. /\ doc.certificate_type = Number(v.c509_certificate_type)
      /\ doc.issuer_signature_algorithm = Number(v.issuer_signature_algorithm.int)
      /\ doc.subject_public_key_algorithm = Number(v.subject_public_key_algorithm.int)
  <2>1. \A j \in S : IsNumber(j, I32) => j = Number(j.number)
    BY MemberFacts DEF S
  <2>. QED
    BY <1>1, <1>2, <1>4, <2>1, Zenon DEF type, algorithm, key_algorithm
<1>6. /\ FromBytesBe(HexEncoded(v.certificate_serial_number))
            = FromBytesBe(Cleaned(doc.serial_number.digits))
      /\ SameHex(v.subject_public_key, doc.subject_public_key)
      /\ SameHex(v.issuer_signature_value, doc.issuer_signature_value)
  <2>1. \A j \in S : ReadsTolerantHex(j) => j \in HexString
    BY MemberFacts DEF S
  <2>2. \A j \in HexString : ReadsTolerantHex(j) => HexEncoded(TolerantHexRead(j)) = Cleaned(j.digits)
    BY HexKept
  <2>3. \A j \in HexString : ReadsTolerantHex(j) =>
          FromBytesBe(HexEncoded(FromBytesBe(TolerantHexRead(j)))) = FromBytesBe(Cleaned(j.digits))
    BY CleanedTyped, SerialKept DEF TolerantHexRead
  <2>. QED
    BY <1>1, <1>2, <1>4, <2>1, <2>2, <2>3, Zenon DEF SameHex, serial, key, signature
<1>7. IF v.issuer = None THEN IsUnset(doc.issuer)
                         ELSE DescribedName(v.issuer.content, doc.issuer)
  <2>1. CASE IsUnset(doc.issuer)
    <3>1. v.issuer = None
      BY <1>4, <2>1, ArrivedName DEF issuer
    <3>. QED
      BY <2>1, <3>1
  <2>2. CASE ~IsUnset(doc.issuer)
    <3>1. issuer = C!NameOf(IntoName(doc.issuer)) /\ ReadsJsonName(doc.issuer)
      BY <1>2, <2>2 DEF issuer
    <3>2. v.issuer # None /\ v.issuer.content = NameOnWire[IntoName(doc.issuer)]
      BY <1>4, <3>1, ArrivedName
    <3>3. DescribedName(NameOnWire[IntoName(doc.issuer)], doc.issuer)
      BY <1>1, <3>1, DescribedNameArrives
    <3>. QED
      BY <3>2, <3>3
  <2>. QED
    BY <2>1, <2>2
<1>8. DescribedName(v.subject.content, doc.subject)
  BY <1>1, <1>2, <1>4, DescribedNameArrives DEF subject
<1>9. /\ DescribedTime(v.validity_not_before, doc.validity_not_before)
      /\ DescribedTime(v.validity_not_after, doc.validity_not_after)
  <2>1. DescribedTime(CP!WholeSeconds(before), doc.validity_not_before)
    BY <1>1, <1>2, DescribedTimeArrives DEF S, before
  <2>2. DescribedTime(CP!WholeSeconds(after), doc.validity_not_after)
    BY <1>1, <1>2, DescribedTimeArrives DEF S, after
  <2>. QED
    BY <1>4, <2>1, <2>2
<1>10. /\ DOMAIN v.extensions.content = DOMAIN Listed(doc)
       /\ \A i \in DOMAIN Listed(doc) :
            DescribedExtension(v.extensions.content[i], Listed(doc)[i])
  <2>. DEFINE out == ExtOnWire[list]
  <2>1. /\ DOMAIN out = DOMAIN Listed(doc)
        /\ \A i \in DOMAIN Listed(doc) : DescribedExtension(out[i], Listed(doc)[i])
    BY DescribedListArrives DEF list
  <2>. QED
    BY <1>4, <2>1, Zenon
<1>. QED
  BY <1>5, <1>6, <1>7, <1>8, <1>9, <1>10 DEF v

\* So the certificate that is shown in the end is the one the document described.
LEMMA ProgramArrivesAsDescribed ==
  ASSUME HoldsConverted, ProgramInv
  PROVE  ArrivesAsDescribed
<1>. SUFFICES ASSUME printed # NoOutput, shown # C!NoValue, file.format = "json"
              PROVE  ArrivesAsDescribed
  BY DEF ArrivesAsDescribed
<1>. DEFINE doc == file.doc
<1>1. shown = CP!Arriving(IntoCertificate(doc)) /\ ReadsDocument(doc)
  BY ShownArrived DEF ConvertedFrom
<1>2. doc \in JsonCertificate(TimeMin .. TimeMax)
  BY DEF ProgramInv, File
<1>. HIDE DEF doc
<1>3. /\ doc.certificate_type = Number(shown.c509_certificate_type)
      /\ FromBytesBe(HexEncoded(shown.certificate_serial_number))
            = FromBytesBe(Cleaned(doc.serial_number.digits))
      /\ doc.issuer_signature_algorithm = Number(shown.issuer_signature_algorithm.int)
      /\ IF shown.issuer = None THEN IsUnset(doc.issuer)
                                ELSE DescribedName(shown.issuer.content, doc.issuer)
      /\ DescribedTime(shown.validity_not_before, doc.validity_not_before)
      /\ DescribedTime(shown.validity_not_after, doc.validity_not_after)
      /\ DescribedName(shown.subject.content, doc.subject)
      /\ doc.subject_public_key_algorithm = Number(shown.subject_public_key_algorithm.int)
      /\ SameHex(shown.subject_public_key, doc.subject_public_key)
      /\ SameHex(shown.issuer_signature_value, doc.issuer_signature_value)
      /\ DOMAIN shown.extensions.content = DOMAIN Listed(doc)
      /\ \A i \in DOMAIN Listed(doc) :
           DescribedExtension(shown.extensions.content[i], Listed(doc)[i])
  BY <1>1, <1>2, DescribedArrives, Zenon
<1>. QED
  BY <1>3, Zenon DEF ArrivesAsDescribed, doc

-----------------------------------------------------------------------------
(* The theorems                                                            *)

\* The invariant holds of every run of the program on every file.
THEOREM ProgramInvariance ==
  ASSUME HoldsConverted
  PROVE  Spec => []ProgramInv
BY InitProgramInv, StepProgramInv, PTL DEF Spec

\* Every variable keeps its type: what the conversions of X.509 and JSON build
\* is a certificate, whatever the file (main.rs, x509_to_c509.rs, cert_json.rs).
THEOREM ProgramTypeCorrect ==
  ASSUME HoldsConverted
  PROVE  Spec => []TypeOK
<1>1. ProgramInv => TypeOK
  BY DEF ProgramInv
<1>. QED
  BY <1>1, ProgramInvariance, PTL

\* The calls of the program that panic are foreseen: one with an argument that is
\* not text, one that needs standard input and finds no text there (main), and
\* a conversion to what does not encode (the `expect' of encode, certificate.rs),
\* for which nothing is printed.  Outside it are the panics the model leaves to
\* the machine: println! to a closed output, an allocation a claimed length asks.
THEOREM PanicsForeseen ==
  ASSUME HoldsConverted
  PROVE  Spec => []PanicsAreForeseen
<1>1. ProgramInv => PanicsAreForeseen
  BY DEF ProgramInv, EncodedInv, PrintedInv, PanicsAreForeseen, LacksText
<1>. QED
  BY <1>1, ProgramInvariance, PTL

\* The program reads what it printed, in either form, whatever option it is
\* called with (decode_certificate).
THEOREM OwnOutput ==
  ASSUME HoldsConverted
  PROVE  Spec => []OwnOutputIsRead
<1>1. ProgramInv => OwnOutputIsRead
  BY DEF ProgramInv, PrintedInv, OwnOutputIsRead, Running
<1>. QED
  BY <1>1, ProgramInvariance, PTL

\* What is shown in the end says what the X.509 file says, by the names of
\* registry.rs: its names and algorithms, its times, each extension that was
\* understood, once (from_x509 of x509_to_c509.rs, and both codecs); but for the
\* grouping of attributes into RDNs, the issuer and serial number of an
\* authorityKeyIdentifier, and a path length without cA, which are lost.
THEOREM ArrivalOfIssued ==
  ASSUME HoldsConverted
  PROVE  Spec => []ArrivesAsIssued
BY ProgramArrivesAsIssued, ProgramInvariance, PTL

\* What is shown in the end has the members of the JSON document, but for spaces
\* and leading zeros of hex, fractions of seconds, flags that have no sign and
\* the path length of what is no CA (from_json of cert_json.rs, and both codecs).
THEOREM ArrivalOfDescribed ==
  ASSUME HoldsConverted
  PROVE  Spec => []ArrivesAsDescribed
<1>1. ProgramInv => ArrivesAsDescribed
  BY ProgramArrivesAsDescribed
<1>. QED
  BY <1>1, ProgramInvariance, PTL
=============================================================================
