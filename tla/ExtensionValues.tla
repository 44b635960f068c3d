--------------------------- MODULE ExtensionValues ---------------------------
(***************************************************************************)
(* The typed values of the extensions, but for the IP and AS resources:    *)
(* every decode and encode of the other files of extensions/.  A codec is  *)
(* a name, as in Fields: TypeOf, Accepts and Read, CanWrite and ItemOf.    *)
(*                                                                         *)
(* A session holds one value and alternates encoding and decoding it       *)
(* without end, as in AsIdentifiers; here a call is one step.              *)
(***************************************************************************)
EXTENDS GeneralNames

CONSTANTS Callers,     \* values callers build
          Foreign      \* received items, with the codec of their extension

-----------------------------------------------------------------------------
(* BasicConstraints                                                        *)

NotCa == [kind |-> "not_ca"]
Ca(pathLen) == [kind |-> "ca", path_len |-> pathLen]
BasicConstraints == {NotCa} \cup [kind : {"ca"}, path_len : Option(U32)]

BasicConstraintsItem(v) == IntItem(CASE v = NotCa    -> -2
                                     [] v = Ca(None) -> -1
                                     [] OTHER        -> v.path_len.some)

\* Mistake: any other negative number is taken for a path length.
ReadsBasicConstraintsAny(item) == ReadsI32(item)

ReadsBasicConstraints(item) == ReadsI32(item) /\ item.int >= -2
BasicConstraintsRead(item) == CASE item.int = -2 -> NotCa
                                [] item.int = -1 -> Ca(None)
                                [] OTHER         -> Ca(Some(item.int))

-----------------------------------------------------------------------------
(* AuthorityKeyIdentifier                                                  *)

AuthorityKeyIdentifier ==
  [key_identifier : Seq(Octet), cert_issuer : Option(Seq(GeneralName)),
   cert_serial : Option(BigUint)]

AuthorityKeyIdentifierItem(v) ==
  IF v.cert_issuer = None
    THEN BytesItem(v.key_identifier)
    ELSE ArrayItem(<<BytesItem(v.key_identifier), GeneralNamesItem(v.cert_issuer.some),
                     BytesItem(ToBytesBe(v.cert_serial.some))>>)

ReadsAuthorityKeyIdentifier(item) ==
  \/ IsBytes(item)
  \/ /\ IsFixed(item, 3)
     /\ IsBytes(item.items[1]) /\ ReadsGeneralNames(item.items[2]) /\ IsBytes(item.items[3])

\* Mistake: an issuer without names counts as absent.
AuthorityKeyIdentifierReadEmpty(item) ==
  IF IsBytes(item)
    THEN [key_identifier |-> item.bytes, cert_issuer |-> None, cert_serial |-> None]
    ELSE [key_identifier |-> item.items[1].bytes,
          cert_issuer |-> IF item.items[2].len = 0 THEN None
                          ELSE Some(GeneralNamesRead(item.items[2])),
          cert_serial |-> Some(FromBytesBe(item.items[3].bytes))]

AuthorityKeyIdentifierRead(item) ==
  IF IsBytes(item)
    THEN [key_identifier |-> item.bytes, cert_issuer |-> None, cert_serial |-> None]
    ELSE [key_identifier |-> item.items[1].bytes,
          cert_issuer |-> Some(GeneralNamesRead(item.items[2])),
          cert_serial |-> Some(FromBytesBe(item.items[3].bytes))]

-----------------------------------------------------------------------------
(* NameConstraints                                                         *)

NameConstraints == [permitted : Option(Seq(GeneralName)), excluded : Option(Seq(GeneralName))]

NameConstraintsItem(v)  == ArrayItem(<<SubtreeItem(v.permitted), SubtreeItem(v.excluded)>>)
ReadsNameConstraints(item) ==
  IsFixed(item, 2) /\ ReadsSubtree(item.items[1]) /\ ReadsSubtree(item.items[2])
NameConstraintsRead(item) ==
  [permitted |-> SubtreeRead(item.items[1]), excluded |-> SubtreeRead(item.items[2])]

-----------------------------------------------------------------------------
(* DistributionPointName                                                   *)

DistributionPointName ==
  [full_name : Seq(STRING), reasons : Option(U32), crl_issuer : Option(NameContents)]

FullNameItem(texts) ==
  IF Len(texts) = 1 THEN TextItem(texts[1])
                    ELSE ArrayItem([i \in DOMAIN texts |-> TextItem(texts[i])])
ReadsFullName(item) ==
  ReadsText(item) \/ (IsWhole(item) /\ \A text \in Elements(item) : ReadsText(text))
FullNameRead(item) ==
  IF ReadsText(item) THEN <<item.text>> ELSE [i \in DOMAIN item.items |-> item.items[i].text]

PointItem(p) ==
  ArrayItem(<<FullNameItem(p.full_name), OptUintItem(p.reasons),
              IF p.crl_issuer = None THEN NullItem ELSE OpaqueItem("name", p.crl_issuer.some)>>)
ReadsPoint(item) ==
  /\ IsFixed(item, 3)
  /\ ReadsFullName(item.items[1]) /\ ReadsOptUint(item.items[2])
  /\ IsNull(item.items[3]) \/ IsOpaque(item.items[3], "name")
PointRead(item) ==
  [full_name  |-> FullNameRead(item.items[1]),
   reasons    |-> OptUintRead(item.items[2]),
   crl_issuer |-> IF IsNull(item.items[3]) THEN None ELSE Some(item.items[3].content)]

PlainPoint(text) == [full_name |-> <<text>>, reasons |-> None, crl_issuer |-> None]

\* Mistake: the reasons of a single point are not looked at.
IsPlainPointAnyReasons(points) ==
  Len(points) = 1 /\ Len(points[1].full_name) = 1 /\ points[1].crl_issuer = None

IsPlainPoint(points) ==
  Len(points) = 1 /\ Len(points[1].full_name) = 1
    /\ points[1].reasons = None /\ points[1].crl_issuer = None

PointsItem(points) ==
  IF IsPlainPoint(points) THEN TextItem(points[1].full_name[1])
                          ELSE ArrayItem([i \in DOMAIN points |-> PointItem(points[i])])
ReadsPoints(item) ==
  ReadsText(item) \/ (IsWhole(item) /\ \A point \in Elements(item) : ReadsPoint(point))
PointsRead(item)  ==
  IF ReadsText(item) THEN <<PlainPoint(item.text)>>
                     ELSE [i \in DOMAIN item.items |-> PointRead(item.items[i])]

-----------------------------------------------------------------------------
(* AccessDescription, and PolicyQualifierInfo, which has its shape         *)

IdText == [id : IntOrOid, text : STRING]
ReadsIdText(pair) == ReadsIntOrOid(pair[1]) /\ ReadsText(pair[2])
IdTextRead(pair)  == [id |-> IntOrOidRead(pair[1]), text |-> pair[2].text]
IdTextItems(v)    == <<IntOrOidItem(v.id), TextItem(v.text)>>

ReadsIdTexts(item) == IsPairs(item) /\ \A pair \in PairSet(item) : ReadsIdText(pair)
IdTextsRead(item)  == [i \in DOMAIN Pairs(item) |-> IdTextRead(Pairs(item)[i])]
IdTextsItem(list)  == PairsItem([i \in DOMAIN list |-> IdTextItems(list[i])])

-----------------------------------------------------------------------------
(* CertificatePolicies, PolicyMappings, PolicyConstraints                  *)

CertificatePolicies == Seq([id : IntOrOid, qualifiers : Seq(IdText)])

ReadsPolicies(item) ==
  IsPairs(item) /\ \A pair \in PairSet(item) : ReadsIntOrOid(pair[1]) /\ ReadsIdTexts(pair[2])
PolicyRead(pair) == [id |-> IntOrOidRead(pair[1]), qualifiers |-> IdTextsRead(pair[2])]
PoliciesRead(item) == [i \in DOMAIN Pairs(item) |-> PolicyRead(Pairs(item)[i])]
PolicyItems(policy) == <<IntOrOidItem(policy.id), IdTextsItem(policy.qualifiers)>>
PoliciesItem(v) == PairsItem([i \in DOMAIN v |-> PolicyItems(v[i])])

ReadsMappings(item) ==
  IsPairs(item) /\ \A pair \in PairSet(item) : ReadsIntOrOid(pair[1]) /\ ReadsIntOrOid(pair[2])
MappingsRead(item) ==
  LET MappingRead(pair) == <<IntOrOidRead(pair[1]), IntOrOidRead(pair[2])>>
  IN  [i \in DOMAIN Pairs(item) |-> MappingRead(Pairs(item)[i])]
MappingsItem(v) ==
  PairsItem([i \in DOMAIN v |-> <<IntOrOidItem(v[i][1]), IntOrOidItem(v[i][2])>>])

PolicyConstraints ==
  [require_explicit_policy : Option(U32), inhibit_policy_mapping : Option(U32)]

PolicyConstraintsItem(v) ==
  ArrayItem(<<OptUintItem(v.require_explicit_policy), OptUintItem(v.inhibit_policy_mapping)>>)
ReadsPolicyConstraints(item) ==
  IsFixed(item, 2) /\ ReadsOptUint(item.items[1]) /\ ReadsOptUint(item.items[2])
PolicyConstraintsRead(item) ==
  [require_explicit_policy |-> OptUintRead(item.items[1]),
   inhibit_policy_mapping  |-> OptUintRead(item.items[2])]

-----------------------------------------------------------------------------
(* ExtKeyUsage and TlsFeatures: minicbor's Vec takes indefinite arrays too *)

IsVec(item) == IsWhole(item) \/ item.type = "array_indef"

ExtKeyUsageItem(v) ==
  IF Len(v) = 1 THEN IntOrOidItem(v[1])
                ELSE ArrayItem([i \in DOMAIN v |-> IntOrOidItem(v[i])])
ReadsExtKeyUsage(item) ==
  IF IsAnyArray(item) THEN IsVec(item) /\ \A id \in Elements(item) : ReadsIntOrOid(id)
                      ELSE ReadsIntOrOid(item)
ExtKeyUsageRead(item) ==
  IF IsAnyArray(item) THEN [i \in DOMAIN item.items |-> IntOrOidRead(item.items[i])]
                      ELSE <<IntOrOidRead(item)>>

ReadsTlsFeatures(item) == IsVec(item) /\ \A n \in Elements(item) : ReadsU32(n)
TlsFeaturesRead(item)  == [i \in DOMAIN item.items |-> item.items[i].int]
TlsFeaturesItem(v)     == ArrayItem([i \in DOMAIN v |-> IntItem(v[i])])

-----------------------------------------------------------------------------
(* SubjectDirectoryAttributes: attributes with lists of values             *)

RdnAttributes == RdnAttr(Seq(SpecialText), Seq(Seq(Octet)))

\* The values of an attribute: Vec<SpecialText>, or Vec<Vec<u8>> under an OID.
ReadsValues(item, ofOid) ==
  IsWhole(item) /\ \A x \in Elements(item) : IF ofOid THEN IsBytes(x) ELSE ReadsSpecialText(x)
ValuesRead(item, ofOid) ==
  [i \in DOMAIN item.items |-> IF ofOid THEN item.items[i].bytes
                                        ELSE SpecialTextRead(item.items[i])]
ValuesItem(values, ofOid) ==
  ArrayItem([i \in DOMAIN values |-> IF ofOid THEN BytesItem(values[i])
                                              ELSE SpecialTextItem(values[i])])

ReadsAttribute(pair) ==
  /\ IF IsBytes(pair[1]) THEN ReadsOid(pair[1]) ELSE ReadsRegisteredType(pair[1])
  /\ ReadsValues(pair[2], IsBytes(pair[1]))
AttributeRead(pair) ==
  LET values == ValuesRead(pair[2], IsBytes(pair[1]))
  IN  IF IsBytes(pair[1]) THEN OfOid(pair[1].bytes, values) ELSE RegisteredRead(pair[1], values)
AttributeItems(attr) == <<TypeItem(attr), ValuesItem(attr.value, attr.form = "oid")>>

ReadsAttributes(item) == IsPairs(item) /\ \A pair \in PairSet(item) : ReadsAttribute(pair)
AttributesRead(item)  == [i \in DOMAIN Pairs(item) |-> AttributeRead(Pairs(item)[i])]
AttributesItem(v)     == PairsItem([i \in DOMAIN v |-> AttributeItems(v[i])])

-----------------------------------------------------------------------------
(* The codecs                                                              *)

TypeOf(codec) ==
  CASE codec = "BasicConstraints"           -> BasicConstraints
    [] codec = "SubjectAltName"             -> Seq(GeneralName)
    [] codec = "AuthorityKeyIdentifier"     -> AuthorityKeyIdentifier
    [] codec = "NameConstraints"            -> NameConstraints
    [] codec = "CrlDistributionPoints"      -> Seq(DistributionPointName)
    [] codec = "AuthorityInfoAccess"        -> Seq(IdText)
    [] codec = "CertificatePolicies"        -> CertificatePolicies
    [] codec = "PolicyMappings"             -> Seq(IntOrOid \X IntOrOid)
    [] codec = "PolicyConstraints"          -> PolicyConstraints
    [] codec = "ExtKeyUsage"                -> Seq(IntOrOid)
    [] codec = "TlsFeatures"                -> Seq(U32)
    [] codec = "SubjectDirectoryAttributes" -> Seq(RdnAttributes)

Accepts(codec, item) ==
  /\ codec = "BasicConstraints"           => ReadsBasicConstraints(item)
  /\ codec = "SubjectAltName"             => ReadsAltName(item)
  /\ codec = "AuthorityKeyIdentifier"     => ReadsAuthorityKeyIdentifier(item)
  /\ codec = "NameConstraints"            => ReadsNameConstraints(item)
  /\ codec = "CrlDistributionPoints"      => ReadsPoints(item)
  /\ codec = "AuthorityInfoAccess"        => ReadsIdTexts(item)
  /\ codec = "CertificatePolicies"        => ReadsPolicies(item)
  /\ codec = "PolicyMappings"             => ReadsMappings(item)
  /\ codec = "PolicyConstraints"          => ReadsPolicyConstraints(item)
  /\ codec = "ExtKeyUsage"                => ReadsExtKeyUsage(item)
  /\ codec = "TlsFeatures"                => ReadsTlsFeatures(item)
  /\ codec = "SubjectDirectoryAttributes" => ReadsAttributes(item)

Read(codec, item) ==
  CASE codec = "BasicConstraints"           -> BasicConstraintsRead(item)
    [] codec = "SubjectAltName"             -> AltNameRead(item)
    [] codec = "AuthorityKeyIdentifier"     -> AuthorityKeyIdentifierRead(item)
    [] codec = "NameConstraints"            -> NameConstraintsRead(item)
    [] codec = "CrlDistributionPoints"      -> PointsRead(item)
    [] codec = "AuthorityInfoAccess"        -> IdTextsRead(item)
    [] codec = "CertificatePolicies"        -> PoliciesRead(item)
    [] codec = "PolicyMappings"             -> MappingsRead(item)
    [] codec = "PolicyConstraints"          -> PolicyConstraintsRead(item)
    [] codec = "ExtKeyUsage"                -> ExtKeyUsageRead(item)
    [] codec = "TlsFeatures"                -> TlsFeaturesRead(item)
    [] codec = "SubjectDirectoryAttributes" -> AttributesRead(item)

CanWrite(codec, v) ==
  /\ codec = "BasicConstraints" =>
       (v # NotCa /\ v.path_len # None => v.path_len.some \in I32)
  /\ codec = "AuthorityKeyIdentifier" => (v.cert_issuer = None <=> v.cert_serial = None)

ItemOf(codec, v) ==
  CASE codec = "BasicConstraints"           -> BasicConstraintsItem(v)
    [] codec = "SubjectAltName"             -> AltNameItem(v)
    [] codec = "AuthorityKeyIdentifier"     -> AuthorityKeyIdentifierItem(v)
    [] codec = "NameConstraints"            -> NameConstraintsItem(v)
    [] codec = "CrlDistributionPoints"      -> PointsItem(v)
    [] codec = "AuthorityInfoAccess"        -> IdTextsItem(v)
    [] codec = "CertificatePolicies"        -> PoliciesItem(v)
    [] codec = "PolicyMappings"             -> MappingsItem(v)
    [] codec = "PolicyConstraints"          -> PolicyConstraintsItem(v)
    [] codec = "ExtKeyUsage"                -> ExtKeyUsageItem(v)
    [] codec = "TlsFeatures"                -> TlsFeaturesItem(v)
    [] codec = "SubjectDirectoryAttributes" -> AttributesItem(v)

Codecs == {"BasicConstraints", "SubjectAltName", "AuthorityKeyIdentifier", "NameConstraints",
           "CrlDistributionPoints", "AuthorityInfoAccess", "CertificatePolicies",
           "PolicyMappings", "PolicyConstraints", "ExtKeyUsage", "TlsFeatures",
           "SubjectDirectoryAttributes"}

NoValue == [kind |-> "none"]     \* nothing decoded yet
NoWire  == [type |-> "none"]     \* nothing encoded yet

\* As deep as the values go: two lists of names are inside another array.
ItemsOf(codec) ==
  IF codec \in {"AuthorityKeyIdentifier", "NameConstraints"} THEN Item4 ELSE Item3

ASSUME CallersAssumption ==
  \A built \in Callers : /\ built.codec \in Codecs
                         /\ built \in [codec : {built.codec}, v : TypeOf(built.codec)]
ASSUME ForeignAssumption ==
  \A received \in Foreign : /\ received.codec \in Codecs
                            /\ received.item \in ItemsOf(received.codec)

-----------------------------------------------------------------------------
VARIABLES
  pc,       \* the call to make next
  codec,    \* the codec that the extension's id stands for
  value,    \* the value held by the caller
  wire      \* the item that was encoded or received last
vars == <<pc, codec, value, wire>>

Init ==
  \/ /\ pc = "encode" /\ value \in Callers /\ wire = NoWire
     /\ codec = value.codec
  \/ \E received \in Foreign :
       /\ pc = "decode" /\ value = NoValue /\ wire = received.item
       /\ codec = received.codec

Encode ==
  /\ pc = "encode" /\ CanWrite(codec, value.v)
  /\ wire' = ItemOf(codec, value.v)
  /\ pc' = "decode"
  /\ UNCHANGED <<codec, value>>

\* An error of an encoder ends in the `expect' of C509Certificate::encode.
EncodePanic ==
  /\ pc = "encode" /\ ~CanWrite(codec, value.v)
  /\ pc' = "panicked"
  /\ UNCHANGED <<codec, value, wire>>

Decode ==
  /\ pc = "decode" /\ Accepts(codec, wire)
  /\ value' = [codec |-> codec, v |-> Read(codec, wire)]
  /\ pc' = "encode"
  /\ UNCHANGED <<codec, wire>>

DecodeRefuse ==
  /\ pc = "decode" /\ ~Accepts(codec, wire)
  /\ pc' = "refused"
  /\ UNCHANGED <<codec, value, wire>>

Next == Encode \/ EncodePanic \/ Decode \/ DecodeRefuse

Spec == Init /\ [][Next]_vars

-----------------------------------------------------------------------------
(* Properties                                                              *)

\* Every variable keeps its type, the codec included: what a peer sends under
\* one extension id is never held as the value of another.
TypeOK ==
  /\ pc \in {"encode", "decode", "refused", "panicked"}
  /\ codec \in Codecs
  /\ value \in [codec : {codec}, v : TypeOf(codec)] \cup {NoValue}
  /\ wire \in ItemsOf(codec) \cup {NoWire}

ConsistentNames(names) == \A i \in DOMAIN names : names[i].variant = VariantOf(names[i].kind)

\* The values the wire format can carry: the kind of a general name is that
\* of its variant, a type 0 is no PrintableString, and it encodes at all.
Representable(c, v) ==
  /\ CanWrite(c, v)
  /\ c = "SubjectAltName" => ConsistentNames(v)
  /\ c = "AuthorityKeyIdentifier" /\ v.cert_issuer # None => ConsistentNames(v.cert_issuer.some)
  /\ c = "NameConstraints" =>
       /\ v.permitted # None => ConsistentNames(v.permitted.some)
       /\ v.excluded # None => ConsistentNames(v.excluded.some)
  /\ c = "SubjectDirectoryAttributes" => \A i \in DOMAIN v : UnsignedAttr(v[i]) = v[i]

\* A representable value survives any number of round trips through whichever
\* short form its encoder chooses: it never changes, is never refused when
\* it comes back, and encoding it never fails.
RepresentableIsLossless ==
  [][value # NoValue /\ Representable(codec, value.v)
       => value' = value /\ pc' \notin {"refused", "panicked"}]_vars

\* What is read from a peer is representable, so that a certificate that was
\* accepted can be written again and read as the same.
ReadIsRepresentable ==
  [][value = NoValue /\ value' # NoValue => Representable(codec, value'.v)]_vars

IsRepeatedPoint(item) == item.items[1].type = "array" /\ item.items[1].len = 1

\* The forms that are accepted and that the encoders do not write.
IsLongForm(c, item) ==
  \/ /\ c = "SubjectAltName"
     /\ item.type = "array" /\ item.len = 2 /\ item.items[1] = IntItem(DnsName)
  \/ /\ c = "AuthorityKeyIdentifier"
     /\ item.type = "array" /\ ToBytesBe(FromBytesBe(item.items[3].bytes)) # item.items[3].bytes
  \/ /\ c = "CrlDistributionPoints"
     /\ item.type = "array"
     /\ \/ \E i \in DOMAIN item.items : IsRepeatedPoint(item.items[i])
        \/ Len(item.items) = 1 /\ IsPlainPoint(PointsRead(item))
  \/ c = "ExtKeyUsage" /\ IsAnyArray(item) /\ (item.type = "array" => item.len = 1)
  \/ c = "TlsFeatures" /\ item.type = "array_indef"

\* Any other accepted item is written again as it was, and a long form is
\* replaced once: the bytes under a signature do not change after that.
WireStable ==
  [][wire # NoWire /\ wire' # wire => IsLongForm(codec, wire) /\ ~IsLongForm(codec, wire')]_vars
=============================================================================
