-------------------------------- MODULE X509 --------------------------------
(***************************************************************************)
(* from_x509 of x509_to_c509.rs: its tables and what it makes of the parts *)
(* of a parsed certificate.  The loop over the extensions is in            *)
(* CommandLine.                                                            *)
(*                                                                         *)
(* An object identifier is written by the name of the thing it identifies, *)
(* as RFC 5280 and registry.rs spell it.  The constants of oid-registry    *)
(* and the parser, x509-parser, are external.                              *)
(***************************************************************************)
EXTENDS Converted

\* The ids of RDN_ATTRIBUTE_OIDS fit, whatever the width.
ASSUME RdnAssumption == U16Max >= 29

-----------------------------------------------------------------------------
(* What the parser returns: an extension by its OID, and in the form that  *)
(* belongs to it, if the conversion asks for that and it was understood.   *)

\* The purposes that ExtendedKeyUsage has a flag for; `other' holds the rest.
PurposeFlags == {"anyExtendedKeyUsage", "id-kp-serverAuth", "id-kp-clientAuth", "id-kp-codeSigning",
                 "id-kp-emailProtection", "id-kp-timeStamping", "id-kp-OCSPSigning"}

ParsedExtension ==
  [kind : {"basicConstraints"}, ca : BOOLEAN, path_len : Option(U32)]
    \cup [kind : {"keyUsage"}, flags : 0 .. U16Max]
    \cup [kind : {"extKeyUsage"}, purposes : SUBSET PurposeFlags, other : BOOLEAN]
    \cup [kind : {"subjectAltName"}, names : Seq([type : STRING, text : STRING])]
    \cup [kind : {"authorityKeyIdentifier"}, key_identifier : Option(Seq(Octet)),
          authority_cert_issuer : Option(Seq(STRING)), authority_cert_serial : Option(Seq(Octet))]
    \cup [kind : {"unparsed"}]
X509Extension == {e \in [oid : STRING, critical : BOOLEAN, parsed : ParsedExtension] :
                    e.parsed.kind \in {e.oid, "unparsed"}}

\* The attributes in the order of iter_attributes, which goes through one RDN
\* (a set of attributes) after the other: `rdn' tells in which each one is.
X509Name ==
  {name \in Seq([rdn : Nat, oid : STRING, tag : STRING, value : Option(STRING)]) :
     \A i, j \in DOMAIN name : i <= j => name[i].rdn <= name[j].rdn}
X509Cert(times) ==
  [serial : Seq(Octet), signature_algorithm : STRING, issuer : X509Name,
   not_before : times, not_after : times, subject : X509Name,
   key_algorithm : STRING, key_parameters : Option(STRING), subject_public_key : Seq(Octet),
   extensions : Seq(X509Extension), signature_value : Seq(Octet)]

-----------------------------------------------------------------------------
(* The tables                                                              *)

\* lookup_oid
Recognized(oid, table) == \E entry \in table : entry[1] = oid
IdOf(oid, table) == (CHOOSE entry \in table : entry[1] = oid)[2]

SIGNATURE_ALGORITHM_OIDS ==
  { <<"ecdsa-with-SHA256", 0>>, <<"ecdsa-with-SHA384", 1>>, <<"ecdsa-with-SHA512", 2>>,
    <<"id-Ed25519", 12>>, <<"id-Ed448", 13>>, <<"sha256WithRSAEncryption", 23>>,
    <<"sha384WithRSAEncryption", 24>>, <<"sha512WithRSAEncryption", 25>> }

PUBLIC_KEY_ALGORITHM_OIDS ==
  { <<"rsaEncryption", 0>>, <<"id-Ed25519", 12>>, <<"id-Ed448", 13>> }

EC_CURVE_OIDS == { <<"secp256r1", 1>>, <<"secp384r1", 2>>, <<"secp521r1", 3>> }

RDN_ATTRIBUTE_OIDS ==
  { <<"emailAddress", 0>>, <<"commonName", 1>>, <<"surname", 2>>, <<"serialNumber", 3>>,
    <<"countryName", 4>>, <<"localityName", 5>>, <<"stateOrProvinceName", 6>>,
    <<"streetAddress", 7>>, <<"organizationName", 8>>, <<"organizationalUnitName", 9>>,
    <<"title", 10>>, <<"businessCategory", 11>>, <<"postalCode", 12>>, <<"givenName", 13>>,
    <<"initials", 14>>, <<"generationQualifier", 15>>, <<"dnQualifier", 16>>,
    <<"domainComponent", 22>>, <<"name", 25>>, <<"uid", 28>>, <<"unstructuredName", 29>> }

\* Mistake: the ids count up without a gap.
ExtendedKeyUsagesCounted ==
  << <<"anyExtendedKeyUsage", 0>>, <<"id-kp-serverAuth", 1>>, <<"id-kp-clientAuth", 2>>,
     <<"id-kp-codeSigning", 3>>, <<"id-kp-emailProtection", 4>>, <<"id-kp-timeStamping", 5>>,
     <<"id-kp-OCSPSigning", 6>> >>

\* The purposes x509-parser has a flag for, in the order they are tested.
EXTENDED_KEY_USAGES ==
  << <<"anyExtendedKeyUsage", 0>>, <<"id-kp-serverAuth", 1>>, <<"id-kp-clientAuth", 2>>,
     <<"id-kp-codeSigning", 3>>, <<"id-kp-emailProtection", 4>>, <<"id-kp-timeStamping", 8>>,
     <<"id-kp-OCSPSigning", 9>> >>

-----------------------------------------------------------------------------
(* The fields                                                              *)

\* public_key_algorithm_id.  The parameters of a key are absent (None), an
\* OID, or something else, whose `oid' is no name.
ReadsKeyAlgorithm(cert) ==
  \/ Recognized(cert.key_algorithm, PUBLIC_KEY_ALGORITHM_OIDS)
  \/ /\ cert.key_algorithm = "id-ecPublicKey"
     /\ cert.key_parameters # None
     /\ Recognized(cert.key_parameters.some, EC_CURVE_OIDS)

KeyAlgorithmId(cert) ==
  IF Recognized(cert.key_algorithm, PUBLIC_KEY_ALGORITHM_OIDS)
    THEN IdOf(cert.key_algorithm, PUBLIC_KEY_ALGORITHM_OIDS)
    ELSE IdOf(cert.key_parameters.some, EC_CURVE_OIDS)

\* name_to_rdn, which takes no notice of the RDN an attribute is in; an
\* attribute whose value is no string has none in `value'.
ReadsX509Name(name) ==
  \A i \in DOMAIN name : Recognized(name[i].oid, RDN_ATTRIBUTE_OIDS) /\ name[i].value # None

NameToRdn(name) ==
  [i \in DOMAIN name |->
     Registered(IdOf(name[i].oid, RDN_ATTRIBUTE_OIDS),
                name[i].tag = "PrintableString",
                SpecialTextOf(name[i].value.some))]

ReadsX509Fields(cert) ==
  /\ Recognized(cert.signature_algorithm, SIGNATURE_ALGORITHM_OIDS)
  /\ ReadsX509Name(cert.issuer) /\ ReadsX509Name(cert.subject)
  /\ ReadsKeyAlgorithm(cert)

-----------------------------------------------------------------------------
(* The extensions                                                          *)

\* In the order of the conversion.
EXTENSION_OIDS == << "basicConstraints", "keyUsage", "extKeyUsage", "subjectAltName",
                     "authorityKeyIdentifier" >>

\* Where the extension stands; x509-parser reports one that is there twice.
PlacesOf(oid, cert) == {i \in DOMAIN cert.extensions : cert.extensions[i].oid = oid}

\* The parser understood it.
IsParsed(e) == e.parsed.kind # "unparsed"

\* What is not understood: x509-parser may report it or take it for absent.
MayBeAbsent(e) == ~IsParsed(e) /\ e.oid # "authorityKeyIdentifier"

\* The forms the conversion takes: an issuer and a serial number of the
\* authority, beside a key identifier, are not looked at.
IsSupported(p) ==
  CASE p.kind \in {"basicConstraints", "keyUsage"} -> TRUE
    [] p.kind = "extKeyUsage"            -> ~p.other
    [] p.kind = "subjectAltName"         -> \A i \in DOMAIN p.names : p.names[i].type = "dNSName"
    [] p.kind = "authorityKeyIdentifier" -> p.key_identifier # None

PurposeIds(flags) ==
  LET Pushed(i) == IF EXTENDED_KEY_USAGES[i][1] \in flags
                     THEN <<EXTENDED_KEY_USAGES[i][2]>> ELSE <<>>
  IN  Pushed(1) \o Pushed(2) \o Pushed(3) \o Pushed(4) \o Pushed(5) \o Pushed(6) \o Pushed(7)

ExtensionOf(e) ==
  LET p == e.parsed
  IN  CASE p.kind = "basicConstraints" -> BasicConstraintsExt(e.critical, p.ca, p.path_len)
        [] p.kind = "keyUsage"         -> KeyUsageExt(e.critical, p.flags)
        [] p.kind = "extKeyUsage"      -> ExtKeyUsageExt(e.critical, PurposeIds(p.purposes))
        [] p.kind = "subjectAltName"   ->
             SubjectAltNameExt(e.critical, [i \in DOMAIN p.names |-> p.names[i].text])
        [] p.kind = "authorityKeyIdentifier" ->
             AuthorityKeyIdentifierExt(e.critical, p.key_identifier.some)
=============================================================================
