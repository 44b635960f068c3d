------------------------------ MODULE Arrival ------------------------------
(***************************************************************************)
(* What a converted file and the certificate shown in the end have in      *)
(* common, said without the converters' tables: by the names registry.rs   *)
(* gives to ids, and by the hex of the document.                           *)
(***************************************************************************)
EXTENDS CommandLine, Registry

(* X.509                                                                   *)

\* Attributes of the one kind of name and of the other that say the same.
SameText(special, t) == IF special.kind = "mac" THEN MacOfText[t] = special.bytes
                                                ELSE special = Text(t)
\* C509 has no RDN of several attributes: they are one after the other.
SameName(attrs, name) ==
  /\ DOMAIN attrs = DOMAIN name
  /\ \A i \in DOMAIN name :
       /\ <<attrs[i].id, name[i].oid>> \in RdnAttributeNames
       /\ \/ attrs[i].printable = (name[i].tag = "PrintableString")
          \/ attrs[i].id = 0 /\ ~attrs[i].printable
       /\ SameText(attrs[i].value, name[i].value.some)

CurveName(cert) ==
  IF cert.key_algorithm # "id-ecPublicKey" THEN cert.key_algorithm
  ELSE CASE cert.key_parameters = Some("secp256r1") -> "id-ecPublicKey (secp256r1)"
         [] cert.key_parameters = Some("secp384r1") -> "id-ecPublicKey (secp384r1)"
         [] cert.key_parameters = Some("secp521r1") -> "id-ecPublicKey (secp521r1)"

SamePurposes(ids, purposes) ==
  /\ \A i \in DOMAIN ids : \E n \in purposes : <<ids[i], n>> \in ExtendedKeyUsageNames
  /\ \A n \in purposes : \E i \in DOMAIN ids : <<ids[i], n>> \in ExtendedKeyUsageNames

SameNames(names, texts) ==
  /\ DOMAIN names = DOMAIN texts
  /\ \A i \in DOMAIN names : /\ names[i].value = texts[i]
                            /\ <<names[i].kind, "dNSName">> \in GeneralNameTypeNames

\* The extension shown says what the parsed one does, but for the issuer and
\* serial number beside a key identifier, which C509 could carry, and a path
\* length without cA, which means nothing.
SameExtension(x, e) ==
  LET p == e.parsed
  IN  /\ <<x.id.int, e.oid>> \in ExtensionNames
      /\ CASE p.kind = "basicConstraints" ->
                x.value.content = IF p.ca THEN Ca(p.path_len) ELSE NotCa
           [] p.kind = "keyUsage"    -> x.value.uint = p.flags
           [] p.kind = "extKeyUsage" -> SamePurposes(x.value.content.purposes, p.purposes)
           [] p.kind = "subjectAltName" ->
                SameNames(x.value.content.names, [i \in DOMAIN p.names |-> p.names[i].text])
           [] p.kind = "authorityKeyIdentifier" ->
                x.value.content = KeyIdentifierAlone(p.key_identifier.some)

\* Each of those that were understood is in the list, which has no others.
SameExtensions(list, given) ==
  LET parsed == {j \in DOMAIN given : IsParsed(given[j])}
  IN  /\ Len(list) = Cardinality(parsed)
      /\ \A j \in parsed : \E i \in DOMAIN list :
           /\ SameExtension(list[i], given[j])
           /\ \/ list[i].critical = given[j].critical
              \/ IsSingleKeyUsage(list) /\ given[j].parsed.flags = 0

SameTime(t, secs) == t = C!Time(secs, FALSE)

\* The whole way, from an X.509 file through the hex to the fields that are
\* shown in the end: ids that registry.rs calls as the certificate's OIDs are
\* called, the attributes of a name in their order, each extension that was
\* understood once and with its criticality, no expiration exactly for the
\* last second of the year 9999.  Lost on the way are how attributes group
\* into RDNs, and of an authorityKeyIdentifier all but the key identifier.
ArrivesAsIssued ==
  printed # NoOutput /\ shown # C!NoValue /\ file.format = "x509" =>
    LET cert == file.cert
    IN  /\ ToBytesBe(shown.certificate_serial_number) = ToBytesBe(FromBytesBe(cert.serial))
        /\ <<shown.issuer_signature_algorithm.int, cert.signature_algorithm>>
              \in SignatureAlgorithmNames
        /\ SameName(shown.issuer.content, cert.issuer)
        /\ SameName(shown.subject.content, cert.subject)
        /\ SameTime(shown.validity_not_before, cert.not_before)
        /\ \/ SameTime(shown.validity_not_after, cert.not_after) /\ cert.not_after < TimeMax
           \/ shown.validity_not_after = None /\ cert.not_after = TimeMax
        /\ <<shown.subject_public_key_algorithm.int, CurveName(cert)>>
              \in PublicKeyAlgorithmNames
        /\ shown.subject_public_key = cert.subject_public_key
        /\ shown.issuer_signature_value = cert.signature_value
        /\ SameExtensions(shown.extensions.content, cert.extensions)

-----------------------------------------------------------------------------
(* JSON                                                                    *)

SameHex(bytes, j) == HexEncoded(bytes) = Cleaned(j.digits)

DescribedName(attrs, j) ==
  CASE j.json = "text" -> /\ Len(attrs) = 1 /\ attrs[1].id = 1 /\ ~attrs[1].printable
                          /\ SameText(attrs[1].value, j.text)
    [] j.json = "attributes" ->
         /\ DOMAIN attrs = DOMAIN j.attributes
         /\ \A i \in DOMAIN attrs :
              /\ attrs[i].id = j.attributes[i].id.number
              /\ \/ attrs[i].printable = (j.attributes[i].printable_string = Bool(TRUE))
                 \/ attrs[i].id = 0 /\ ~attrs[i].printable
              /\ SameText(attrs[i].value, j.attributes[i].value.text)

ExtensionMembers == { <<"basic_constraints", "basicConstraints">>, <<"key_usage", "keyUsage">>,
                      <<"subject_alt_name", "subjectAltName">>, <<"ext_key_usage", "extKeyUsage">>,
                      <<"authority_key_identifier", "authorityKeyIdentifier">> }

DescribedExtension(x, e) ==
  /\ \E m \in ExtensionMembers : m[1] = e.name /\ <<x.id.int, m[2]>> \in ExtensionNames
  /\ \/ x.critical = (e.critical = Bool(TRUE))
     \/ e.name = "key_usage" /\ e.value = Number(0) /\ ~x.critical
  /\ CASE e.name = "basic_constraints" ->
            IF e.ca # Bool(TRUE) THEN x.value.content = NotCa
            ELSE IF IsUnset(e.path_len) THEN x.value.content = Ca(None)
            ELSE e.path_len = Number(x.value.content.path_len.some)
       [] e.name = "key_usage"        -> e.value = Number(x.value.uint)
       [] e.name = "subject_alt_name" -> SameNames(x.value.content.names, e.dns_names.texts)
       [] e.name = "ext_key_usage"    -> e.oids = Numbers(x.value.content.purposes)
       [] e.name = "authority_key_identifier" ->
            /\ SameHex(x.value.content.key_identifier, e.key_identifier)
            /\ x.value.content.cert_issuer = None /\ x.value.content.cert_serial = None

DescribedTime(t, j) == IF t = None THEN IsUnset(j) ELSE j.json = "date" /\ j.secs = t.secs

\* The whole way of a JSON document: the fields that are shown in the end are
\* its members, but for spaces and leading zeros of hex, fractions of seconds,
\* flags that have no sign, and a path length of what is not a CA.
ArrivesAsDescribed ==
  printed # NoOutput /\ shown # C!NoValue /\ file.format = "json" =>
    LET doc == file.doc
    IN  /\ doc.certificate_type = Number(shown.c509_certificate_type)
        /\ FromBytesBe(HexEncoded(shown.certificate_serial_number))
              = FromBytesBe(Cleaned(doc.serial_number.digits))
        /\ doc.issuer_signature_algorithm = Number(shown.issuer_signature_algorithm.int)
        /\ IF shown.issuer = None THEN IsUnset(doc.issuer)
                                  ELSE DescribedName(shown.issuer.content, doc.issuer)
        /\ DescribedTime(shown.validity_not_before, doc.validity_not_before)
        /\ DescribedTime(shown.validity_not_after, doc.validity_not_after)
        /\ DescribedName(shown.subject.content, doc.subject)
        /\ doc.subject_public_key_algorithm = Number(shown.subject_public_key_algorithm.int)
        /\ SameHex(shown.subject_public_key, doc.subject_public_key)
        /\ SameHex(shown.issuer_signature_value, doc.issuer_signature_value)
        /\ DOMAIN shown.extensions.content = DOMAIN Listed(doc)
        /\ \A i \in DOMAIN Listed(doc) :
             DescribedExtension(shown.extensions.content[i], Listed(doc)[i])
=============================================================================
