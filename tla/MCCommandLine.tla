--------------------------- MODULE MCCommandLine ---------------------------
(* One ordinary X.509 certificate and one ordinary JSON document, each with  *)
(* one or two parts replaced by every value at an edge, given to the program *)
(* with and without --sequence; and the ways to get the options wrong.       *)
EXTENDS Arrival

MCDateMin == -9
MCTimeMin == -9
MCOids == {<<1>>}
MCMacOfText == [t \in {"00:00:5E:00:53:AF"} |-> <<0, 0, 94, 0, 83, 175>>]

-----------------------------------------------------------------------------
(* X.509                                                                   *)

Attr(oid, tag, v) == [rdn |-> 1, oid |-> oid, tag |-> tag, value |-> v]
CommonName == Attr("commonName", "UTF8String", Some("a"))

X(oid, critical, parsed) == [oid |-> oid, critical |-> critical, parsed |-> parsed]
BasicConstraintsX(ca, path_len) ==
  [kind |-> "basicConstraints", ca |-> ca, path_len |-> path_len]
KeyUsageX(flags) == [kind |-> "keyUsage", flags |-> flags]
PurposesX(set, other) == [kind |-> "extKeyUsage", purposes |-> set, other |-> other]
NamesX(list) == [kind |-> "subjectAltName", names |-> list]
Dns(t) == [type |-> "dNSName", text |-> t]
AuthorityX(id, issuer, serial) ==
  [kind |-> "authorityKeyIdentifier", key_identifier |-> id,
   authority_cert_issuer |-> issuer, authority_cert_serial |-> serial]
NotUnderstood == [kind |-> "unparsed"]

OrdinaryX509 ==
  [serial |-> <<0, 128>>, signature_algorithm |-> "ecdsa-with-SHA256",
   issuer |-> <<CommonName>>, subject |-> <<>>,
   not_before |-> 1, not_after |-> 2,
   key_algorithm |-> "id-ecPublicKey", key_parameters |-> Some("secp256r1"),
   subject_public_key |-> <<4, 255>>,
   extensions |-> <<X("keyUsage", TRUE, KeyUsageX(6)),
                    X("basicConstraints", TRUE, BasicConstraintsX(TRUE, None))>>,
   signature_value |-> <<0, 5>>]

Understood ==
  {X("basicConstraints", c, BasicConstraintsX(ca, p)) : c \in BOOLEAN, ca \in BOOLEAN,
      p \in {None, Some(0), Some(I32Max), Some(I32Max + 1)}}
    \cup {X("keyUsage", c, KeyUsageX(f)) : c \in BOOLEAN, f \in {0, 1, U16Max}}
    \cup {X("extKeyUsage", FALSE, PurposesX(set, FALSE)) :
            set \in {{}, PurposeFlags} \cup {{p} : p \in PurposeFlags}
                      \cup {{"anyExtendedKeyUsage", "id-kp-OCSPSigning"}}}
    \cup {X("subjectAltName", c, NamesX(l)) : c \in BOOLEAN,
            l \in {<<>>, <<Dns("a")>>, <<Dns("b"), Dns("a")>>}}
    \cup {X("authorityKeyIdentifier", FALSE, AuthorityX(Some(<<1, 2>>), i, s)) :
            i \in {None, Some(<<"a">>)}, s \in {None, Some(<<3>>)}}
    \cup {X("authorityKeyIdentifier", FALSE, AuthorityX(Some(<<>>), None, None))}
Odd ==
  {X(EXTENSION_OIDS[i], TRUE, NotUnderstood) : i \in DOMAIN EXTENSION_OIDS}
    \cup {X("extKeyUsage", FALSE, PurposesX({}, TRUE)),
          X("subjectAltName", FALSE, NamesX(<<Dns("a"), [type |-> "rfc822Name", text |-> "b"]>>)),
          X("authorityKeyIdentifier", TRUE, AuthorityX(None, None, None)),
          X("authorityKeyIdentifier", TRUE, AuthorityX(None, Some(<<"a">>), Some(<<3>>))),
          X("nameConstraints", TRUE, NotUnderstood)}

ExtensionLists ==
  {<<>>} \cup {<<e>> : e \in Understood \cup Odd}
    \cup {Append(OrdinaryX509.extensions, e) : e \in Understood \cup Odd}
    \cup {<<e>> \o OrdinaryX509.extensions : e \in Odd}

\* Two attributes in one RDN, and in one each.
NamesOfX509 ==
  {<<>>, <<CommonName, CommonName>>, <<CommonName, [CommonName EXCEPT !.rdn = 2]>>,
   <<Attr("commonName", "UTF8String", None)>>,
   <<CommonName, Attr("pseudonym", "UTF8String", Some("a"))>>}
    \cup {<<Attr(t[1], "PrintableString", Some("a"))>> : t \in RDN_ATTRIBUTE_OIDS}
    \cup {<<Attr(o, t, Some("00:00:5E:00:53:AF"))>> :
            o \in {"emailAddress", "commonName"}, t \in {"UTF8String", "PrintableString"}}

Algorithms == {t[1] : t \in SIGNATURE_ALGORITHM_OIDS} \cup {"RSASSA-PSS with SHA-256"}
Keys == {<<k, p>> : k \in {"rsaEncryption", "id-Ed25519", "id-Ed448", "id-ecPublicKey", "id-X25519"},
                    p \in {None} \cup {Some(c) : c \in {"secp256r1", "secp384r1", "secp521r1",
                                                        "brainpoolP256r1", "not an OID"}}}
Times == {-1, 0, TimeMax - 1, TimeMax}

Certificates ==
  {OrdinaryX509}
    \cup {[OrdinaryX509 EXCEPT !.serial = b] : b \in {<<>>, <<0>>, <<0, 0, 1>>}}
    \cup {[OrdinaryX509 EXCEPT !.signature_algorithm = a] : a \in Algorithms}
    \cup {[OrdinaryX509 EXCEPT !.issuer = n] : n \in NamesOfX509}
    \cup {[OrdinaryX509 EXCEPT !.subject = n] : n \in NamesOfX509}
    \cup {[OrdinaryX509 EXCEPT !.not_before = s, !.not_after = t] : s \in Times, t \in Times}
    \cup {[OrdinaryX509 EXCEPT !.key_algorithm = k[1], !.key_parameters = k[2]] : k \in Keys}
    \cup {[OrdinaryX509 EXCEPT !.extensions = l] : l \in ExtensionLists}

X509File(cert, pem, begin) == [format |-> "x509", cert |-> cert, pem |-> pem, begin |-> begin]

-----------------------------------------------------------------------------
(* JSON                                                                    *)

Attribute(id, printable, v) == [id |-> id, printable_string |-> printable, value |-> v]
NoMembers == [name |-> "other", critical |-> Missing, ca |-> Missing, path_len |-> Missing,
               value |-> Missing, dns_names |-> Missing, key_identifier |-> Missing,
               oids |-> Missing]
List(l) == [json |-> "list", list |-> l]

Flags == {Missing, Null, Bool(FALSE), Bool(TRUE)}

JsonExtensions ==
  {[NoMembers EXCEPT !.name = "basic_constraints", !.critical = c, !.ca = a, !.path_len = p] :
     c \in {Missing, Bool(TRUE)}, a \in Flags,
     p \in {Missing, Null} \cup {Number(n) : n \in {-1, 0, I32Max, I32Max + 1, 2 * I32Max + 2}}}
  \cup {[NoMembers EXCEPT !.name = "key_usage", !.critical = c, !.value = v] :
     c \in Flags, v \in {Missing} \cup {Number(n) : n \in {-1, 0, 6, I32Max, I32Max + 1, 2 * I32Max + 2}}}
  \cup {[NoMembers EXCEPT !.name = "subject_alt_name", !.dns_names = n] :
     n \in {Missing, Texts(<<>>), Texts(<<"a">>), Texts(<<"b", "a">>)}}
  \cup {[NoMembers EXCEPT !.name = "authority_key_identifier", !.key_identifier = k] :
     k \in {Missing, Phrase("a"), Hex(<<>>), Hex(<<0, 1, Space, 15, 15>>), Hex(<<1>>)}}
  \cup {[NoMembers EXCEPT !.name = "ext_key_usage", !.oids = o] :
     o \in {Missing, Numbers(<<>>), Numbers(<<9, 1>>), Numbers(<<I32Max + 1>>)}}
  \cup {NoMembers}

JsonNames ==
  {Missing, Null, Phrase(""), Phrase("00:00:5E:00:53:AF"), Attributes(<<>>), Number(1)}
    \cup {Attributes(<<Attribute(i, p, Phrase("a"))>>) :
            i \in {Missing} \cup {Number(n) : n \in {-1, 0, 1, U16Max, U16Max + 1}}, p \in Flags}
    \cup {Attributes(<<Attribute(Number(1), Missing, v), Attribute(Number(2), Missing, Phrase("b"))>>) :
            v \in {Missing, Phrase("00:00:5E:00:53:AF")}}

Hexes == {Missing, Null, Phrase("a"), Hex(<<>>), Hex(<<0, 0>>), Hex(<<0, 0, Space, 1, 10>>),
          Hex(<<1, 2, 3>>), Hex(<<1, NotHex>>)}
Dates == {Missing, Null, Phrase("a"), DateOf(-1, TRUE), DateOf(0, TRUE), DateOf(TimeMax, FALSE)}
Integers32 == {Missing, Null} \cup {Number(n) : n \in {-(I32Max + 1), I32Max, I32Max + 1}}

OrdinaryDocument ==
  [certificate_type |-> Number(2), serial_number |-> Hex(<<0, 1, 0, 0>>),
   issuer_signature_algorithm |-> Number(0), issuer |-> Phrase("a"),
   validity_not_before |-> DateOf(1, FALSE), validity_not_after |-> DateOf(2, TRUE),
   subject |-> Phrase("b"), subject_public_key_algorithm |-> Number(1),
   subject_public_key |-> Hex(<<0, 4>>),
   extensions |-> List(<<[NoMembers EXCEPT !.name = "key_usage", !.value = Number(1)]>>),
   issuer_signature_value |-> Hex(<<0, 5>>), unknown |-> FALSE]

Documents ==
  {OrdinaryDocument, [OrdinaryDocument EXCEPT !.unknown = TRUE],
   [OrdinaryDocument EXCEPT !.extensions = Missing], [OrdinaryDocument EXCEPT !.extensions = Null]}
    \cup {[OrdinaryDocument EXCEPT ![m] = j] :
            m \in {"certificate_type", "issuer_signature_algorithm", "subject_public_key_algorithm"},
            j \in Integers32}
    \cup {[OrdinaryDocument EXCEPT ![m] = j] :
            m \in {"serial_number", "subject_public_key", "issuer_signature_value"}, j \in Hexes}
    \cup {[OrdinaryDocument EXCEPT ![m] = j] : m \in {"issuer", "subject"}, j \in JsonNames}
    \cup {[OrdinaryDocument EXCEPT !.validity_not_before = s, !.validity_not_after = t] :
            s \in Dates, t \in Dates}
    \cup {[OrdinaryDocument EXCEPT !.extensions = List(l)] :
            l \in {<<>>} \cup {<<e>> : e \in JsonExtensions}
                    \cup {OrdinaryDocument.extensions.list \o <<e>> : e \in JsonExtensions}}

-----------------------------------------------------------------------------
MCFiles ==
  {X509File(c, TRUE, TRUE) : c \in Certificates}
    \cup {X509File(OrdinaryX509, pem, begin) : pem \in BOOLEAN, begin \in BOOLEAN}
    \cup {[format |-> "json", doc |-> d] : d \in Documents}
    \cup {[format |-> "other"]}

\* Both ways to place --sequence, and what goes wrong: no operand, the other
\* option as operand, another path, help wherever it stands.
FileCalls ==
  {[args |-> a, stdin |-> ""] :
     a \in {<<"--from-json", Path>>, <<"--from-x509", Path>>, <<"--from-json", "--sequence", Path>>,
            <<"--sequence", "--from-x509", Path, "HEX">>}}
HexCalls ==
  {[args |-> a, stdin |-> s] :
     a \in {<<>>, <<"--sequence">>, <<"HEX">>}, s \in {"", "HEX", "bad", Own, NotText}}
OddCalls ==
  {[args |-> a, stdin |-> NotText] :
     a \in {<<"bad">>, <<"--from-json">>, <<"--from-x509", "--sequence">>,
            <<"--from-x509", "--from-json", Path>>, <<"--from-x509", "missing">>,
            <<"--from-x509", Path, "-h">>, <<"HEX", "--help">>, <<"--sequence", "--sequence", Path>>,
            <<NotText, "--help">>, <<"--from-x509", Path, NotText>>}}
AllCalls == FileCalls \cup HexCalls \cup OddCalls

MCHexTexts == [t \in {"", "HEX"} |-> IF t = "" THEN <<>> ELSE <<IntItem(0), BytesItem(<<1>>)>>]
=============================================================================
