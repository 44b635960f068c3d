----------------------------- MODULE Converted -----------------------------
(***************************************************************************)
(* The extensions that x509_to_c509.rs and cert_json.rs build, five kinds  *)
(* each, and what of a converted certificate the codecs lose or refuse.    *)
(***************************************************************************)
EXTENDS ExtensionList, TextForms

CERTIFICATE_TYPE_DER_REENCODED == 3

EXT_KEY_USAGE_ID                == 2
EXT_SUBJECT_ALT_NAME_ID         == 3
EXT_BASIC_CONSTRAINTS_ID        == 4
EXT_AUTHORITY_KEY_IDENTIFIER_ID == 7
EXT_EXT_KEY_USAGE_ID            == 8

Typed(id, critical, content) ==
  [id |-> IntId(id), critical |-> critical, value |-> [kind |-> KindOf(id), content |-> content]]

NotCa == [kind |-> "not_ca"]
Ca(path_len) == [kind |-> "ca", path_len |-> path_len]

\* Mistake: a path length makes a CA.
BasicConstraintsOfPathLen(ca, path_len) == IF ca \/ path_len # None THEN Ca(path_len) ELSE NotCa

\* Without cA there is no path length.
BasicConstraintsOf(ca, path_len) == IF ca THEN Ca(path_len) ELSE NotCa

BasicConstraintsExt(critical, ca, path_len) ==
  Typed(EXT_BASIC_CONSTRAINTS_ID, critical, BasicConstraintsOf(ca, path_len))

KeyUsageExt(critical, flags) ==
  [id |-> IntId(EXT_KEY_USAGE_ID), critical |-> critical,
   value |-> [kind |-> "KeyUsage", uint |-> flags]]

ExtKeyUsageExt(critical, ids) == Typed(EXT_EXT_KEY_USAGE_ID, critical, [purposes |-> ids])

GENERAL_NAME_DNS == 2

\* General names of kind dNSName only.
SubjectAltNameExt(critical, texts) ==
  Typed(EXT_SUBJECT_ALT_NAME_ID, critical,
        [names |-> [i \in DOMAIN texts |-> [kind |-> GENERAL_NAME_DNS, value |-> texts[i]]]])

\* The form without issuer and serial number.
KeyIdentifierAlone(bytes) == [key_identifier |-> bytes, cert_issuer |-> None, cert_serial |-> None]

AuthorityKeyIdentifierExt(critical, bytes) ==
  Typed(EXT_AUTHORITY_KEY_IDENTIFIER_ID, critical, KeyIdentifierAlone(bytes))

ConvertedContents == {NotCa} \cup [kind : {"ca"}, path_len : Option(U32)]
                       \cup [purposes : Seq(I32)]
                       \cup [names : Seq([kind : I32, value : STRING])]
                       \cup [key_identifier : Seq(Octet), cert_issuer : {None}, cert_serial : {None}]

\* Those among them that BasicConstraints::encode refuses.
LongPaths == {Ca(Some(n)) : n \in I32Max + 1 .. 2 * I32Max + 1}

-----------------------------------------------------------------------------
(* What the codecs of names and extension lists do to converted values:    *)
(* Names, Extensions and ExtensionValues show it.                          *)

NameList == Seq(RdnAttr(SpecialText, Seq(Octet)))
NameOnWire == [n \in NameList |-> [i \in DOMAIN n |-> UnsignedAttr(n[i])]]

ExtList == Seq(Extension)
ExtOnWire == [list \in ExtList |-> UnsignedZero(list)]
=============================================================================
