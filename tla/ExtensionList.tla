--------------------------- MODULE ExtensionList ---------------------------
(***************************************************************************)
(* ExtensionValue, Extension and Extensions of extensions/mod.rs: their    *)
(* values, and what the encoder's choice of form makes of a list.  The     *)
(* values that modules of their own encode are opaque `content'.           *)
(***************************************************************************)
EXTENDS Common

CONSTANTS
  Contents,     \* what the opaque values hold
  Unwritable    \* those of them their encode refuses: a BasicConstraints with
                \* a path length beyond i32, a half of issuer and serial

\* The registry's own ids fit, whatever the width.
ASSUME RegistryAssumption == I32Max >= 38

I32Min == -(I32Max + 1)

-----------------------------------------------------------------------------
(* ExtensionValue                                                          *)

\* The variant that ExtensionValue::decode reads for a registry id.
KindOf(id) ==
  CASE id = 1  -> "SubjectKeyIdentifier"  [] id = 2  -> "KeyUsage"
    [] id = 3  -> "SubjectAltName"        [] id = 4  -> "BasicConstraints"
    [] id = 5  -> "CrlDistributionPoints" [] id = 6  -> "CertificatePolicies"
    [] id = 7  -> "AuthorityKeyIdentifier"
    [] id = 8  -> "ExtKeyUsage"           [] id = 9  -> "AuthorityInfoAccess"
    [] id = 24 -> "SubjectDirectoryAttributes"
    [] id = 25 -> "IssuerAltName"         [] id = 26 -> "NameConstraints"
    [] id = 27 -> "PolicyMappings"        [] id = 28 -> "PolicyConstraints"
    [] id = 29 -> "FreshestCrl"           [] id = 30 -> "InhibitAnyPolicy"
    [] id = 31 -> "SubjectInfoAccess"     [] id = 32 -> "IpAddrBlocks"
    [] id = 33 -> "AsIdentifiers"         [] id = 34 -> "IpAddrBlocksV2"
    [] id = 35 -> "AsIdentifiersV2"       [] id = 36 -> "OcspNoCheck"
    [] id = 38 -> "TlsFeatures"
    [] OTHER   -> "Raw"

UintKinds == {"KeyUsage", "InhibitAnyPolicy"}
PlainKinds == UintKinds \cup {"SubjectKeyIdentifier", "OcspNoCheck", "Raw"}
TypedKinds == {KindOf(id) : id \in 1 .. 38} \ PlainKinds

TypedItem(codec, content) ==
  [type |-> "typed", codec |-> codec, content |-> content]

\* No codec writes an unwritable content, and none reads one: ExtensionValues
\* shows the latter.
ValueItem ==
  Nested1 \cup [type : {"typed"}, codec : TypedKinds, content : Contents \ Unwritable]

\* Raw holds a CBOR item under a registry id, the DER bytes under an OID.
RegisteredValue ==
  [kind : UintKinds, uint : U32]
    \cup [kind : {"SubjectKeyIdentifier"}, bytes : Seq(Octet)]
    \cup [kind : {"OcspNoCheck"}]
    \cup [kind : {"Raw"}, cbor : {item \in ValueItem : IsComplete(item)}]
    \cup [kind : TypedKinds, content : Contents]
DerValue == [kind : {"Raw"}, der : Seq(Octet)]

\* Whether ExtensionValue::encode returns Ok.
ValueEncodes(v) == v.kind \in TypedKinds => v.content \notin Unwritable

-----------------------------------------------------------------------------
(* Extension and Extensions                                                *)

Extension == [id : [form : {"int"}, int : I32], critical : BOOLEAN,
              value : RegisteredValue]
               \cup [id : [form : {"oid"}, oid : Oids], critical : BOOLEAN,
                     value : DerValue \cup {v \in RegisteredValue : v.kind # "Raw"}]

\* encode_critical_i32, for a number that has a negation.
Signed(n, critical) == IF critical THEN -n ELSE n
HasSigned(n, critical) == ~(critical /\ n = I32Min)

IsSingleKeyUsage(list) ==
  /\ Len(list) = 1
  /\ list[1].id = IntId(2)
  /\ list[1].value.kind = "KeyUsage"

\* The lists that Extensions::encode writes without an error.
Encodes(list) ==
  IF IsSingleKeyUsage(list)
    THEN list[1].value.uint \in I32
    ELSE \A i \in DOMAIN list :
           IF list[i].id.form = "int"
             THEN HasSigned(list[i].id.int, list[i].critical) /\ ValueEncodes(list[i].value)
             ELSE list[i].value.kind = "Raw"

\* The list with criticality dropped where its sign would be on a zero.
UnsignedZero(list) ==
  [i \in DOMAIN list |->
     IF \/ list[i].id = IntId(0)
        \/ IsSingleKeyUsage(list) /\ list[1].value.uint = 0
       THEN [list[i] EXCEPT !.critical = FALSE] ELSE list[i]]
=============================================================================
