--------------------------- MODULE MCCertificate ---------------------------
(* One ordinary certificate and its items, with one or two fields replaced   *)
(* by each of the values and items that are at an edge.                      *)
EXTENDS Certificate

MCTimeMin == -2
MCNameContents == {"ca", "device", "printable"}
MCNameWritten  == [c \in MCNameContents |-> IF c = "printable" THEN "device" ELSE c]
MCExtContents  == {"none", "some", "critical", "misfit"}
MCExtWritten   == [c \in MCExtContents |-> IF c = "critical" THEN "some" ELSE c]
MCOids == {<<1>>, <<1, 2>>}

Ordinary ==
  [c509_certificate_type        |-> 3,
   certificate_serial_number    |-> <<1, 0>>,
   issuer_signature_algorithm   |-> AlgInt(0),
   issuer                       |-> NameOf("ca"),
   validity_not_before          |-> Time(1, FALSE),
   validity_not_after           |-> Time(2, FALSE),
   subject                      |-> NameOf("device"),
   subject_public_key_algorithm |-> AlgInt(1),
   subject_public_key           |-> <<4>>,
   extensions                   |-> ExtensionsOf("some"),
   issuer_signature_value       |-> <<5>>]

Algorithms == {AlgInt(n) : n \in {-(I32Max + 1), I32Max}}
                \cup {AlgOid(<<1>>), AlgOidParameters(<<1, 2>>, <<>>),
                      AlgOidParameters(<<1>>, <<6>>)}
Times(codec) == {Time(s, f) : s \in {0, TimeMax}, f \in BOOLEAN}
                  \cup (IF codec = "time" THEN {} ELSE {None})
EarlyTimes == {Time(TimeMin, FALSE), Time(-1, TRUE)}

Edges(codec) ==
  CASE codec = "i32"           -> {-(I32Max + 1), 2}
    [] codec = "biguint"       -> {<<>>, <<1>>}
    [] codec = "algorithm"     -> Algorithms
    [] codec = "name"          -> {NameOf("ca"), NameOf("printable")}
    [] codec = "optional name" -> {None, NameOf("device"), NameOf("printable")}
    [] codec \in {"time", "optional time"} -> Times(codec)
    [] codec = "bytes"         -> {<<>>, <<4>>, <<5>>}
    [] codec = "extensions"    -> {ExtensionsOf("none"), ExtensionsOf("critical")}

With(cert, k, v) == [cert EXCEPT ![EncodePlan[k][1]] = v]

Usual == UNION {{With(Ordinary, k, v) : v \in Edges(EncodePlan[k][2])} : k \in 1 .. FIELD_COUNT}
           \cup {With(With(Ordinary, 5, s), 6, t) :
                   s \in Edges("time"), t \in Edges("optional time")}
Early == {With(Ordinary, k, t) : k \in {5, 6}, t \in EarlyTimes}

MCCallers == {Ordinary} \cup Usual \cup Early
               \cup {With(Ordinary, 10, ExtensionsOf("misfit"))}
EarlyCallers == {Ordinary} \cup Early
NoForeign == {}

-----------------------------------------------------------------------------
OrdinaryItems == [k \in 1 .. FIELD_COUNT |->
                    ItemOf(EncodePlan[k][2], Ordinary[EncodePlan[k][1]])]

Items == {NullItem, BytesItem(<<>>), BytesItem(<<0>>), BytesItem(<<0, 0, 1>>), BytesItem(<<1>>),
          BytesItem(<<9>>), TextItem("a"), IndefiniteArray(<<>>), Header(FIELD_COUNT)}
           \cup {IntItem(n) : n \in {-(I32Max + 2), MCTimeMin, -1, 0, TimeMax, TimeMax + 1}}
           \cup {ArrayItem(<<BytesItem(<<1>>), BytesItem(b)>>) : b \in {<<>>, <<6>>}}
           \cup {ArrayItem(<<BytesItem(<<9>>), BytesItem(<<>>)>>),
                 ArrayItem(<<BytesItem(<<1>>)>>),
                 ArrayItem(<<BytesItem(<<1>>), NullItem>>),
                 ArrayItem(<<BytesItem(<<1>>), BytesItem(<<6>>), BytesItem(<<>>)>>),
                 OpaqueItem("name", "ca"), OpaqueItem("extensions", "misfit"),
                 OpaqueItem("extensions", "critical")}

Replaced == {OrdinaryItems} \cup {[OrdinaryItems EXCEPT ![k] = i] : k \in 1 .. FIELD_COUNT, i \in Items}
Headers  == {<<>>, <<Header(FIELD_COUNT)>>}

MCForeign ==
  {h \o b : h \in Headers, b \in Replaced}
    \cup {h \o SubSeq(OrdinaryItems, 1, n) : h \in Headers, n \in 0 .. 10}
    \cup {h \o Append(OrdinaryItems, i) : h \in Headers, i \in {NullItem, Header(2)}}
    \cup {Append(h \o SubSeq(OrdinaryItems, 1, 2), TruncatedArray(2, <<BytesItem(<<1>>)>>)) :
            h \in Headers}
    \cup {<<h>> \o OrdinaryItems : h \in {Header(10), Header(12), IndefiniteHeader}}
=============================================================================
