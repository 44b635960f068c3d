------------------------- MODULE MCExtensionValues -------------------------
(* i32 ends at 9, behind the largest kind of a general name.                 *)
EXTENDS ExtensionValues, SequencesExt

MCOids == {<<1>>, <<1, 2>>}
Six    == <<1, 2, 3, 4, 5, 6>>
Eight  == <<1, 2, 3, 4, 5, 6, 7, 8>>

\* Every variant under its own kind, and under kinds that are not its own.
Contents(n) == CASE n \in TextVariants  -> {[text |-> "a"]}
                 [] n \in OtherVariants -> {[oid |-> <<1>>, bytes |-> <<>>]}
                 [] n = -3              -> {[mac |-> Six], [mac |-> Eight]}
                 [] n = 4               -> {[name |-> "n"]}
                 [] n = 7               -> {[bytes |-> <<1>>]}
                 [] n = 8               -> {[oid |-> <<1, 2>>]}
                 [] n = RawVariant      -> {[cbor |-> NullItem], [cbor |-> ArrayItem(<<IntItem(1)>>)]}
General(k, n) == {[kind |-> k, variant |-> n, content |-> c] : c \in Contents(n)}
Own   == UNION {General(n, n) : n \in Variants} \cup General(9, RawVariant) \cup General(-10, RawVariant)
Cross == UNION {General(k, n) : k \in {1, 2, 7, 8}, n \in {2, 6, 7, 8, RawVariant}}
Dns   == [kind |-> 2, variant |-> 2, content |-> [text |-> "b"]]
GeneralNameLists == {<<>>, <<Dns, Dns>>} \cup {<<g>> : g \in Own \cup Cross}
                      \cup {<<g, Dns>> : g \in Own}
Subtrees == {None, Some(<<>>), Some(<<Dns>>)} \cup {Some(<<g>>) : g \in Own}

Uints  == {None, Some(0), Some(1), Some(I32Max), Some(I32Max + 1), Some(2 * I32Max), Some(2 * I32Max + 1)}
Points == {[full_name |-> f, reasons |-> r, crl_issuer |-> i] :
             f \in {<<>>, <<"a">>, <<"a", "b">>}, r \in {None, Some(0), Some(2 * I32Max + 1)},
             i \in {None, Some("n")}}
Ids    == {IntId(n) : n \in {-(I32Max + 1), -1, 0, I32Max}} \cup {OidId(o) : o \in MCOids}
IdTexts == BoundedSeq({[id |-> i, text |-> "a"] : i \in Ids}, 2)
Attrs(V, B) == {Registered(i, p, v) : i \in 0 .. U16Max, p \in BOOLEAN, v \in V}
                 \cup {OfOid(<<1>>, b) : b \in B}
Texts  == {<<>>, <<Text("a")>>, <<Bytes(<<1>>), Mac(Six)>>}

Of(c, S) == [codec : {c}, v : S]
MCCallers ==
  UNION {Of("BasicConstraints", {NotCa} \cup {Ca(n) : n \in Uints}),
         Of("SubjectAltName", GeneralNameLists),
         Of("AuthorityKeyIdentifier",
            [key_identifier : {<<>>, <<1>>}, cert_issuer : {None, Some(<<>>), Some(<<Dns>>)},
             cert_serial : {None, Some(<<>>), Some(<<1, 0>>)}]),
         Of("NameConstraints", [permitted : Subtrees, excluded : {None, Some(<<Dns>>)}]),
         Of("CrlDistributionPoints", BoundedSeq(Points, 2)),
         Of("AuthorityInfoAccess", IdTexts),
         Of("CertificatePolicies",
            BoundedSeq([id : {IntId(1), OidId(<<1>>)},
                        qualifiers : {<<>>, <<[id |-> IntId(2), text |-> "q"]>>}], 2)),
         Of("PolicyMappings", BoundedSeq(Ids \X Ids, 1)),
         Of("PolicyConstraints", [require_explicit_policy : Uints, inhibit_policy_mapping : Uints]),
         Of("ExtKeyUsage", BoundedSeq(Ids, 2)),
         Of("TlsFeatures", BoundedSeq({0, 5, 2 * I32Max + 1}, 2)),
         Of("SubjectDirectoryAttributes",
            BoundedSeq(Attrs(Texts, {<<>>, <<<<>>, <<1>>>>}), 1)
              \cup SeqOf(Attrs({<<>>}, {<<>>}), 2))}

-----------------------------------------------------------------------------
(* Every codec meets every one of these items, the ill-formed ones too.      *)

NameItem == OpaqueItem("name", "n")
Scalars == {IntItem(n) : n \in {-11, -10, -3, -2, -1, 0, 1, 2, 4, 7, 9, 10, 19, 20}}
             \cup {BytesItem(b) : b \in {<<>>, <<0>>, <<0, 1>>, <<1>>, <<9>>, Six}}
             \cup {TextItem("a"), NullItem, TagItem(MacAddressTag, Six), NameItem}
Pair == ArrayItem(<<BytesItem(<<1>>), BytesItem(<<2>>)>>)
DnsItems == ArrayItem(<<IntItem(2), TextItem("a")>>)
Inner == {ArrayItem(<<>>), Pair, DnsItems,
          ArrayItem(<<BytesItem(<<1>>), BytesItem(<<2>>), BytesItem(<<3>>)>>),
          ArrayItem(<<TextItem("a")>>), ArrayItem(<<TextItem("a"), TextItem("b")>>),
          ArrayItem(<<IntItem(-3), BytesItem(Six)>>),
          IndefiniteArray(<<>>), IndefiniteArray(<<IntItem(1)>>)}
Parts == Scalars \cup Inner
PointItems == {ArrayItem(<<f, r, i>>) :
                 f \in {TextItem("a"), NullItem, ArrayItem(<<>>), ArrayItem(<<TextItem("a")>>),
                        ArrayItem(<<TextItem("a"), TextItem("b")>>), ArrayItem(<<IntItem(1)>>)},
                 r \in {NullItem, IntItem(0), IntItem(-1), IntItem(20)},
                 i \in {NullItem, NameItem, TextItem("a")}}
IssuerItems == {ArrayItem(<<k, g, s>>) :
                  k \in {BytesItem(<<1>>), TextItem("a")}, g \in {ArrayItem(<<>>), DnsItems, Pair, NullItem},
                  s \in {BytesItem(b) : b \in {<<>>, <<0>>, <<0, 1>>, <<1, 0>>}} \cup {NullItem}}

\* Arrays whose claim is longer than the input.
Short == {TruncatedArray(n, s) : n \in 1 .. 3, s \in {<<>>}}
           \cup {TruncatedArray(n, <<IntItem(1)>>) : n \in 2 .. 3}
           \cup {TruncatedArray(4, <<IntItem(2), TextItem("a")>>),
                 TruncatedArray(3, <<BytesItem(<<1>>), DnsItems>>),
                 ArrayItem(<<TruncatedArray(1, <<>>)>>),
                 ArrayItem(<<IntItem(9), TruncatedArray(1, <<>>)>>),
                 ArrayItem(<<NullItem, TruncatedArray(2, <<IntItem(2)>>)>>)}

ForeignItems ==
  Parts \cup PointItems \cup IssuerItems \cup Short
    \cup {ArrayItem(<<a>>) : a \in Parts \cup PointItems}
    \cup {ArrayItem(<<a, b>>) : a, b \in Parts}
    \cup {ArrayItem(<<p, PointItem(PlainPoint("b"))>>) : p \in PointItems}
    \cup {ArrayItem(<<a, TextItem("a"), IntItem(2), TextItem("b")>>) : a \in Parts}
    \cup {ArrayItem(<<IntItem(2), TextItem("b"), IntItem(1), b>>) : b \in Parts}
    \cup {IndefiniteArray(<<a, IntItem(1)>>) : a \in Scalars}

MCForeign == [codec : Codecs, item : ForeignItems]
=============================================================================
