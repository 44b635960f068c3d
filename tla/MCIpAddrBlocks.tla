--------------------------- MODULE MCIpAddrBlocks ---------------------------
(* Octets of 2 bits, IPv4 of 1 octet, IPv6 of 2, and an integer form of 2    *)
(* octets: as in the code, every IPv4 address fits the integer form and an   *)
(* IPv6 address does unless it has too many significant octets.              *)
EXTENDS IpAddrBlocks, SequencesExt

MCWidth == [afi \in 1 .. 2 |-> afi]

Entries(afi) == AddrEntry(afi)

Canonical(entry) == MaskedEntry(entry) = entry

CanonicalEntries(afi) == {e \in Entries(afi) : Canonical(e)}

Family1(afi, safi, list) == [afi |-> afi, safi |-> safi, choice |-> EntryList(list)]

\* Boundary entries of IPv6: both forms, both fills, empty and full prefixes.
Net6(a, b, n) == AddrPrefix([addr |-> <<a, b>>, prefixLen |-> n])
Boundary6 ==
  { Net6(0, 0, 0), Net6(2, 0, 1), Net6(3, 0, 2), Net6(1, 2, 3), Net6(3, 3, 4),
    AddrRange(<<0, 0>>, <<3, 3>>), AddrRange(<<1, 0>>, <<0, 3>>),
    AddrRange(<<0, 1>>, <<3, 2>>), AddrRange(<<3, 0>>, <<3, 0>>) }
Boundary4 ==
  { AddrPrefix([addr |-> <<0>>, prefixLen |-> 0]),
    AddrPrefix([addr |-> <<3>>, prefixLen |-> 2]), AddrRange(<<0>>, <<3>>) }

Singles ==
  {Family1(1, NoSafi, s) : s \in BoundedSeq(CanonicalEntries(1), 2)}
    \cup {Family1(2, 1, s) : s \in BoundedSeq(CanonicalEntries(2), 1)}
    \cup {Family1(2, NoSafi, s) : s \in BoundedSeq(Boundary6, 2)}
    \cup {[afi |-> 3, safi |-> NoSafi, choice |-> Inherit]}

Pairs ==
  {<<Family1(1, NoSafi, <<a>>), Family1(2, 1, <<b>>)>> : a \in Boundary4, b \in Boundary6}
    \cup {<<Family1(2, 0, <<b, c>>), [afi |-> 1, safi |-> 1, choice |-> Inherit],
           Family1(1, 0, <<a>>)>> : a \in Boundary4, b \in Boundary6, c \in Boundary6}

FitCallers == {Blocks(<<>>)} \cup {Blocks(<<f>>) : f \in Singles} \cup {Blocks(p) : p \in Pairs}

\* IPv4 addresses under AFI 2, IPv6 addresses under AFI 1, and both under AFI 3,
\* alone, mixed, in one range, and before a family that is as it should be.
MixedRanges == {AddrRange(<<a>>, <<b, c>>) : a, b, c \in {0, 1, 3}}
                 \cup {AddrRange(<<b, c>>, <<a>>) : a, b, c \in {0, 1, 3}}
Misfits ==
  {Family1(2, NoSafi, <<a>>) : a \in Entries(1)}
    \cup {Family1(1, NoSafi, <<b>>) : b \in Entries(2)}
    \cup {Family1(afi, 1, <<a, b>>) : afi \in 1 .. 3, a \in Boundary4, b \in Boundary6}
    \cup {Family1(afi, 1, <<r>>) : afi \in 1 .. 3, r \in MixedRanges}
MCCallers ==
  FitCallers \cup {Blocks(<<f>>) : f \in Misfits}
    \cup {Blocks(<<f, Family1(1, NoSafi, <<a>>)>>) :
            f \in {g \in Misfits : g.safi = 1}, a \in Boundary4}

-----------------------------------------------------------------------------
Ints  == {IntItem(n) : n \in CborInt}
Some  == {IntItem(n) : n \in {-16, -4, -1, 0, 1, 4, 7, 12, 15}}
Raws  == {BytesItem(b) : b \in BoundedSeq(Octet, 2)}
           \cup {BytesItem(<<u>> \o b) : u \in {0, 1, 3}, b \in SeqOf({1, 3}, 3)}
SomeRaws == {BytesItem(b) : b \in {<<>>, <<0>>, <<1, 2>>, <<1, 3>>, <<0, 3>>, <<0, 1, 3>>,
                                   <<3, 1, 2>>, <<0, 1, 1, 1>>}}
Ranges(S) == {ArrayItem(<<a, b>>) : a, b \in S}
Malformed == { NullItem, TextItem("t"), ArrayItem(<<>>), ArrayItem(<<IntItem(4)>>),
               ArrayItem(<<IntItem(4), IntItem(1), IntItem(1)>>),
               ArrayItem(<<IntItem(4), TextItem("t")>>),
               ArrayItem(<<BytesItem(<<0, 1>>), NullItem>>),
               TruncatedArray(2, <<IntItem(4)>>), TruncatedArray(2, <<>>),
               IndefiniteArray(<<IntItem(4), IntItem(1)>>) }
Elements == Some \cup SomeRaws \cup Malformed
              \cup Ranges({IntItem(4), IntItem(3), IntItem(9)})
              \cup Ranges({BytesItem(<<0, 1>>), BytesItem(<<1, 2>>), BytesItem(<<0, 1, 3>>)})

Lists == {ArrayItem(<<e>>) : e \in Ints \cup Raws \cup Malformed \cup Ranges(Some) \cup Ranges(SomeRaws)}
           \cup {ArrayItem(<<a, b>>) : a, b \in Elements}
           \cup {ArrayItem(<<>>), NullItem, TextItem("t"), TruncatedArray(1, <<>>),
                 TruncatedArray(2, <<IntItem(4)>>), IndefiniteArray(<<IntItem(4)>>)}

Good == ArrayItem(<<IntItem(4)>>)

MCForeign ==
  {ArrayItem(<<IntItem(2), NullItem, list>>) : list \in Lists}
    \cup {ArrayItem(<<IntItem(1), IntItem(0), ArrayItem(<<e>>)>>) : e \in Elements}
    \cup {ArrayItem(<<afi, safi, list>>) :
            afi  \in {IntItem(-1), IntItem(0), IntItem(1), IntItem(3), IntItem(4), NullItem},
            safi \in {IntItem(-1), IntItem(3), IntItem(4), NullItem, TextItem("t")},
            list \in {NullItem, Good, ArrayItem(<<>>)}}
    \cup {ArrayItem(<<IntItem(1), NullItem, a, IntItem(2), NullItem, b>>) :
            a, b \in {Good, NullItem, ArrayItem(<<BytesItem(<<0, 1>>), BytesItem(<<0>>)>>)}}
    \cup {TruncatedArray(6, <<IntItem(1), NullItem, Good, IntItem(2)>>),
          TruncatedArray(3, <<IntItem(1), NullItem>>), TruncatedArray(3, <<>>),
          TruncatedArray(6, <<IntItem(1), NullItem, Good>>),
          ArrayItem(<<IntItem(1)>>), NullItem, TextItem("t"), IndefiniteArray(<<>>)}

=============================================================================
