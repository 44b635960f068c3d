---------------------------- MODULE MCExtensions ----------------------------
(* i32 ends at 47: beyond every registered id, and small enough to reach the *)
(* magnitude that only the negative side has.                                *)
EXTENDS Extensions, SequencesExt

Ext3(i, c, v) == [id |-> i, critical |-> c, value |-> v]

Uint(kind, n) == [kind |-> kind, uint |-> n]
Raw(item)     == [kind |-> "Raw", cbor |-> item]
Der(b)        == [kind |-> "Raw", der |-> b]

MCOids == {<<1>>, <<1, 2>>}

\* Extensions whose value is of the variant of their id, one per variant.
OfId(id) ==
  LET kind == KindOf(id)
  IN  CASE kind \in UintKinds             -> {Uint(kind, n) : n \in {0, 1, I32Max + 1}}
        [] kind = "SubjectKeyIdentifier" -> {[kind |-> kind, bytes |-> <<7>>]}
        [] kind = "OcspNoCheck"          -> {[kind |-> kind]}
        [] kind = "Raw"                  -> {Raw(NullItem)}
        [] OTHER -> {[kind |-> kind, content |-> c] : c \in Contents}

Ids == {0, 10, I32Max} \cup {id \in 1 .. 38 : KindOf(id) # "Raw"}

RegisteredExts == UNION {{Ext3(IntId(id), c, v) : c \in BOOLEAN, v \in OfId(id)} : id \in Ids}
ByOid      == {Ext3(OidId(o), c, Der(<<5>>)) : o \in MCOids, c \in BOOLEAN}

\* Ids and values that do not belong together, and the id without negation.
Odd == {Ext3(IntId(30), TRUE, Uint("KeyUsage", 1)),
        Ext3(IntId(1), FALSE, Uint("KeyUsage", 1)),
        Ext3(IntId(-2), FALSE, Uint("KeyUsage", 1)),
        Ext3(IntId(I32Min), TRUE, Raw(NullItem)),
        Ext3(IntId(I32Min), FALSE, Raw(NullItem)),
        Ext3(IntId(2), FALSE, Raw(IntItem(3))),
        Ext3(OidId(<<1>>), TRUE, Uint("KeyUsage", 1))}

Few == {Ext3(IntId(0), TRUE, Raw(NullItem)), Ext3(IntId(2), TRUE, Uint("KeyUsage", 0)),
        Ext3(IntId(2), FALSE, Uint("KeyUsage", I32Max + 1)),
        Ext3(IntId(32), TRUE, [kind |-> "IpAddrBlocks", content |-> "a"]),
        Ext3(IntId(7), TRUE, [kind |-> "AuthorityKeyIdentifier", content |-> "half"]),
        Ext3(OidId(<<1>>), TRUE, Der(<<5>>))}

MCCallers == {List(s) : s \in BoundedSeq(RegisteredExts \cup ByOid \cup Odd, 1)
                                \cup SeqOf(Few, 3)
                                \cup {<<a, b>> : a \in Few, b \in RegisteredExts}}

-----------------------------------------------------------------------------
Numbers == {I32Min - 1, I32Min, -I32Max, -30, -2, -1, 0, 1, 2, 30, 36, I32Max, I32Max + 1}
IdItems == {IntItem(n) : n \in Numbers} \cup {BytesItem(<<1>>), BytesItem(<<9>>), TextItem("t")}
ValueItems ==
  {IntItem(n) : n \in {-1, 0, 1, I32Max + 1, 2 * I32Max + 1, 2 * I32Max + 2}}
    \cup {BytesItem(<<5>>), NullItem, TextItem("t"), ArrayItem(<<>>), ArrayItem(<<BytesItem(<<5>>)>>),
          ArrayItem(<<IntItem(1)>>), ArrayItem(<<BytesItem(<<5>>), NullItem>>),
          TruncatedArray(1, <<>>), IndefiniteArray(<<BytesItem(<<5>>)>>)}
    \cup {TypedItem(codec, "a") : codec \in {"IpAddrBlocks", "AsIdentifiers"}}
IpItem == TypedItem("IpAddrBlocks", "a")

MCForeign ==
  {IntItem(n) : n \in I32Min - 1 .. I32Max + 1}
    \cup {NullItem, TextItem("t"), BytesItem(<<1>>), ArrayItem(<<>>), ArrayItem(<<IntItem(2)>>),
          IndefiniteArray(<<IntItem(2), IntItem(1)>>)}
    \cup {ArrayItem(<<i, v>>) : i \in IdItems, v \in ValueItems}
    \cup {ArrayItem(<<i, v, IntItem(-34), IpItem>>) : i \in IdItems, v \in ValueItems}
    \cup {TruncatedArray(4, <<IntItem(2), IntItem(1)>>),
          TruncatedArray(4, <<IntItem(2), IntItem(1), IntItem(36)>>)}
=============================================================================
