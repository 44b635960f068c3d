------------------------------ MODULE MCNames ------------------------------
(* Types 0 (no sign), 1 (the common name) and 2; every form of value.        *)
EXTENDS Names, SequencesExt

MCOids == {<<1>>, <<1, 2>>}

Six   == <<1, 2, 3, 4, 5, 6>>
Seven == Append(Six, 7)
Eight == Append(Seven, 8)

Texts == {Text("a"), Text(""), Bytes(<<>>), Bytes(<<1>>), Mac(Six), Mac(Eight)}

Attributes == {Registered(i, p, t) : i \in 0 .. U16Max, p \in BOOLEAN, t \in Texts}
                \cup {OfOid(o, b) : o \in MCOids, b \in {<<>>, <<7>>}}
Few == {Registered(i, p, Text("a")) : i \in 0 .. 1, p \in BOOLEAN}
         \cup {Registered(2, TRUE, Mac(Six)), OfOid(<<1>>, <<7>>)}

MCCallers == {Absent} \cup {Name(s) : s \in BoundedSeq(Attributes, 1) \cup BoundedSeq(Few, 3)}

-----------------------------------------------------------------------------
IdItems == {IntItem(n) : n \in -(U16Max + 1) .. U16Max + 1}
             \cup {BytesItem(<<1>>), BytesItem(<<9>>), TextItem("a"), NullItem}
ValueItems == {SpecialTextItem(t) : t \in Texts}
                \cup {TagItem(MacAddressTag, Seven), TagItem(2, Six), NullItem, IntItem(1),
                      ArrayItem(<<>>), IndefiniteArray(<<>>)}
Second == {<<IntItem(0), TextItem("a")>>, <<IntItem(-1), TextItem("b")>>,
           <<BytesItem(<<1>>), BytesItem(<<>>)>>, <<BytesItem(<<1>>), TextItem("a")>>}

MCForeign ==
  ValueItems
    \cup {ArrayItem(<<i>>) : i \in IdItems}
    \cup {ArrayItem(<<i, v>>) : i \in IdItems, v \in ValueItems}
    \cup {ArrayItem(<<i, v>> \o p) : i \in IdItems, v \in ValueItems, p \in Second}
    \cup {TruncatedArray(n, <<IntItem(1), TextItem("a")>>) : n \in 3 .. 4}
    \cup {TruncatedArray(2, <<IntItem(1)>>), TruncatedArray(2, <<>>),
          IndefiniteArray(<<IntItem(1), TextItem("a")>>)}
=============================================================================
