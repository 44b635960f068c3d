--------------------------- MODULE MCAsIdentifiers ---------------------------
(* Every caller's list of up to 3 entries over u64 = 0..2, and every item a *)
(* peer can send with up to 2 elements drawn from well-formed and malformed *)
(* ones.                                                                    *)
EXTENDS AsIdentifiers, SequencesExt

MCCallers ==
  {[kind |-> "inherit"]}
    \cup {[kind |-> "listed", ids |-> s] : s \in BoundedSeq(AsIdOrRange, 3)}

Ints == {IntItem(n) : n \in CborInt}

Pairs == {ArrayItem(<<a, b>>) : a, b \in Ints}

Malformed ==
  { NullItem, TextItem("t"), ArrayItem(<<>>), ArrayItem(<<IntItem(0)>>),
    ArrayItem(<<IntItem(0), IntItem(1), IntItem(1)>>),
    ArrayItem(<<IntItem(0), TextItem("t")>>), TruncatedArray(2, <<IntItem(0)>>),
    IndefiniteArray(<<IntItem(0), IntItem(1)>>) }

Elements == Ints \cup Pairs \cup Malformed

MCForeign ==
  {NullItem, TextItem("t"), IntItem(1), IndefiniteArray(<<IntItem(0)>>)}
    \cup {ArrayItem(s) : s \in BoundedSeq(Elements, 2)}
    \cup {TruncatedArray(Len(s) + 1, s) : s \in BoundedSeq(Ints, 2)}
==============================================================================
