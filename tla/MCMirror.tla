------------------------------ MODULE MCMirror ------------------------------
(* The certificates and items of MCCertificate, and documents that replace   *)
(* each member of the ordinary certificate's text.                           *)
EXTENDS MCCertificate, Mirror

MCDateMin == -1
MCMacOfText == [t \in {} |-> <<>>]

OrdinaryText == [f \in FieldNames |-> TextOf(Codec(f), Ordinary[f])]

Members ==
  {Null, Missing, Phrase("3"), IntMember(I32Max + 1), IntMember(0),
   DateOf(MCDateMin, TRUE), DateOf(TimeMax, FALSE),
   OidMember(<<1>>, Null), OidMember(<<1, 2>>, Hex(<<0, 6>>)), OidMember(<<9>>, Null),
   OidMember(<<1>>, Phrase("x")), OidMember(<<1>>, Missing)}
    \cup {Number(n) : n \in {I32Max, I32Max + 1}}
    \cup {Hex(h) : h \in {<<>>, <<0>>, <<0, 0>>, <<0, 0, 15, 1>>, <<1, Space, 0>>, <<1, NotHex>>}}
    \cup {[json |-> "name", content |-> "printable"],
          [json |-> "extensions", content |-> "misfit"],
          [json |-> "extensions", content |-> "critical"]}

MCDocuments == {OrdinaryText} \cup {[OrdinaryText EXCEPT ![f] = j] : f \in FieldNames, j \in Members}
=============================================================================
