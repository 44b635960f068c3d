-------------------------------- MODULE Cbor --------------------------------
(***************************************************************************)
(* The CBOR data items this crate reads and writes through the external    *)
(* crate `minicbor`, as trees of records.                                  *)
(*                                                                         *)
(* `type' is what `Decoder::datatype' reports.  An integer is one item     *)
(* whatever the width of its head, since `Decoder::int' accepts every      *)
(* width.  The header of a definite array carries its length `len'; an     *)
(* input that ends inside the array is an item whose `items' are fewer     *)
(* than `len'.                                                             *)
(***************************************************************************)
EXTENDS Integers, Sequences

CONSTANT OctetMax     \* the largest u8

ASSUME OctetAssumption == OctetMax \in Nat \ {0}

Octet == 0 .. OctetMax

IntItem(n)   == [type |-> "int",   int   |-> n]
BytesItem(b) == [type |-> "bytes", bytes |-> b]
TextItem(t)  == [type |-> "text",  text  |-> t]
TagItem(n, b) == [type |-> "tag", tag |-> n, bytes |-> b]    \* around a byte string
NullItem     == [type |-> "null"]

\* The item a complete array of these elements is.
ArrayItem(s) == [type |-> "array", len |-> Len(s), items |-> s]

\* An array header that claims n elements in front of an input that ends
\* after those of s.
TruncatedArray(n, s) == [type |-> "array", len |-> n, items |-> s]

IndefiniteArray(s) == [type |-> "array_indef", items |-> s]

-----------------------------------------------------------------------------

Leaf == [type : {"int"}, int : Int]
          \cup [type : {"bytes"}, bytes : Seq(Octet)]
          \cup [type : {"text"}, text : STRING]
          \cup [type : {"tag"}, tag : Nat, bytes : Seq(Octet)]
          \cup [type : {"null"}]

ArrayOf(S) == {a \in [type : {"array"}, len : Nat, items : Seq(S)] :
                  Len(a.items) <= a.len}
                \cup [type : {"array_indef"}, items : Seq(S)]

\* Items by the depth of their arrays.  Three levels are what the deepest
\* typed value here needs.
Nested1 == Leaf \cup ArrayOf(Leaf)
Nested2 == Leaf \cup ArrayOf(Nested1)
Nested3 == Leaf \cup ArrayOf(Nested2)

IsInt(item)   == item.type = "int"
IsBytes(item) == item.type = "bytes"
IsNull(item)  == item.type = "null"

\* The `datatype()' arm `Type::Array | Type::ArrayIndef'.
IsAnyArray(item) == item.type \in {"array", "array_indef"}

\* A definite array whose elements are all there, and an item that is none or
\* is one.
IsWhole(item)    == item.type = "array" /\ Len(item.items) = item.len
IsComplete(item) == item.type = "array" => IsWhole(item)

\* The array has an n-th element and the input reaches it.
HasElement(array, n) == n <= array.len /\ n <= Len(array.items)
=============================================================================
