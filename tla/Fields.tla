------------------------------- MODULE Fields -------------------------------
(***************************************************************************)
(* The codecs of the single fields of a certificate: those of common.rs,   *)
(* times and AlgorithmIdentifier (algorithm.rs) among them.                *)
(*                                                                         *)
(* A codec is a name.  Accepts and Read are its decoder, CanWrite and      *)
(* ItemOf its encoder.  Names and extension lists have codecs of their     *)
(* own (Names, Extensions) and are opaque here; it matters what of them    *)
(* survives encoding, and of an extension list whether it encodes.         *)
(***************************************************************************)
EXTENDS Common

CONSTANTS TimeMin,      \* the range of OffsetDateTime, in POSIX seconds
          TimeMax,
          NameContents, \* what names hold
          NameWritten,  \* a name as its item says it: some flags are lost
          ExtContents,  \* what extension lists hold
          ExtWritten,   \* a list as its item says it
          Unencodable   \* the lists that Extensions::encode refuses

ASSUME TimeAssumption == TimeMin \in Int /\ TimeMax \in Nat /\ TimeMin < 0
ASSUME ExtAssumption  == Unencodable \subseteq ExtContents

\* What is lost is lost the first time.
ASSUME WrittenAssumption ==
  /\ NameWritten \in [NameContents -> NameContents]
  /\ ExtWritten \in [ExtContents -> ExtContents]
  /\ \A c \in NameContents : NameWritten[NameWritten[c]] = NameWritten[c]
  /\ \A c \in ExtContents : ExtWritten[ExtWritten[c]] = ExtWritten[c]

FieldItem == Nested1 \cup [type : {"opaque"}, codec : {"name"},
                      content : {NameWritten[c] : c \in NameContents}]
                     \cup [type : {"opaque"}, codec : {"extensions"}, content : ExtContents]

-----------------------------------------------------------------------------
(* OffsetDateTime: whole POSIX seconds, rounded down, and whether there is *)
(* a fraction.  An absent time or issuer is None.                          *)

Time(secs, fraction) == [kind |-> "time", secs |-> secs, fraction |-> fraction]
OffsetDateTime == [kind : {"time"}, secs : TimeMin .. TimeMax, fraction : BOOLEAN]

\* Mistakes: the integer is read as signed; its range is not checked.
ReadsTimeSigned(item)    == IsInt(item) /\ item.int \in TimeMin .. TimeMax
ReadsTimeUnchecked(item) == IsInt(item) /\ item.int >= 0

ReadsTime(item) == IsInt(item) /\ item.int \in 0 .. TimeMax

-----------------------------------------------------------------------------
(* AlgorithmIdentifier                                                     *)

AlgInt(n) == [kind |-> "int", int |-> n]
AlgOid(oid) == [kind |-> "oid", oid |-> oid]
AlgOidParameters(oid, parameters) ==
  [kind |-> "oid_parameters", oid |-> oid, parameters |-> parameters]

AlgorithmIdentifier == [kind : {"int"}, int : I32]
                         \cup [kind : {"oid"}, oid : Oids]
                         \cup [kind : {"oid_parameters"}, oid : Oids, parameters : Seq(Octet)]

AlgorithmItem(a) ==
  CASE a.kind = "int" -> IntItem(a.int)
    [] a.kind = "oid" -> BytesItem(a.oid)
    [] a.kind = "oid_parameters" ->
         ArrayItem(<<BytesItem(a.oid), BytesItem(a.parameters)>>)

\* Mistake: elements behind the second are ignored.
ReadsAlgorithmLong(item) ==
  \/ ReadsI32(item) \/ ReadsOid(item)
  \/ /\ item.type = "array" /\ HasElement(item, 2)
     /\ ReadsOid(item.items[1]) /\ IsBytes(item.items[2])

ReadsAlgorithm(item) ==
  \/ ReadsI32(item) \/ ReadsOid(item)
  \/ /\ item.type = "array" /\ item.len = 2 /\ HasElement(item, 2)
     /\ ReadsOid(item.items[1]) /\ IsBytes(item.items[2])

AlgorithmRead(item) ==
  CASE IsInt(item)   -> AlgInt(item.int)
    [] IsBytes(item) -> AlgOid(item.bytes)
    [] OTHER -> AlgOidParameters(item.items[1].bytes, item.items[2].bytes)

-----------------------------------------------------------------------------
(* The codecs                                                              *)

NameOf(content)       == [kind |-> "name", content |-> content]
ExtensionsOf(content) == [kind |-> "extensions", content |-> content]

TypeOf(codec) ==
  CASE codec = "i32"           -> I32
    [] codec = "biguint"       -> BigUint
    [] codec = "algorithm"     -> AlgorithmIdentifier
    [] codec = "name"          -> [kind : {"name"}, content : NameContents]
    [] codec = "optional name" -> {None} \cup [kind : {"name"}, content : NameContents]
    [] codec = "time"          -> OffsetDateTime
    [] codec = "optional time" -> {None} \cup OffsetDateTime
    [] codec = "bytes"         -> Seq(Octet)
    [] codec = "extensions"    -> [kind : {"extensions"}, content : ExtContents]

Accepts(codec, item) ==
  CASE codec = "i32"           -> ReadsI32(item)
    [] codec = "biguint"       -> IsBytes(item)
    [] codec = "algorithm"     -> ReadsAlgorithm(item)
    [] codec = "name"          -> IsOpaque(item, "name")
    [] codec = "optional name" -> IsNull(item) \/ IsOpaque(item, "name")
    [] codec = "time"          -> ReadsTime(item)
    [] codec = "optional time" -> IsNull(item) \/ ReadsTime(item)
    [] codec = "bytes"         -> IsBytes(item)
    [] codec = "extensions"    -> IsOpaque(item, "extensions")

Read(codec, item) ==
  CASE codec = "i32"        -> item.int
    [] codec = "biguint"    -> FromBytesBe(item.bytes)
    [] codec = "algorithm"  -> AlgorithmRead(item)
    [] codec = "bytes"      -> item.bytes
    [] codec = "name"       -> NameOf(item.content)
    [] codec = "extensions" -> ExtensionsOf(item.content)
    [] codec = "time"       -> Time(item.int, FALSE)
    [] codec = "optional name" -> IF IsNull(item) THEN None ELSE NameOf(item.content)
    [] codec = "optional time" -> IF IsNull(item) THEN None ELSE Time(item.int, FALSE)

\* A time before 1970 and some extension lists do not encode.
CanWrite(codec, v) ==
  /\ codec \in {"time", "optional time"} /\ v # None => v.secs >= 0
  /\ codec = "extensions" => v.content \notin Unencodable

NameItem(v) == OpaqueItem("name", NameWritten[v.content])

ItemOf(codec, v) ==
  CASE codec = "i32"        -> IntItem(v)
    [] codec = "biguint"    -> BytesItem(ToBytesBe(v))
    [] codec = "algorithm"  -> AlgorithmItem(v)
    [] codec = "bytes"      -> BytesItem(v)
    [] codec = "name"       -> NameItem(v)
    [] codec = "extensions" -> OpaqueItem(codec, ExtWritten[v.content])
    [] codec = "time"       -> IntItem(v.secs)
    [] codec = "optional name" -> IF v = None THEN NullItem ELSE NameItem(v)
    [] codec = "optional time" -> IF v = None THEN NullItem ELSE IntItem(v.secs)
=============================================================================
