----------------------------- MODULE DeltaChain -----------------------------
(***************************************************************************)
(* The delta chain of extensions/ip_addr.rs: the first number of a list is *)
(* absolute, every later one is the difference from the number before it.  *)
(* The Rust helpers advance `previous' and `first' in place; here a caller *)
(* sets previous' to the absolute value and first' to FALSE.               *)
(***************************************************************************)
EXTENDS Integers

CONSTANT U64Max        \* the largest CBOR unsigned integer, 2^64 - 1
ASSUME U64MaxAssumption == U64Max \in Nat

U64 == 0 .. U64Max

\* Mistake: the delta is squeezed into an i64 of the same width.
CborIntSigned == -(U64Max \div 2 + 1) .. U64Max \div 2

\* What `minicbor::data::Int' holds: major types 0 and 1.
CborInt == -(U64Max + 1) .. U64Max

NextAbsolute(previous, first, raw) == IF first THEN raw ELSE previous + raw

NextDelta(previous, first, abs) == IF first THEN abs ELSE abs - previous
=============================================================================
