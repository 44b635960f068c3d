----------------------------- MODULE TextForms -----------------------------
(***************************************************************************)
(* The strings that JSON documents and the command line carry: hex, dates  *)
(* and text that may be a MAC address.  A hex string is the sequence of    *)
(* its digits, whatever their case; the characters that are no digits are  *)
(* Space and NotHex.  A date is the instant it names.                      *)
(***************************************************************************)
EXTENDS Common

CONSTANTS DateMin,     \* the year 0, in POSIX seconds: dates have four digits
          MacOfText    \* the texts that parse as a MAC address, and their octets

ASSUME DateAssumption == DateMin \in Int /\ DateMin < 0
ASSUME MacAssumption  == \A t \in DOMAIN MacOfText : MacOfText[t] \in MacAddr

-----------------------------------------------------------------------------
(* JSON values, by what a string is read as.  A member that is not there   *)
(* is Missing.                                                             *)

Number(n)   == [json |-> "number", number |-> n]
Null        == [json |-> "null"]
Missing     == [json |-> "missing"]
Hex(digits) == [json |-> "hex", digits |-> digits]
DateOf(secs, fraction) == [json |-> "date", secs |-> secs, fraction |-> fraction]
Phrase(t)   == [json |-> "text", text |-> t]

-----------------------------------------------------------------------------
(* hex::encode and hex::decode                                             *)

HexBase == 16
ASSUME HexAssumption == OctetMax = HexBase * HexBase - 1

Space   == -1
NotHex  == -2

HexString == [json : {"hex"}, digits : Seq({Space, NotHex} \cup 0 .. HexBase - 1)]

IsHex(digits) == Len(digits) % 2 = 0 /\ \A i \in DOMAIN digits : digits[i] \in 0 .. HexBase - 1

HexDecoded(digits) ==
  [k \in 1 .. Len(digits) \div 2 |-> HexBase * digits[2 * k - 1] + digits[2 * k]]

HexEncoded(bytes) ==
  [k \in 1 .. 2 * Len(bytes) |->
     LET byte == bytes[(k + 1) \div 2]
     IN  IF k % 2 = 1 THEN byte \div HexBase ELSE byte % HexBase]

\* Whitespace is filtered out first by the tolerant readers.
Cleaned(digits) ==
  LET kept == {i \in DOMAIN digits : digits[i] # Space}
      Nth(k) == CHOOSE i \in kept : Cardinality({j \in kept : j < i}) = k - 1
  IN  [k \in 1 .. Cardinality(kept) |-> digits[Nth(k)]]

ReadsHex(j)         == j.json = "hex" /\ IsHex(j.digits)
ReadsTolerantHex(j) == j.json = "hex" /\ IsHex(Cleaned(j.digits))
TolerantHexRead(j)  == HexDecoded(Cleaned(j.digits))

-----------------------------------------------------------------------------
(* OffsetDateTime::parse and format, as Rfc3339, and str::parse::<MacAddr> *)

ReadsDate(j) == j.json = "date"
HasDate(time) == time.secs >= DateMin

\* special_text
SpecialTextOf(t) == IF t \in DOMAIN MacOfText THEN Mac(MacOfText[t]) ELSE Text(t)
=============================================================================
