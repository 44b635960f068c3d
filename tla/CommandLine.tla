---------------------------- MODULE CommandLine ----------------------------
(***************************************************************************)
(* The program (main.rs): its options, the conversion of X.509 and JSON    *)
(* files, and the calls of the library, which are the actions of           *)
(* Certificate.  A user runs it on a file, and again on what it printed.   *)
(***************************************************************************)
EXTENDS X509, JsonSchema, SequencesExt

CONSTANTS TimeMin, TimeMax,
          Files,         \* what the file at Path may hold
          HexTexts,      \* strings of hex, and the tokens they stand for
          FirstCalls     \* of a user: the arguments and standard input

\* A file is an X.509 certificate, in PEM or DER, with or without the words
\* "-----BEGIN " near its start; a JSON document; or something else.
File == [format : {"x509"}, cert : X509Cert(TimeMin .. TimeMax), pem : BOOLEAN, begin : BOOLEAN]
          \cup [format : {"json"}, doc : JsonCertificate(TimeMin .. TimeMax)]
          \cup [format : {"other"}]

ASSUME TimesAssumption == TimeMin \in Int /\ TimeMax \in Nat /\ TimeMin <= DateMin
ASSUME FilesAssumption == Files \subseteq File
ASSUME CallsAssumption == FirstCalls \subseteq [args : Seq(STRING), stdin : STRING]

Path == "FILE"           \* the one path that can be read
Own == "OWN"             \* the hex that was printed last
NotText == "NOT TEXT"    \* what is not Unicode, or cannot be read at all

VARIABLES
  args,       \* the arguments of the call
  stdin,      \* and its standard input
  status,     \* whether it runs, or how it ended
  sequence,   \* --sequence was given
  file,       \* the contents of the file at Path
  tried,      \* convert_certificate: the kinds of extension looked for
  exts,       \* and `extensions'
  printed,    \* the hex printed last
  shown,      \* the certificate printed last
  pc, value, wire, items, rest, fields, decoder    \* of Certificate

C == INSTANCE Certificate
       WITH NameContents <- NameList, NameWritten <- NameOnWire,
            ExtContents  <- ExtList,  ExtWritten  <- ExtOnWire,
            Unencodable  <- {list \in ExtList : ~Encodes(list)},
            Callers <- {}, Foreign <- {}

\* The tokens of others: no item says a flag of a name that has no sign.
Received == Nested1 \cup [type : {"header"}, len : Nat] \cup {C!IndefiniteHeader}
              \cup [type : {"opaque"}, codec : {"name"},
                    content : {n \in NameList : NameOnWire[n] = n}]
              \cup [type : {"opaque"}, codec : {"extensions"}, content : ExtList]
ASSUME HexTextsAssumption == /\ \A t \in DOMAIN HexTexts : HexTexts[t] \in Seq(Received)
                             /\ NotText \notin DOMAIN HexTexts

library == <<pc, value, wire, items, rest, fields, decoder>>
main == <<args, stdin, sequence, file, tried, exts, printed, shown>>
vars == <<main, status, library>>

NoOutput == <<>>

Init ==
  /\ \E call \in FirstCalls : args = call.args /\ stdin = call.stdin
  /\ status = "running" /\ sequence = FALSE /\ file \in Files
  /\ tried = 0 /\ exts = <<>> /\ printed = NoOutput /\ shown = C!NoValue
  /\ pc = "main" /\ value = C!NoValue /\ wire = C!NoWire
  /\ items = <<>> /\ rest = <<>> /\ fields = <<>> /\ decoder = "none"

-----------------------------------------------------------------------------
(* main                                                                    *)

Running == status = "running"
Exit(how) == status' = how /\ UNCHANGED main

\* Before anything else, the arguments are collected as strings.
PanicArgs == /\ pc = "main" /\ Running /\ Contains(args, NotText)
             /\ Exit("panicked") /\ UNCHANGED library
AtMain    == pc = "main" /\ Running /\ ~Contains(args, NotText)

WantsHelp     == Contains(args, "--help") \/ Contains(args, "-h")
WithoutFlag   == RemoveFirst(args, "--sequence")
Wants(option) == AtMain /\ ~WantsHelp /\ Contains(WithoutFlag, option)
WantsJson     == Wants("--from-json")
WantsX509     == ~WantsJson /\ Wants("--from-x509")

\* The argument behind an option, whatever it looks like.
Behind(option)  == Min({i \in DOMAIN WithoutFlag : WithoutFlag[i] = option}) + 1
Readable(option, format) ==
  /\ Behind(option) <= Len(WithoutFlag)
  /\ WithoutFlag[Behind(option)] = Path /\ file.format = format

Help == AtMain /\ WantsHelp /\ Exit("ok") /\ UNCHANGED library

-----------------------------------------------------------------------------
(* encode_from_json                                                        *)

TimeRead(j) == IF IsUnset(j) THEN None ELSE C!Time(j.secs, j.fraction)

IntoCertificate(doc) ==
  [c509_certificate_type        |-> doc.certificate_type.number,
   certificate_serial_number    |-> FromBytesBe(TolerantHexRead(doc.serial_number)),
   issuer_signature_algorithm   |-> C!AlgInt(doc.issuer_signature_algorithm.number),
   issuer                       |-> IF IsUnset(doc.issuer) THEN None ELSE C!NameOf(IntoName(doc.issuer)),
   validity_not_before          |-> TimeRead(doc.validity_not_before),
   validity_not_after           |-> TimeRead(doc.validity_not_after),
   subject                      |-> C!NameOf(IntoName(doc.subject)),
   subject_public_key_algorithm |-> C!AlgInt(doc.subject_public_key_algorithm.number),
   subject_public_key           |-> TolerantHexRead(doc.subject_public_key),
   extensions |-> C!ExtensionsOf([i \in DOMAIN Listed(doc) |-> IntoExtension(Listed(doc)[i])]),
   issuer_signature_value       |-> TolerantHexRead(doc.issuer_signature_value)]

\* What a conversion ends in: a certificate to encode.
Converts(cert) == /\ value' = cert
                  /\ pc' = "encode"
                  /\ UNCHANGED <<args, stdin, status, file, tried, exts, printed, shown,
                                 wire, items, rest, fields, decoder>>

TakesJson == Readable("--from-json", "json") /\ ReadsDocument(file.doc)

FromJson ==
  /\ WantsJson /\ TakesJson
  /\ sequence' = Contains(args, "--sequence")
  /\ Converts(IntoCertificate(file.doc))

RefuseJson == WantsJson /\ ~TakesJson /\ Exit("failed") /\ UNCHANGED library

-----------------------------------------------------------------------------
(* convert_from_x509, convert_certificate                                  *)

\* looks_like_pem decides on the first 1024 octets.
ParsesX509 == file.pem = file.begin

TakesX509 == Readable("--from-x509", "x509") /\ ParsesX509

FromX509 ==
  /\ WantsX509 /\ TakesX509
  /\ sequence' = Contains(args, "--sequence")
  /\ tried' = 0 /\ exts' = <<>>
  /\ pc' = "x509"
  /\ UNCHANGED <<args, stdin, status, file, printed, shown,
                 value, wire, items, rest, fields, decoder>>

RefuseX509 == WantsX509 /\ ~TakesX509 /\ Exit("failed") /\ UNCHANGED library

Looking == pc = "x509" /\ Running /\ tried < Len(EXTENSION_OIDS)
Found   == PlacesOf(EXTENSION_OIDS[tried + 1], file.cert)

Looked(extensions) == /\ tried' = tried + 1
                      /\ exts' = extensions
                      /\ UNCHANGED <<args, stdin, status, sequence, file, printed, shown, library>>

ConvertExtension ==
  /\ Looking
  /\ \E i \in Found : LET e == file.cert.extensions[i]
                      IN  /\ Found = {i} /\ IsParsed(e) /\ IsSupported(e.parsed)
                          /\ Looked(Append(exts, ExtensionOf(e)))

SkipExtension ==
  /\ Looking
  /\ \A i \in Found : Found = {i} /\ MayBeAbsent(file.cert.extensions[i])
  /\ Looked(exts)

\* There twice, not understood, or of another form.
RefuseExtension ==
  /\ Looking
  /\ \E i \in Found : LET e == file.cert.extensions[i]
                      IN  Found # {i} \/ ~(IsParsed(e) /\ IsSupported(e.parsed))
  /\ Exit("failed") /\ UNCHANGED library

Gathered == pc = "x509" /\ Running /\ tried = Len(EXTENSION_OIDS)

\* The last second of the year 9999: no expiration.
NO_EXPIRATION_TIMESTAMP == TimeMax

X509Certificate(cert) ==
  [c509_certificate_type        |-> CERTIFICATE_TYPE_DER_REENCODED,
   certificate_serial_number    |-> FromBytesBe(cert.serial),
   issuer_signature_algorithm   |-> C!AlgInt(IdOf(cert.signature_algorithm, SIGNATURE_ALGORITHM_OIDS)),
   issuer                       |-> C!NameOf(NameToRdn(cert.issuer)),
   validity_not_before          |-> C!Time(cert.not_before, FALSE),
   validity_not_after           |-> IF cert.not_after = NO_EXPIRATION_TIMESTAMP
                                      THEN None ELSE C!Time(cert.not_after, FALSE),
   subject                      |-> C!NameOf(NameToRdn(cert.subject)),
   subject_public_key_algorithm |-> C!AlgInt(KeyAlgorithmId(cert)),
   subject_public_key           |-> cert.subject_public_key,
   extensions                   |-> C!ExtensionsOf(exts),
   issuer_signature_value       |-> cert.signature_value]

ConvertFields ==
  /\ Gathered /\ ReadsX509Fields(file.cert)
  /\ Converts(X509Certificate(file.cert)) /\ UNCHANGED sequence

RefuseFields ==
  /\ Gathered /\ ~ReadsX509Fields(file.cert)
  /\ Exit("failed") /\ UNCHANGED library

-----------------------------------------------------------------------------
(* The encoding of the converted certificate, and its output               *)

StartEncode == /\ Running /\ C!StartEncode(IF sequence THEN "sequence" ELSE "array")
               /\ UNCHANGED <<main, status>>
EncodeField == Running /\ C!EncodeField /\ UNCHANGED <<main, status>>
Panic       == Running /\ C!Panic /\ Exit("panicked")
PrintHex    == /\ Running /\ C!EncodeEnd
               /\ printed' = wire'
               /\ status' = "ok"
               /\ UNCHANGED <<args, stdin, sequence, file, tried, exts, shown>>

-----------------------------------------------------------------------------
(* HEX: what was printed last (OWN) or any other string, as the argument   *)
(* or, without one, on standard input                                      *)

HexArgument == IF WithoutFlag = <<>> THEN stdin ELSE WithoutFlag[1]
WantsHex == AtMain /\ ~WantsHelp /\ ~WantsJson /\ ~WantsX509
ReadsHexArgument == HexArgument = Own \/ HexArgument \in DOMAIN HexTexts

\* The `expect' of read_to_string.
LacksText  == WithoutFlag = <<>> /\ stdin = NotText
PanicStdin == WantsHex /\ LacksText /\ Exit("panicked") /\ UNCHANGED library

ReadHex ==
  /\ WantsHex /\ ReadsHexArgument
  /\ wire' = IF HexArgument = Own THEN printed ELSE HexTexts[HexArgument]
  /\ sequence' = Contains(args, "--sequence")
  /\ pc' = "decode"
  /\ UNCHANGED <<args, stdin, status, file, tried, exts, printed, shown,
                 value, items, rest, fields, decoder>>

RefuseHex == /\ WantsHex /\ ~LacksText /\ ~ReadsHexArgument
             /\ Exit("failed") /\ UNCHANGED library

Decode      == /\ Running /\ pc = "decode" /\ C!DecodeCertificate
               /\ Exit(IF pc' = "refused" THEN "failed" ELSE status)
DecodeField == Running /\ C!DecodeField /\ UNCHANGED <<main, status>>
RefuseField == Running /\ C!RefuseField /\ Exit("failed")
PrintFields == /\ Running /\ C!DecodeEnd
               /\ shown' = value'
               /\ status' = "ok"
               /\ UNCHANGED <<args, stdin, sequence, file, tried, exts, printed>>

\* The user runs the program again, on what it printed.
RunAgain ==
  /\ status = "ok" /\ printed # NoOutput /\ shown = C!NoValue
  /\ args' \in {<<>>, <<Own>>, <<"--sequence", Own>>} /\ stdin' = Own
  /\ status' = "running" /\ pc' = "main" /\ value' = C!NoValue /\ wire' = C!NoWire
  /\ items' = <<>> /\ rest' = <<>> /\ fields' = <<>> /\ decoder' = "none"
  /\ sequence' = FALSE /\ tried' = 0 /\ exts' = <<>>
  /\ UNCHANGED <<file, printed, shown>>

Next ==
  \/ PanicArgs \/ Help \/ FromJson \/ RefuseJson \/ FromX509 \/ RefuseX509
  \/ ConvertExtension \/ SkipExtension \/ RefuseExtension \/ ConvertFields \/ RefuseFields
  \/ StartEncode \/ EncodeField \/ Panic \/ PrintHex
  \/ PanicStdin \/ ReadHex \/ RefuseHex \/ Decode \/ DecodeField \/ RefuseField \/ PrintFields
  \/ RunAgain

Spec == Init /\ [][Next]_vars

-----------------------------------------------------------------------------
(* Properties                                                              *)

\* Every variable keeps its type: whatever the file, what a conversion
\* returns is a certificate whose numbers have the width of their fields.
TypeOK ==
  /\ status \in {"running", "ok", "failed", "panicked"} /\ sequence \in BOOLEAN
  /\ tried \in 0 .. Len(EXTENSION_OIDS)
  /\ exts \in ExtList
  /\ value \in C!Value \cup {C!NoValue} /\ shown \in C!Value \cup {C!NoValue}
  /\ DOMAIN fields \subseteq C!FieldNames

\* The inputs that are converted and do not encode.
CannotEncode ==
  CASE file.format = "x509" ->
         \/ file.cert.not_before < 0 \/ file.cert.not_after < 0
         \/ \E i \in DOMAIN file.cert.extensions :
              LET p == file.cert.extensions[i].parsed
              IN  /\ p.kind = "basicConstraints" /\ p.ca
                  /\ p.path_len # None /\ p.path_len.some > I32Max
    [] file.format = "json" ->
         LET list == Listed(file.doc)
         IN  \/ file.doc.validity_not_before.secs < 0
             \/ ~IsUnset(file.doc.validity_not_after) /\ file.doc.validity_not_after.secs < 0
             \/ \E i \in DOMAIN list : /\ list[i].name = "basic_constraints"
                                       /\ list[i].ca = Bool(TRUE) /\ ~IsUnset(list[i].path_len)
                                       /\ list[i].path_len.number > I32Max
             \/ Len(list) = 1 /\ list[1].name = "key_usage" /\ list[1].value.number > I32Max
    [] OTHER -> FALSE

\* In main the program panics only where an argument is not text, or where
\* standard input is not and there is no argument to read instead.  A converted
\* file panics it for one of three reasons only: a time before 1970, the path
\* length of a CA beyond i32, or a single KeyUsage beyond i32, which X.509
\* cannot have; and for those it prints nothing.
PanicsAreForeseen ==
  /\ status = "panicked" =>
       IF pc = "main"
         THEN Contains(args, NotText) \/ (WithoutFlag = <<>> /\ stdin = NotText)
         ELSE CannotEncode
  /\ printed # NoOutput => ~CannotEncode

\* The program reads whatever it printed, in either form, told or not.
OwnOutputIsRead == printed # NoOutput => status # "failed"

-----------------------------------------------------------------------------
(* What the source says and the code does not do.                          *)

\* Error::X509 is for "an OID/extension form this converter doesn't recognize"
\* (error.rs): a certificate is converted only if all its extensions are.
UnrecognizedIsReported ==
  pc = "encode" /\ tried = Len(EXTENSION_OIDS) =>
    \A i \in DOMAIN file.cert.extensions :
      \E k \in DOMAIN EXTENSION_OIDS : EXTENSION_OIDS[k] = file.cert.extensions[i].oid
=============================================================================
