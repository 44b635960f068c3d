# A TLA+ verification of c509-cert

`c509-cert` reads and writes C509 certificates, the CBOR encoding of X.509
certificates of draft-ietf-cose-cbor-encoded-cert-19.  It is a codec: it decodes
bytes into a `C509Certificate`, encodes a `C509Certificate` into bytes, and
builds one from X.509 or from JSON.  It checks no signature and no certificate
semantics.

What such a crate must get right is the agreement of two pieces of code that
were written apart.  A value that was encoded comes back as it was.  Bytes that
were accepted are written again as they were, because a signature covers them.
Encoding never fails, because `C509Certificate::encode` calls `expect` on its
result.  These are statements about sequences of calls, and they hinge on state
that both sides carry through their loops.

Paths below are relative to the repository.

## 1. Inventory

### Components

| component | files | state | operations |
|---|---|---|---|
| AS identifiers | `src/extensions/ip_addr.rs` | `previous`, `first` (the delta chain), the output list | `decode_as_identifiers`, `encode_as_identifiers` |
| IP address blocks | `src/extensions/ip_addr.rs` | the family loop; per family the chain and the wire form | `decode_ip_address_families`, `decode_ip_address_choice` and the encoders |
| Extension list | `src/extensions/mod.rs` | the list; criticality folded into a sign | `Extensions`, `Extension`, `ExtensionValue`: `decode`, `encode` |
| Certificate | `src/certificate.rs` | eleven fields, two wire forms | `decode`, `decode_sequence`, `encode`, `encode_sequence` |
| Names | `src/name.rs`, `RdnAttr` and `SpecialText` in `src/common.rs` | attributes; the string type folded into a sign | `decode`, `encode`, the optional forms |
| Algorithm identifiers | `src/algorithm.rs` | none | `decode`, `encode` |
| Shared helpers | `src/common.rs` | none | array headers, OIDs, MAC addresses, times, big integers, raw items |
| Extension values | the other files of `src/extensions/` | none | `decode`, `encode` each |
| X.509 converter | `src/x509_to_c509.rs` | the extension list being built, which kinds were looked for | `from_x509` |
| JSON converter | `src/cert_json.rs` | none | `from_json` |
| serde mirror | `src/serde_util.rs`, derives on every type | the JSON document | `serde_json::to_string`, `from_str` |
| Registry names | `src/registry.rs` | none | display names of ids |
| Errors | `src/error.rs` | none | conversion between error types |
| Command line | `src/main.rs` | the arguments, standard input, the wire form asked for, what was printed | `--from-json`, `--from-x509`, decoding of hex, `--sequence`, `--help` |
| CBOR | the external crate `minicbor` | the decoder's position | typed reads and writes of items |

### How they interact

A certificate is decoded field by field from one `minicbor::Decoder`; each field
hands the decoder to the next codec down (`Name`, `AlgorithmIdentifier`,
`Extensions`, and from there the codec an extension id stands for).  Any error
ends the whole decoding.  Encoding is the same tree in the other direction; an
error of any codec reaches the `expect` in `src/certificate.rs` and is a panic.
The converters build a `C509Certificate` without passing through a decoder, so
they can hold values no decoder would have returned.  So can the serde mirror,
which reads any document of the right shape.  The command line chooses between
array and sequence form by the type of the first item.

Nothing runs concurrently, nothing is persisted and nothing is sent.  There are
no callbacks, timeouts or retries.

### What is hard here

* **Two loops in step.**  The delta chain is advanced by the encoder and by the
  decoder at different places of the code; a chain that is not started anew, or
  is advanced by the wrong bound, is right for short lists.
* **Numbers at the edge.**  Signs that carry flags (zero has none), `i32::MIN`
  (has no negation), deltas between `u64` numbers (need 65 bits), octet counts
  at the limit of the integer form, prefix lengths on octet boundaries.
* **Two wire forms for one value.**  The encoder picks by the whole value, the
  decoder by the first item it sees.
* **Untrusted headers.**  An array header may claim more than the input holds,
  or be of indefinite length.
* **Values that are legal in memory and not on the wire**, and the `expect` that
  says there are none.
* **Tables written twice.**  The converters map names to ids, `registry.rs` maps
  ids to names, and no code compares them.

`PROJECT.json` lists each of these at its line, with the properties that cover
it or the reason why none does.

### What makes each component correct

* AS identifiers: every value round-trips; every accepted item is written again
  as it was; encoding never fails.
* IP address blocks: every value round-trips up to host bits; the form chosen
  fits all numbers of the family; encoding never fails.
* Extension list: criticality neither appears nor disappears; every list the
  wire can express round-trips; only known lists do not encode.
* Certificate: both forms read what they wrote and are told apart; a refused
  certificate leaves nothing behind.
* Names: attributes keep order, type and string type; null and an empty name
  stay different.
* Converters: what the program prints for a file says what the file says, after
  all codecs and a second run of the program; what cannot be converted is refused.
* serde mirror: text changes no certificate, and what came from the wire has one.

## 2. Modules

| module | models | corresponds to |
|---|---|---|
| `Cbor` | CBOR items | what `minicbor` reads and writes (external) |
| `Common` | the building blocks of `common.rs`: `IntOrOid`, `SpecialText`, `RdnAttr`, optional and big integers, MAC addresses | each a set of values, an `...Item` (encode), a `Reads...` (does decode accept) and a `...Read` (what it returns) |
| `DeltaChain` | `next_absolute`, `next_delta`, the range of `encode_delta` | pure operators |
| `RoundTrip` | the promise of any codec | abstract specification |
| `AsIdentifiers` | the AS codec | one action per step of each loop |
| `IpAddrBlocks` | the IP codec | two nested loops, the framing of addresses |
| `Extensions` | the extension list | one action per extension and per wire form |
| `GeneralNames` | general names, alternative names, lists of pairs | in the manner of `Common` |
| `ExtensionValues` | twelve typed extension values | one step per call; a codec is a name |
| `Names` | `Name`, its attributes, null | one action per attribute and per wire form |
| `Fields` | times, algorithm identifiers, the codec of each field of a certificate | in the manner of `Common` |
| `Certificate` | the certificate in both wire forms, two encoders, three decoders | one action per field |
| `TextForms` | hex, dates, MAC texts and JSON values of `serde_util.rs` and of both converters | pure operators |
| `Mirror` | `to_string` and `from_str`, between the calls of `Certificate` | one action per call, one operator per helper |
| `ExtensionList` | the values of `Extensions`: what a list is, when it encodes, what is lost | pure operators |
| `Converted` | the extensions both converters build, and what the codecs lose of them | pure operators |
| `X509` | the tables of `x509_to_c509.rs` and what becomes of the parts of a parsed certificate | pure operators |
| `JsonSchema` | which documents `cert_json.rs` takes and what becomes of their members | pure operators |
| `CommandLine` | `main.rs`: options, both conversions, encoding, printing, decoding | one action per step; the actions of `Certificate` for the library |
| `Registry` | six tables of `registry.rs` | sets of pairs |
| `Arrival` | what a file and the certificate shown in the end have in common | properties of `CommandLine` |
| `CommonProofs` | lemmas about `Common`: each codec's decoder undoes its encoder | |
| `AsIdentifiersProofs`, `IpAddrBlocksProofs`, `NamesProofs`, `ExtensionsProofs`, `ExtensionValuesProofs`, `CertificateProofs`, `CommandLineProofs` | theorems about the module of that name, and lemmas about the operators it uses (`Fields` and `Mirror` in `CertificateProofs`, `GeneralNames` in `ExtensionValuesProofs`, `X509` and `JsonSchema` in `CommandLineProofs`) | |
| `MC...` | instances for TLC | |

`src/error.rs` has no module: that a call fails is in the states `refused`,
`panicked`, `textless`, `text_refused` and `failed` of the others.

Every codec module is a *session*: one value and one wire item, and the two
calls alternate on them without end.  It starts at `encode` with a value a
caller built (`Callers`) or at `decode` with an item a peer sent (`Foreign`).
`pc` is the call in progress.  The variables are the locals of the Rust
functions: the elements written so far, the entries read so far, the chain.  An
error of a decoder is `pc = "refused"`, an error of an encoder is
`pc = "panicked"`.  Only an item of a peer can be refused rightly.

Items are trees, not bytes.  Heads, widths and lengths of CBOR encodings belong
to `minicbor`.  An input that ends early is an array with fewer elements than
its header claims, at any depth.  Trees have as many levels of arrays as the typed
values of a module need (`Nested1` to `Nested3`, `Item1` to `Item4`); where the code
keeps one whole item as raw octets, the item is `IsComplete`.  A decoder that refuses may have consumed part
of the input in the code; nothing of that is visible to a caller, so the model
refuses an entry in one step, and evaluates the reads of one range in one step.

`Certificate` has more than one call of each kind, and the session takes any of
them: the array form, the sequence form, and `decode_certificate` of the command
line, which looks at the first item to tell them apart.  After a refusal a caller
may try another function on the same bytes, as a caller that does not know the
form would.  What `Certificate` is made of is composed by type: names and
extension lists are opaque items there, whose codecs are `Names` and
`Extensions`; of an extension list it keeps whether it encodes at all
(`Unencodable`), which is what the runs of `Extensions` and `ExtensionValues`
say of lists and values.  In `Extensions` in turn a typed value is an opaque item
that names the codec that wrote it, and `ExtensionValues` and the two resource
modules are these codecs.  Some of what it may hold has no encoding
(`Unwritable`): a `BasicConstraints` with a path length beyond i32, an
`AuthorityKeyIdentifier` with one of issuer and serial number; then `encode` of
the value fails (`src/src/extensions/mod.rs:276`), and the list with it.  That no
decoder builds such a value is `ReadIsRepresentable` of `ExtensionValues`.

`Mirror` extends the session of `Certificate` by two calls.  Where a caller could
encode he may take the text instead, and from the text he comes back, so a
session mixes two encoders, three decoders and the two calls of serde in any
order; it may also begin with a document somebody else wrote.  The properties of
`Certificate` are checked on these sessions: a detour through text shows nowhere.

`CommandLine` instantiates `Certificate` with names and extension lists that are
*not* opaque: `NameContents` and `ExtContents` are the values of `Common` and
`ExtensionList`, and what a round trip leaves of them (`NameOnWire`, `ExtOnWire`)
and which lists do not encode (`Encodes`) are the predictions that
`LosslessUpToSign` of `Names` and `CriticalityOnlyLostAtZero` and
`EncodesAsPredicted` of `Extensions` make of these codecs, for all values, by
proof.  Of the values that both converters build, those without an encoding are
`LongPaths`; the configurations take `Unwritable` to be this set.
A file is the certificate `x509-parser` returns (`X509Cert`), the members of a
JSON document, whatever each of them holds (`JsonCertificate`), or something else
(`File`); a string of hex stands for any items (`Received`).  A call is its
arguments and its standard input (`FirstCalls`), either of which may be no text at all
(`NotText`).  A behaviour of
`CommandLine` is two runs of the program: on a file, and on the hex that the first one
printed.  `Arrival` compares the file with the
fields printed in the end, without the converters' tables: by the names that
`registry.rs` gives to ids.  It also says what is lost on the way: C509 names have no
RDNs of several attributes, so that attributes which were one RDN of the certificate
stand one after the other (`src/src/x509_to_c509.rs:351`; `rdn` in `X509Name`); and of an
authorityKeyIdentifier the converter keeps the key identifier alone
(`src/src/x509_to_c509.rs:174-178`).

The alternation without end is what makes the properties more than a
one-step round trip: a value decoded from a peer's odd encoding is encoded, and
what was encoded is decoded, so losses that show in the second or third call
only are found.

Parameters replace numbers that TLC could not exhaust: `U64Max`, `I32Max`, the
largest octet and its bits, the widths of the address families and the eight
octets of the integer form.  `IpAddrBlocks` assumes
`OctetMax + 1 = Power(2, Bits)` and `U64Max = Power(OctetMax + 1, MaxIntFormBytes) - 1`,
the relation between 8 bits, 8 octets and u64 in the code, on which the form's
choice depends.

## 3. Runs

| run | shows | bounds |
|---|---|---|
| `as_identifiers` | AS lists keep value and wire item over any number of calls, never panic, return; refines `RoundTrip` | u64 = 0..2; all lists up to 3 entries; all items up to 2 elements of 50 well-formed and malformed ones |
| `ip_addr_blocks` | IP families return up to host bits, the form fits, both loops end; refines `RoundTrip` on values with host bits cleared; addresses a caller put under another AFI never come back as they were | octets of 2 bits, IPv4 1 octet, IPv6 2, integer form 2; families of the right AFI, of the other, and of none; a range from an IPv4 to an IPv6 address |
| `ip_host_bits` | violated: host bits are lost | as above, families of the right AFI only |
| `ip_families` | violated: other AFIs are accepted without addresses | as above |
| `extensions` | representable lists are returned as they are; others change in one way only; what a peer sends is representable with listed exceptions; the lists that do not encode are the predicted ones | i32 ends at 47; every registered id; lists up to 3; values with and without an encoding |
| `extensions_panic` | violated: an accepted list makes encoding panic | peers only, no callers |
| `extension_values` | the typed values that the wire can carry return as they are, whatever a peer sends can be written again, only known long forms change and only once | i32 ends at 9, types of attributes at 1; every kind of general name, alone and before another; every short form and its neighbours; each codec meets all of 1,507 items, malformed ones and those of other codecs included |
| `names` | names return as they are but for the string type of type 0, the bytes change once at most; refines `RoundTrip` | types 0..2; up to 3 attributes; null, empty, both forms; items of up to two attributes |
| `certificate` | any mixture of calls, to text and back included, keeps the certificate but for what no item can say, and its bytes but for the zeros of the serial number and flags of zero; the forms are told apart; what came from the wire encodes, and has a text; text changes nothing | one ordinary certificate with one field (both times: two) at each edge; foreign input in both forms with each field replaced, cut short at each place, with headers of 10, 12 and of indefinite length, with trailing items; foreign documents with each member replaced by 23 values |
| `certificate_panic` | violated: a time before 1970 makes encoding panic | callers only, no peers |
| `command_line` | a file arrives as what it says, or is refused, or the program panics for a foreseen reason; the program reads what it printed | one ordinary X.509 certificate and one JSON document, one part replaced by each value at an edge: every entry of every table, all pairs of dates, each extension alone and among others, absent, critical or not, twice, not understood, RDNs of one and of two attributes, key identifiers with and without issuer and serial number; 29 calls, arguments and standard input that are no text among them |
| `command_line_unrecognized` | violated: extensions the converter does not know are dropped | as above, 4 calls |

*Why the bounds are enough.*  In the AS codec an entry depends on the entry
before through `previous` only; three entries contain a first one, a middle one
and one whose predecessor is not the first, and 0..2 has equal, rising and
falling neighbours and both ends.  The proof removes this bound.  For addresses,
two octets of two bits contain a prefix that ends within an octet, on its
boundary and at the full width, a trimmed and an untrimmed address, IPv6
addresses that fit the integer form and ones that do not, and lists of both
kinds.  In a name an attribute is read and written without regard to the others,
except that a single one may take the compact form: lists of 0, 1 and more
attributes are all the cases, and types 0, 1 and 2 are the one without a sign,
the common name and any other.  In a certificate a field depends on the one
before by its position only.  The values of `ExtensionValues` are lists of pairs
or fixed arrays whose elements do not depend on each other; lists of 0, 1 and 2
are the cases of their short forms.  A converter treats the parts of a file each
on its own, except for the order of the extensions and the single KeyUsage, of
which `command_line` has the combinations; `U16Max = 40` and `I32Max = 47` leave
the tables their ids, `TimeMax = 9` is the last second of the year 9999.  I32Max = 47 in `extensions` is beyond every registered id (38), so that the ids of the
code keep their numbers, and `i32::MIN` and the u32 numbers above i32 exist.

*Fairness.*  `WF_vars(Next)`: the calls are sequential code that never blocks,
so a call that was started takes its next step.  No other fairness is used, and
it matters only for `CallsReturn`.  A session may stop in `refused` or
`panicked`, so these configurations do not check for deadlock.

Each property has a mutant in `PROJECT.json`, a plausible slip in a mapped
definition, which makes TLC find the property violated.  The mutated forms stand
before the definitions they replace, marked "Mistake".

### What the violated runs say

1. `ip_host_bits`: `build_prefix` keeps host bits and `prefix_to_framed` clears
   them, although its comment calls it the inverse.
2. `ip_families`: families of an unsupported AFI are accepted when they inherit
   or have no addresses; the module comment says they are rejected.
3. `extensions_panic`: `encode` panics on lists that `decode` has just returned.
4. `certificate_panic`: a time before 1970, which both converters can return,
   does not encode; the error meets the `expect`.
5. `command_line_unrecognized`: `convert_certificate` asks for five kinds of
   extension and never looks at the others, so a certificate with a critical
   nameConstraints is converted without it.  The comment on `Error::X509`
   (`src/src/error.rs:11-13`) says such a form is an error.

Other disagreements met while modelling, which no run is spent on; the passing
properties state the first three as their exceptions:

* Zero has no sign, so a critical KeyUsage of zero is written as one that is not
  critical (`src/src/extensions/mod.rs:322-323`, `UnsignedZero`).
* Type 0 (emailAddress) has no sign, so a PrintableString comes back as a
  UTF8String (`src/src/common.rs:147`, `UnsignedAttr`).
* An authorityKeyIdentifier with a key identifier is converted without its issuer and
  serial number, which C509 could carry; the converter says that it supports "only the
  keyIdentifier form" (`src/src/x509_to_c509.rs:167`), and refuses the others only if the
  key identifier is absent (`SameExtension`).
* The integer form of IP ranges drops the unused bits of both bounds
  (`src/src/extensions/ip_addr.rs:293`); the raw form refuses them with "RFC 3779
  address range bounds must have unusedBits = 0" (line 324).
* `encode_sequence` is documented as "the byte string that natively signed
  certificates are signed over" (`src/src/certificate.rs:106-107`) and writes all
  eleven fields, the signature included.
* The serial number is documented to have no leading `0x00` byte
  (`src/src/certificate.rs:47`); zero is written as one zero octet.  `ToBytesBe`
  says so, and the runs include it.
* `definite_array_len` is documented with "this crate always expects definite
  lengths" (`src/src/common.rs:167-168`); `ExtKeyUsage` and `TlsFeatures` read
  their lists through minicbor's `Vec`, which takes indefinite ones.
  `IsLongForm` in `ExtensionValues` lists them among the items that change.

## 4. Proofs

`AsIdentifiersProofs` proves, for every `U64Max \in Nat`, every set of callers'
values and every set of peers' items, that `Spec` implies

* `[]TypeOK` and `[]EncodeNeverFails` (`TypeCorrect`, `NeverPanics`),
* `Lossless` and `WireStable` (`RoundTripsAreLossless`, `WireIsStable`),
* `KeepsPromise`, the refinement of `RoundTrip` (`Refinement`).

The assumptions are those of the modules: `U64Max` is a natural number, callers
build values of the type, peers send CBOR items.

*The argument.*  Neither `Lossless` nor `TypeOK` is inductive: nothing in them
relates the half-written item to the half-read list.  The invariant `IInv` adds
that relation.  An item and a list of entries *correspond* when each element is
the encoding of the entry at its place, where the chain state before place `i`
is a function of entry `i - 1`.  While encoding, the elements written correspond
to a prefix of the value and `previous`, `first` are the chain state after it;
while decoding, the entries read correspond to a prefix of the item.  At the end
of either loop the prefix is the whole.  `DeltaChainInverse` says that one step
of the chain is undone by the other side, `ReadsWhatWasWritten` that the entry
read from an element is the entry it was written for, so that the decoder, when
it reads what this session wrote, can neither refuse nor return anything else.
Because the chain is a function of the entry before, the correspondence needs no
induction over the list, only a step at its end.

*Names and extension lists.*  `NamesProofs` and `ExtensionsProofs` prove for
every width of i32 and u16, every set of OIDs, every caller and every peer

* `[]TypeOK` (`TypeCorrect` of each; for names it includes that nothing panics),
* `LosslessUpToSign`, `WireStable` and the refinement `KeepsPromise` of names
  (`OnlySignsAreLost`, `WireIsStable`, `Refinement`),
* `RepresentableIsLossless`, `CriticalityOnlyLostAtZero`, `EncodesAsPredicted`,
  `ReadIsRepresentable` of extension lists (`RepresentableSurvives`,
  `OnlyZeroLosesCriticality`, `EncodingIsPredicted`, `ReadIsSound`); which typed
  values have no encoding is a parameter, `Unwritable`.

None of these is inductive: the property speaks of a value and a wire item, and
nothing in it says how a half-written item relates to the value or a half-read
list to the item.  The invariant of both has the same four parts.  `TypeOK`.
`EncoderInv`: the elements written so far *say* the entries at their places,
where saying is a relation between two elements and one entry, and no entry
written so far is at fault.  `DecoderInv`: the entries read so far are said by
the elements behind them.  `HeldInv`: between two calls the item says the value,
in the compact form or in the long one.  A step appends one entry to either side,
and lemmas say that reading a pair that was written for an entry returns the
entry, without the flag a zero cannot carry (`PairIsRead`).  Some extension lists
are said by no item, those whose variant contradicts their id and those with the
magnitude 2^31; they are why `RepresentableIsLossless` has its condition, and
`ReadIsSound` that peers' lists meet it but for `KnownMisfit`.

*Codecs of fields.*  `CommonProofs` and the first part of `CertificateProofs` hold the lemmas of the
other kind: for each codec of a field, reading what was written returns the value
but for what no item can say (`WrittenIsRead`), and writing what was read returns
the item but for leading zeros (`ReadIsWritten`).  The zeros of a big integer are
the prefix up to the least index of a nonzero octet, which exists because the
naturals are well-founded (`MinFacts`).

*Typed extension values.*  `ExtensionValuesProofs` proves for every width of i32
and u16, every set of OIDs, every caller and every peer

* `[]TypeOK` (`TypeCorrect`),
* `RepresentableIsLossless` (`RepresentableSurvives`), `ReadIsRepresentable`
  (`ReadIsSound`), `WireStable` (`WireIsStable`).

A call is one step here, so the invariant only pairs the value with the item:
before an encoding the value was read from the item, before a decoding the item
was written from the value (`Paired`).  The work is in two lemmas over the twelve
codecs.  `Lossless`: what can be written is an item, and a representable value is
read from it as it was.  `Stable`: what is read is representable, is written as it
was read or came in a long form, and is in no long form then.  Each rests on a
pair of lemmas for its codec, `...Written` and `...Taken`, and those on
lemmas about `GeneralNames`: a flat list of pairs is cut where it was joined
(`PairsWritten`, `PairsTaken`), and the content of a general name says its variant
because no number of the registry is that of `RawVariant` (`KindAssumption`).

*The certificate.*  `CertificateProofs` proves for every range of times and of
integers, whatever names and extension lists hold and lose, and every caller and
peer

* `[]TypeOK` (`TypeCorrect`),
* `FormsAreToldApart` (`NeverConfused`), `ReadIsEncodable` (`ReadIsSound`),
* `LosslessUpToItems` (`RoundTripsAreLossless`), `WireStable` (`WireIsStable`).

The invariant: once a certificate and its bytes are there, either every item is
what its field was read from, or every item is what its field was written as,
behind the header if there is one.  It has to be one or the other for all eleven:
a field that was read may hold what the encoder would write otherwise, and
`LosslessUpToItems` says that all fields change together, once, or none does.
While the encoder or the decoder runs it holds of the fields done so far, whose
number is the number of items (`FieldCount`).

*Text.*  The theorems of `CertificateProofs` are about `Spec` of `Certificate`; the
run `certificate` checks the same properties under `MirrorSpec`, which adds the
calls of serde.  The last part of the module proves them of `MirrorSpec` too, and

* `[]MirrorTypeOK` (`MirrorTypeCorrect`), `[]WireHasText` (`WireMeansText`),
* `SurvivesText` (`TextIsLossless`),
* `LosslessUpToItems`, `WireStable`, `FormsAreToldApart`, `ReadIsEncodable`
  (`MirrorIsLossless`, `MirrorWireIsStable`, `MirrorNeverConfused`,
  `MirrorReadIsSound`).

The step lemmas of `CertificateProofs` hold of the calls of the library in both
specifications.  What the two calls of serde need is that a document which
`to_string` wrote *stands for* the certificate: member by member, `from_str` accepts
the text of a field and returns the field.  That is again one lemma per helper of
`serde_util.rs`: hex is read back digit by digit (`HexInverse`), a date is read back
if its year has four digits, the two shapes of an algorithm identifier are told apart
by the member's name (`AlgorithmTextInverse`).  `WireHasText` is not inductive, as
nothing in it says where the certificate came from; with the invariant of
`Certificate` it is, because every field was read from an item or written as one, and
a time on the wire is not before 1970 (`HeldHasText`).

*IP address blocks.*  `IpAddrBlocksProofs` proves, for every number of bits of an
octet, every table of address widths, every limit of the integer form, every caller
and every peer

* `[]TypeOK` and `[]EncodeNeverFails` (`TypeCorrect`, `NeverPanics`),
* `LosslessUpToHostBits` (`RoundTrips`),
* `KeepsPromise`, the refinement of `RoundTrip` (`Refinement`).

Two inductive invariants stand behind them.  `IInv` says where both loops are: the
encoder is between two families (three items each) or two items into one, and while
it is in one its form is the one `UsesIntForm` chooses for all entries and `previous`
is a u64 number; the decoder is inside the header's claim, and what it has read of a
family are addresses of that family's width.  That is enough for `EncodeNeverFails`:
an address of fewer than `MaxIntFormBytes` octets together with its framing octet is
below `U64Max + 1`, and the difference of two u64 numbers is a CBOR integer.
`Match` adds the contents.  While the encoder runs, the elements written are the
encodings of the entries at their places, where the chain state before an entry is a
function of the entry before it (`Before`), and the items written are those of the
families at their places (`Stands`); at its end the wire `Carries` the value.  While
the decoder runs on an item that carries the value, the entries read are the entries
of the value without host bits, and its chain is where the encoder's was.  So the
decoder can neither refuse (`FamilyNotRefused`, `EntryNotRefused`) nor find the other
form (`FirstOfList`).  TLC had checked `IInv` and `Match` as invariants of
`ip_addr_blocks` before they were proved.

The lemmas under it are those on the framing.  An entry's octets are read back as the
entry without host bits (`PrefixInverse`, `AddrInverse`), and masking is idempotent
(`NetworkFacts`).  `FramedInverse` says that the number whose base-256 digits are
`unused + 1` and the octets has, as 16 octets without leading zeros, these digits.
It needs facts about `Power` and about the recursive function inside
`AbsoluteIntFromFramed`: first that a recursive function over the naturals unrolls as
its definition says (`Recursion`: every two finite beginnings agree, so their union
does it), then facts about all its values.  Where these need an induction, it is an
induction on a *set* of naturals that contains 0 and each successor (`SetInduction`),
which follows from the existence of a least counterexample (`WFMin` of
`WellFoundedInduction`) and takes no operator as a parameter.

*The program.*  `CommandLineProofs` proves for every set of files, of first calls (arguments
and standard input) and of hex strings, every range of times and every width of the integers

* `[]TypeOK` (`ProgramTypeCorrect`): what both converters build of any file is a
  `C509Certificate`, every number in its width,
* `[]PanicsAreForeseen` (`PanicsForeseen`): arguments that are no text, standard input
  that is read and is no text, and files that cannot be encoded for one of three reasons,
* `[]OwnOutputIsRead` (`OwnOutput`),
* `[]ArrivesAsIssued` (`ArrivalOfIssued`) and `[]ArrivesAsDescribed`
  (`ArrivalOfDescribed`): the whole way from either kind of file to the fields that the
  second run shows.

The library is not proved again: `C!Next` of the program and `Next` of `Certificate`
are the same actions (`SameEncode` and its like), names and extension lists meet the
hypotheses of `CertificateProofs` (`NameLoss`, `ExtLoss`, `Instantiated`), so its
`IInv` holds while a call of the library is in progress (`LibraryInv`).  What the
program adds is in five parts.  `ControlInv`: before a call the library holds nothing.
`LoopInv`: `extensions` holds what each extension of the file that is of a kind looked for
so far becomes, as many as there are of them, and nothing else (`Collected`).  The number
matters: without it an extension could be there twice, and without the second half a
certificate whose path length does not encode could lose it on the way.  `EncodedInv`: the
certificate being encoded is one that the file is converted to, and can be encoded exactly
when the *file* says so.  That is an equivalence per converter (`X509Facts`, `JsonFacts`),
which rests on a lemma for each kind of extension: it has the type that its id stands for,
so `Encodes` depends on path lengths and a lone KeyUsage only (`ConvertibleLists`).
`PrintedInv`: what was printed are the bytes of a certificate that the file is converted to,
what is shown is what arrives of it (`WrittenArrives` of `CertificateProofs`), and the
arguments of the second run hold no option that converts or refuses, and it has its text (`OwnCallFacts`);
`decode_certificate` accepts the bytes of every certificate, held by it or not
(`BelongingIsRead`).  `ShownInv`: nothing is shown before the end.  TLC had found the
invariant to hold of the states of `command_line`, but for the conjuncts over infinite sets
that it cannot evaluate (the type of the items, the certificate that was printed).

Of a state in which something is shown the invariant leaves one lemma to prove per
converter, about constants only:

* *X.509* (`IssuedArrives`).  The tables of `x509_to_c509.rs` agree with those of
  `registry.rs` entry by entry (`TablesAgree`, `KeyAlgorithmAgrees`, and `IssuedPurposes`
  for the order in which `convert_extended_key_usage` asks for flags).  An issuer or
  subject survives attribute by attribute with its MAC texts (`IssuedName`), each kind of
  extension survives (`IssuedExtension`), and with `Collected` each parsed one is in the
  list, which is as long as there are of them (`IssuedList`).
* *JSON* (`DescribedArrives`).  `hex::encode` undoes `hex::decode` on texts of an even
  number of digits (`HexSurvives`, `HexKept`), so the octets shown are the digits of the
  document without spaces.  The serial number goes through an unsigned number and loses
  its leading zeros; what it keeps is the number that the digits stand for (`SerialKept`, which
  needs the place of the first digit that is not zero in a text of octets and in one of
  digits, `LeadingZeros` and `HexBehind`).  Names, times and extensions follow member by
  member (`DescribedNameArrives`, `DescribedTimeArrives`, `DescribedExtensionArrives`,
  `DescribedListArrives`).

The proof changed the statements.  `CurveName` had a `CASE` with guards that overlap for a
key that is no EC key and has a curve as its parameters: TLC takes the first that holds, but
the definition leaves it open.  And what `ArrivesAsDescribed` said of `basic_constraints` was
an implication from the extension that is shown, which a CA shown as none satisfies; now it
says what each document must be shown as.

The theorems have one hypothesis, `HoldsConverted`: the parameter `Contents` of
`ExtensionList`, what opaque extension values may hold, includes what the converters put
there (`ConvertedContents`), and those of them that have no encoding (`Unwritable`) are
the long path lengths (`LongPaths`).  It is stated as a hypothesis and not as an assumption of the
module because TLC cannot compare infinite sets; the configurations take `Contents` and
`Unwritable` to be these two sets.

*Assumptions.*  Those the modules declare and TLC evaluates: the integers are
ordered as i32 and u16 are (`IntAssumption`), OIDs are sequences of octets
(`OidsAssumption`), the registry's ids and kinds fit (`RegistryAssumption`, `KindAssumption`), times before
1970 exist (`TimeAssumption`), what is left of a name or of an extension list is
one and does not change again (`WrittenAssumption`), callers build values of the
type, peers send CBOR items and documents have members of the text forms
(`DocumentsAssumption`), the largest octet is positive (`OctetAssumption`) and is
`2 ^ Bits - 1` (`BitsAssumption`), an integer form of `MaxIntFormBytes` octets is a u64
(`U64Assumption`), families and widths are numbers (`WidthAssumption`), an octet is two
hex digits (`HexAssumption`), years of four digits begin before 1970 and are times
(`DateAssumption`, `YearAssumption`, `TimesAssumption`), a MAC address has as many octets
as `macaddr` reads (`MacAssumption`), the ids of `RDN_ATTRIBUTE_OIDS` are u16 numbers
(`RdnAssumption`), files, arguments and hex strings are what section 2 says
(`FilesAssumption`, `CallsAssumption`, `HexTextsAssumption`).

*Only model-checked:* `CallsReturn`, which is liveness under fairness and so out of reach of
this prover.  Every invariant and every action property of a run that passes is stated by
a theorem.

## 5. Not modelled, and why

* The bytes below CBOR items, text formatting, error texts.
* `src/error.rs`, see section 2, and `information_access_name`, the one table of
  `registry.rs` that has no counterpart in a converter.
* DER, PEM and the syntax of JSON belong to `x509-parser` and `serde_json`: a file
  is the parsed certificate or the members of the document, and `looks_like_pem`
  is two flags, what the file is and whether it shows near its start.
* `display_str` of `serde_util.rs`: the texts of MAC addresses and IP networks
  belong to `macaddr` and `ipnet`.
* Misspelt members inside an extension or an attribute of a JSON document; dates
  whose offset moves them past the year 9999.
* Allocation: `Vec::with_capacity` is not an action, so neither is its panic on a
  claimed length that cannot be allocated.  Nor is the panic of `println!` when
  standard output is closed.  `PanicsAreForeseen` speaks of the other panics.
* What `convert_certificate` never reads of an X.509 certificate and C509 has no place
  for: the version, the unique identifiers, the signature algorithm inside the signed
  part, the parameters of algorithms other than a curve, the number of unused bits of a
  bit string.  `X509Cert` has no members for them.
* Values of extensions that have a codec of their own are opaque in
  `Extensions`, except for the five plain kinds; names are opaque in
  `ExtensionValues` and, with extension lists, in `Certificate` and `Mirror`.
* An OID is its content octets: the crate `oid` is taken to return the octets it
  was given, and to accept the set `Oids`.  A `BigUint` is its big-endian digits.
* The raw contents of an unknown general name or extension are one whole item; a
  caller could put any octets there.

## 6. Plan

In this order; all of it exists.

| | module | composes | properties and theorems |
|---|---|---|---|
| 1 | `AsIdentifiers`, `RoundTrip` | `DeltaChain`, `Cbor` | done, proved |
| 2 | `IpAddrBlocks` | `DeltaChain`, `Cbor` | done, proved |
| 3 | `Extensions` | `ExtensionList`, `Cbor` | done, proved |
| 4 | `Names` | `Common`, `RoundTrip` | done, proved |
| 5 | `Certificate` | `Fields` | done, proved |
| 6 | `ExtensionValues` | `GeneralNames`, `Common` | done, proved |
| 7 | `CommandLine`, `Arrival` | `X509`, `JsonSchema`, `Certificate`, `Registry` | done, proved |
| 8 | `Mirror` | `Certificate`, `TextForms` | done, proved |

Nothing of it is left to prove but liveness.  What could be modelled next is in section 5:
the texts of `display_str` and misspelt members inside an extension.
