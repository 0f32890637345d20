------------------------------ MODULE EncNote ------------------------------
(***************************************************************************)
(* noshtastic-sync/src/encoded_note.rs: a nostr event as the EncNote that  *)
(* travels over the mesh, and back.  Strings travel as the octets they     *)
(* spell in hex, compressed, or as they are.  The id, the key, the time    *)
(* and the signature are copied octet by octet and left out.               *)
(*                                                                         *)
(* A conversion that may fail returns a set: one value for Ok, none for    *)
(* Err.                                                                    *)
(***************************************************************************)
EXTENDS Integers, Sequences, SequencesExt

CONSTANT CompressOver  \* strings longer than this are compressed: 50

ASSUME EncNoteAssumption == CompressOver \in Nat

\* One character of each sort the code tells apart: a decimal digit, a hex
\* letter in lower and in upper case, and any other.
Char == {"0", "a", "A", "x"}

\* The number a hex digit stands for, for the hex crate, which reads both cases.
Nibble(c) == CASE c = "0" -> 0 [] c \in {"a", "A"} -> 10

\* What hex::encode writes: lower case.
HexDigit(v) == CHOOSE c \in {"0", "a"} : Nibble(c) = v

HexDecode(s) == [i \in 1 .. Len(s) \div 2 |-> <<Nibble(s[2*i - 1]), Nibble(s[2*i])>>]
HexEncode(octets) ==
  [i \in 1 .. 2 * Len(octets) |-> HexDigit(octets[(i + 1) \div 2][2 - (i % 2)])]

\* Mutant: any hex digit is accepted, as hex::decode itself would.
IsHexAnyCase(s) == s # <<>> /\ Len(s) % 2 = 0 /\ \A i \in DOMAIN s : s[i] # "x"

IsHexLowercase(s) ==
  /\ s # <<>>
  /\ Len(s) % 2 = 0
  /\ \A i \in DOMAIN s : s[i] \in {"0", "a"}

\* Brotli loses nothing; what it makes of a string is a value of its own.
Compress(s) == [brotli |-> s]
Decompress(c) == c.brotli

EncodeString(s) ==
  IF IsHexLowercase(s) THEN [type |-> "HexEncoded", val |-> HexDecode(s)]
  ELSE IF Len(s) > CompressOver THEN [type |-> "Compressed", val |-> Compress(s)]
  ELSE [type |-> "Utf8String", val |-> s]

\* A message of another version may lack the string; EncodeString never does.
DecodeString(e) ==
  CASE e.type = "None" -> <<>>
    [] e.type = "Utf8String" -> e.val
    [] e.type = "HexEncoded" -> HexEncode(e.val)
    [] e.type = "Compressed" -> Decompress(e.val)

-----------------------------------------------------------------------------

\* nostr::event::Tag::parse refuses a tag without elements.
ParseTag(elements) == IF elements = <<>> THEN {} ELSE {elements}

EncodeStrings(strings) == [i \in DOMAIN strings |-> EncodeString(strings[i])]

\* Mutant: elements that are empty are thought not worth sending.
EncodeTagDense(tag) == EncodeStrings(SelectSeq(tag, LAMBDA s : s # <<>>))

EncodeTag(tag) == EncodeStrings(tag)

DecodeTag(encTag) == ParseTag([i \in DOMAIN encTag |-> DecodeString(encTag[i])])

EncodeNote(event) ==
  [kind |-> event.kind,
   tags |-> [i \in DOMAIN event.tags |-> EncodeTag(event.tags[i])],
   content |-> {EncodeString(event.content)}]

\* The kind is cut to a u16, a content that is absent is empty, and one tag that
\* does not parse fails the whole note.
DecodeNote(note) ==
  {[kind |-> note.kind % 65536, tags |-> tags,
    content |-> IF note.content = {} THEN <<>>
                ELSE DecodeString(CHOOSE c \in note.content : TRUE)] :
   tags \in
     {ts \in [DOMAIN note.tags -> UNION {DecodeTag(note.tags[i]) : i \in DOMAIN note.tags}] :
        \A i \in DOMAIN ts : ts[i] \in DecodeTag(note.tags[i])}}

=============================================================================
