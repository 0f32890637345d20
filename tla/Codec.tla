------------------------------- MODULE Codec -------------------------------
(***************************************************************************)
(* What a message goes through between two nodes: the notes of the sync    *)
(* layer as EncNotes, the frames of the link as escaped buffers.           *)
(*                                                                         *)
(* The variables are inputs.  Every buffer of at most MaxLen octets and    *)
(* every event of at most MaxText characters is a state, and the           *)
(* properties say what the conversions make of it.                         *)
(***************************************************************************)
EXTENDS Escape94c3, EncNote

CONSTANTS
  MaxLen,   \* bound on the buffers
  MaxText   \* bound on the characters, strings and tags of an event

ASSUME CodecAssumption == MaxLen \in Nat /\ MaxText \in Nat

VARIABLES
  data,   \* a buffer
  event   \* an event some client signed: its tags have elements

vars == <<data, event>>

Tags == event.tags
Lens(strings) == FoldLeft(LAMBDA n, s : n + 1 + Len(s), 0, strings)
TextSize == Len(event.content) + FoldLeft(LAMBDA n, t : n + Lens(t), 0, Tags)

Init ==
  /\ data = <<>>
  /\ event \in [kind : {1, 65535}, tags : {<<>>}, content : {<<>>}]

\* Buffers and events grow apart from one another: nothing relates them.
GrowBuffer ==
  /\ TextSize = 0
  /\ event.kind = 1
  /\ Len(data) < MaxLen
  /\ \E o \in Octet : data' = Append(data, o)
  /\ UNCHANGED event

GrowEvent ==
  /\ data = <<>>
  /\ TextSize < MaxText
  /\ \/ \E c \in Char : event' = [event EXCEPT !.content = Append(@, c)]
     \/ event' = [event EXCEPT !.tags = Append(@, << <<>> >>)]
     \/ /\ Tags # <<>>
        /\ event' = [event EXCEPT !.tags[Len(Tags)] = Append(@, <<>>)]
     \/ /\ Tags # <<>>
        /\ \E c \in Char :
             event' = [event EXCEPT !.tags[Len(Tags)][Len(Last(Tags))] = Append(@, c)]
  /\ UNCHANGED data

Next == GrowBuffer \/ GrowEvent

Spec == Init /\ [][Next]_vars

-----------------------------------------------------------------------------

\* Whatever leaves a node is read back as it was, so the expect of the mesh
\* listener never fails on it (link.rs:279, lib.rs:377-424).
RoundTrip == Unescape(Escape(data)) = {data}

\* No buffer handed to the radio holds the pair, however 94, C3 and EE overlap
\* in the message (lib.rs:376-395, outgoing.rs:208-209).
NeverOnAir == ~HasPair(Escape(data))

\* The two are inverse the other way round too: a buffer without the pair that
\* is accepted is the one encoding of what it decodes to (lib.rs:398-424).
Canonical ==
  ~HasPair(data) => \A d \in Unescape(data) : Escape(d) = data

\* A string comes back exactly, so the signature still fits: the choice among
\* hex, compressed and plain loses neither case nor an odd digit nor the empty
\* string (encoded_note.rs:91-155).
StringRoundTrip == DecodeString(EncodeString(event.content)) = event.content

\* Every note a node sends converts at its peer, to the same event.  The peer
\* unwraps that conversion with the Sync mutex held, where a failure would end
\* its synchronisation (sync.rs:382, encoded_note.rs:13-89).
PeerDecodes == DecodeNote(EncodeNote(event)) = {event}

=============================================================================
