------------------------------- MODULE MCLink -------------------------------
(***************************************************************************)
(* Small instances of Link for TLC.                                        *)
(***************************************************************************)
EXTENDS Link

CONSTANTS note, big, negentropy

TwoEach == [m \in Base |-> 2]

\* What noshtastic-sync sends: notes with the default options, negentropy
\* messages high and classy.
Note(m) == [base |-> m, prio |-> "Normal", policy |-> NormalPolicy]
Negentropy(m, level) ==
  [base |-> m, prio |-> "High", policy |-> [class |-> negentropy, level |-> level]]

NoteAndBig == {Note(note), Negentropy(big, 0)}

BigNote == {Note(big)}

=============================================================================
