------------------------------ MODULE Converge ------------------------------
(***************************************************************************)
(* Several nodes that synchronise over one broadcast channel:              *)
(* noshtastic-sync/src/sync.rs for the pacing and the pushing of notes,    *)
(* negentropy.rs for the exchange.  Sync.tla has the interleavings inside  *)
(* a node; here a handler is one step and what counts is what the nodes    *)
(* do to one another.                                                      *)
(*                                                                         *)
(* Links are ready and their queues short, so a node is never paused.      *)
(* The channel is quick against a unit of time, the grain in which the     *)
(* idle times and the minute between two LinkInfos are counted.            *)
(***************************************************************************)
EXTENDS Naturals, FiniteSets

CONSTANTS
  Node, Note,
  Period,         \* LINK_INFO_SECS
  Slot,           \* when in a period each node's info_iv ticks
  NoteIdle,       \* SyncPolicy::note_idle_secs
  ReconcileIdle,  \* SyncPolicy::reconcile_idle_secs
  ListMax,        \* notes that negentropy lists rather than fingerprints
  MaxLoss         \* bound: copies lost

ASSUME ConvergeAssumption ==
  /\ Period \in Nat \ {0}
  /\ Slot \in [Node -> 0 .. Period - 1]
  /\ NoteIdle \in Nat /\ ReconcileIdle \in Nat
  /\ ListMax \in Nat /\ MaxLoss \in Nat

VARIABLES
  db,       \* per node, the notes in its database
  noteAge,  \* per node, time since last_note_recv, up to NoteIdle
  syncAge,  \* per node, time since last_sync_recv, up to ReconcileIdle
  air,      \* copies of messages on their way to a node
  phase,    \* time within the period
  due,      \* nodes whose info_iv has ticked
  lost      \* copies lost so far

ages == <<noteAge, syncAge>>
clock == <<phase, due>>
vars == <<db, ages, air, clock, lost>>

IdList(ids) == [kind |-> "IdList", ids |-> ids]
Fingerprint(ids) == [kind |-> "Fingerprint", ids |-> ids]
EncNote(note) == [kind |-> "EncNote", note |-> note]

Broadcast(n, msgs) == [from : {n}, to : Node \ {n}, msg : msgs]

-----------------------------------------------------------------------------
(* Negentropy: each call looks at the database afresh.  The crate lists a   *)
(* short range of notes and fingerprints a long one; a database is one      *)
(* range here.                                                              *)

\* NegentropyState::initiate.
Initiate(notes) ==
  IF Cardinality(notes) <= ListMax THEN IdList(notes) ELSE Fingerprint(notes)

\* Mutant: have_ids and need_ids are swapped.
HaveIdsSwapped(notes, msg) ==
  IF msg.kind = "IdList" THEN msg.ids \ notes ELSE {}

\* NegentropyState::reconcile, have_ids.
HaveIds(notes, msg) ==
  IF msg.kind = "IdList" THEN notes \ msg.ids ELSE {}

\* Mutant: set_initiator is left out, so a list is answered with a list.
NextMessagesAsServer(notes, msg) ==
  IF msg.kind = "IdList" \/ msg.ids # notes THEN {IdList(notes)} ELSE {}

\* Its result: every node asserts set_initiator, so a list gets no answer.
NextMessages(notes, msg) ==
  IF msg.kind = "Fingerprint" /\ msg.ids # notes THEN {IdList(notes)} ELSE {}

-----------------------------------------------------------------------------

\* send_needed_notes: those of have_ids that the database has.
NeededNotes(notes, msg) == HaveIds(notes, msg) \cap notes

\* link_info's last two delays.
MayInitiate(n) == noteAge[n] >= NoteIdle /\ syncAge[n] >= ReconcileIdle

\* link_info, for the LinkInfo of n's link.
LinkInfo(n) ==
  /\ n \in due
  /\ due' = due \ {n}
  /\ air' = air \cup Broadcast(n, IF MayInitiate(n) THEN {Initiate(db[n])} ELSE {})
  /\ UNCHANGED <<db, ages, phase, lost>>

\* A note goes into the database.  It is remembered as heard, so the local
\* subscription does not send it on.
HandleEncNote(n, note) ==
  /\ db' = [db EXCEPT ![n] = @ \cup {note}]
  /\ noteAge' = [noteAge EXCEPT ![n] = 0]
  /\ UNCHANGED <<syncAge>>

HandleNegentropy(n) ==
  /\ syncAge' = [syncAge EXCEPT ![n] = 0]
  /\ UNCHANGED <<db, noteAge>>

\* What node n sends on hearing msg.
Answers(n, msg) ==
  IF msg.kind = "EncNote" THEN {}
  ELSE NextMessages(db[n], msg) \cup {EncNote(x) : x \in NeededNotes(db[n], msg)}

\* handle_sync_message, for a copy that arrives.
HandleSyncMessage(copy) ==
  /\ \/ copy.msg.kind = "EncNote" /\ HandleEncNote(copy.to, copy.msg.note)
     \/ copy.msg.kind # "EncNote" /\ HandleNegentropy(copy.to)
  /\ air' = (air \ {copy}) \cup Broadcast(copy.to, Answers(copy.to, copy.msg))
  /\ UNCHANGED <<clock, lost>>

\* A client of n's relay publishes a note, which the local subscription sends.
Publish(n, note) ==
  /\ \A m \in Node : note \notin db[m]
  /\ db' = [db EXCEPT ![n] = @ \cup {note}]
  /\ air' = air \cup Broadcast(n, {EncNote(note)})
  /\ UNCHANGED <<ages, clock, lost>>

Lose(copy) ==
  /\ lost < MaxLoss
  /\ lost' = lost + 1
  /\ air' = air \ {copy}
  /\ UNCHANGED <<db, ages, clock>>

Tick ==
  /\ air = {} /\ due = {}
  /\ phase' = (phase + 1) % Period
  /\ due' = {n \in Node : Slot[n] = phase'}
  /\ noteAge' = [n \in Node |-> IF noteAge[n] < NoteIdle THEN noteAge[n] + 1 ELSE NoteIdle]
  /\ syncAge' = [n \in Node |->
                   IF syncAge[n] < ReconcileIdle THEN syncAge[n] + 1 ELSE ReconcileIdle]
  /\ UNCHANGED <<db, air, lost>>

-----------------------------------------------------------------------------

\* Databases outlive the program, so the nodes start with any notes; nothing
\* was heard yet.
Init ==
  /\ db \in [Node -> SUBSET Note]
  /\ noteAge = [n \in Node |-> NoteIdle]
  /\ syncAge = [n \in Node |-> ReconcileIdle]
  /\ air = {}
  /\ phase = 0
  /\ due = {n \in Node : Slot[n] = 0}
  /\ lost = 0

Hear == \E copy \in air : HandleSyncMessage(copy)

Next ==
  \/ \E n \in Node : LinkInfo(n)
  \/ Hear
  \/ \E n \in Node, note \in Note : Publish(n, note)
  \/ \E copy \in air : Lose(copy)
  \/ Tick

Spec == Init /\ [][Next]_vars

\* Timers tick and what is on the air arrives.
Fairness == WF_vars(\E n \in Node : LinkInfo(n)) /\ WF_vars(Hear) /\ WF_vars(Tick)

FairSpec == Spec /\ Fairness

-----------------------------------------------------------------------------

\* Every note any node has is in the end in all databases, for good: what the
\* post on negentropy says of incremental exchanges ("over time achieve full
\* content synchronization"), although a node only ever pushes what others
\* lack and puts off its own exchange when it hears another's
\* (sync.rs:125-201,320-350,466-483, negentropy.rs:49-93).
Converges ==
  <>[](\A n \in Node : db[n] = UNION {db[m] : m \in Node})

\* In the end no exchange is answered any more, neither with notes nor with a
\* further message, however many nodes hear it: a channel whose nodes agree is
\* left to new notes (sync.rs:320-350,466-483, negentropy.rs:62-100).
GoesQuiet == <>[][\A copy \in air : HandleSyncMessage(copy) => air' \subseteq air]_vars

=============================================================================
