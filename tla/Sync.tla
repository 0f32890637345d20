-------------------------------- MODULE Sync --------------------------------
(***************************************************************************)
(* noshtastic-sync/src/sync.rs: one node's synchronisation.  It hears      *)
(* link messages, keeps notes in the database, relays local notes to the   *)
(* mesh and starts or answers negentropy exchanges.                        *)
(*                                                                         *)
(* Every handler holds the Sync mutex from its first line to its last.     *)
(* All but one are a single action.  A received note goes to the database  *)
(* before it is marked as heard, and the database's threads and the local  *)
(* subscription run meanwhile: that handler is two actions, with the mutex *)
(* held in between.                                                        *)
(***************************************************************************)
EXTENDS LruSet

CONSTANTS
  Note,            \* notes, by their message id
  NoNote,          \* no note: the mutex is free
  Qlen,            \* queue lengths, high and normal added, a LinkInfo may show
  NegLevel,        \* levels a negentropy message may arrive with
  RefillThresh,    \* SyncPolicy::outgoing_refill_thresh
  PauseThresh,     \* SyncPolicy::outgoing_pause_thresh
  NoteIdle,        \* SyncPolicy::note_idle_secs
  ReconcileIdle,   \* SyncPolicy::reconcile_idle_secs
  RecentCapacity,  \* capacity of recently_inserted
  MaxPingers       \* bound: pinger tasks modelled at once

ASSUME SyncAssumption ==
  /\ NoNote \notin Note
  /\ Qlen \subseteq Nat
  /\ NegLevel \subseteq Nat
  /\ RefillThresh \in Nat /\ PauseThresh \in Nat
  \* the .max(refill + 1) of from_link_config
  /\ RefillThresh < PauseThresh
  /\ NoteIdle \in Nat /\ ReconcileIdle \in Nat
  /\ RecentCapacity \in Nat \ {0}
  /\ MaxPingers \in Nat

VARIABLES
  isLinkReady,
  pauseSync,
  handling,    \* the note whose handler holds the mutex, or NoNote
  noteAge,     \* time since last_note_recv, counted up to NoteIdle
  syncAge,     \* time since last_sync_recv, counted up to ReconcileIdle
  recent,      \* recently_inserted
  ingest,      \* notes on their way into the database
  db,          \* notes in the database
  notices,     \* notes the local subscription has still to look at
  pongs,       \* after_delay tasks that will send a pong
  pinging,     \* ping_duration.is_some()
  pingers,     \* pinger tasks
  sent,        \* what the last step handed to the link
  since        \* history: notes marked since each was last newly heard

vars == <<isLinkReady, pauseSync, handling, noteAge, syncAge, recent, ingest, db,
          notices, pongs, pinging, pingers, sent, since>>

flags == <<isLinkReady, pauseSync>>
ages == <<noteAge, syncAge>>
heard == <<handling, recent, since>>
notes == <<heard, ingest, db, notices>>
delayed == <<pongs, pinging, pingers>>

Unlocked == handling = NoNote

NegentropyMessage(level) == [kind |-> "Negentropy", level |-> level]
EncNote(n) == [kind |-> "EncNote", note |-> n]
Ping == [kind |-> "Ping"]
Pong == [kind |-> "Pong"]

-----------------------------------------------------------------------------
(* The link's messages *)

LinkReady ==
  /\ Unlocked
  /\ isLinkReady' = TRUE
  /\ sent' = {}
  /\ UNCHANGED <<pauseSync, ages, notes, delayed>>

ShouldPause(qlen) == qlen >= PauseThresh

\* Every test of link_info between the pause flag and the exchange.
MayInitiate(qlen) ==
  /\ isLinkReady
  /\ noteAge >= NoteIdle
  /\ syncAge >= ReconcileIdle
  /\ qlen <= RefillThresh

\* Mutant: the pause is never lifted.
LinkInfoStaysPaused(qlen) ==
  /\ Unlocked
  /\ pauseSync' = (pauseSync \/ ShouldPause(qlen))
  /\ sent' = IF ~pauseSync' /\ MayInitiate(qlen) THEN {NegentropyMessage(0)} ELSE {}
  /\ UNCHANGED <<isLinkReady, ages, notes, delayed>>

\* Turning the pause on returns early; turning it off drops through.
LinkInfo(qlen) ==
  /\ Unlocked
  /\ pauseSync' = ShouldPause(qlen)
  /\ sent' = IF (ShouldPause(qlen) => pauseSync) /\ MayInitiate(qlen)
               THEN {NegentropyMessage(0)} ELSE {}
  /\ UNCHANGED <<isLinkReady, ages, notes, delayed>>

HandlePing ==
  /\ Unlocked
  /\ pongs' = TRUE
  /\ sent' = {}
  /\ UNCHANGED <<flags, ages, notes, pinging, pingers>>

\* handle_raw_note and handle_enc_note up to the database and the relay.
HandleNote(n) ==
  /\ Unlocked
  /\ handling' = n
  /\ noteAge' = 0
  /\ ingest' = ingest \cup {n}
  /\ since' = IF Contains(recent, n) THEN since ELSE [since EXCEPT ![n] = 0]
  /\ sent' = {}
  /\ UNCHANGED <<flags, syncAge, recent, db, notices, delayed>>

\* Their last line: the note is marked as heard and the mutex released.
MarkNote ==
  /\ ~Unlocked
  /\ handling' = NoNote
  /\ recent' = Insert(recent, handling, RecentCapacity)
  /\ since' = [m \in Note |->
                 IF Contains(recent, handling) \/ m = handling
                      \/ since[m] = RecentCapacity
                   THEN since[m] ELSE since[m] + 1]
  /\ sent' = {}
  /\ UNCHANGED <<flags, ages, ingest, db, notices, delayed>>

\* A raw note that is not UTF-8 only counts as heard.
HandleGarbledNote ==
  /\ Unlocked
  /\ noteAge' = 0
  /\ sent' = {}
  /\ UNCHANGED <<flags, syncAge, notes, delayed>>

\* Mutant: the pause flag is not consulted.
HandleNegentropyAlways(level, have, next) ==
  /\ Unlocked
  /\ syncAge' = 0
  /\ sent' = {EncNote(n) : n \in have}
               \cup (IF next THEN {NegentropyMessage(level + 1)} ELSE {})
  /\ UNCHANGED <<flags, noteAge, notes, delayed>>

\* have are the notes the peer turns out to lack, next says whether reconcile
\* returned a further message; a failed reconcile has neither.
HandleNegentropy(level, have, next) ==
  /\ Unlocked
  /\ syncAge' = 0
  /\ sent' = IF pauseSync THEN {}
             ELSE {EncNote(n) : n \in have}
                    \cup (IF next THEN {NegentropyMessage(level + 1)} ELSE {})
  /\ UNCHANGED <<flags, noteAge, notes, delayed>>

-----------------------------------------------------------------------------
(* Tasks beside the message handler *)

SendPong ==
  /\ Unlocked
  /\ pongs
  /\ pongs' = FALSE
  /\ sent' = {Pong}
  /\ UNCHANGED <<flags, ages, notes, pinging, pingers>>

\* The pinger's task copies the duration when it starts.
StartPinging ==
  /\ Unlocked
  /\ ~pinging
  /\ pingers < MaxPingers
  /\ pinging' = TRUE
  /\ pingers' = pingers + 1
  /\ sent' = {}
  /\ UNCHANGED <<flags, ages, notes, pongs>>

StopPinging ==
  /\ Unlocked
  /\ pinging
  /\ pinging' = FALSE
  /\ sent' = {}
  /\ UNCHANGED <<flags, ages, notes, pongs, pingers>>

\* One turn of a pinger's loop, whose condition is the task's own copy.
SendPing ==
  /\ Unlocked
  /\ pingers > 0
  /\ sent' = {Ping}
  /\ UNCHANGED <<flags, ages, notes, delayed>>

\* A client of the local relay publishes a note.
Publish(n) ==
  /\ ingest' = ingest \cup {n}
  /\ sent' = {}
  /\ UNCHANGED <<flags, ages, heard, db, notices, delayed>>

\* The database takes a note in: a new one is announced to the subscription if it
\* is of kind 1, one it has is not, one it cannot verify is dropped.
Ingest(n) ==
  /\ n \in ingest
  /\ ingest' = ingest \ {n}
  /\ \/ /\ n \notin db
        /\ db' = db \cup {n}
        /\ notices' \in {notices, Append(notices, n)}
     \/ UNCHANGED <<db, notices>>
  /\ sent' = {}
  /\ UNCHANGED <<flags, ages, heard, delayed>>

\* Mutant: the subscription looks without the mutex.
RelayNoteUnlocked ==
  /\ notices # <<>>
  /\ notices' = Tail(notices)
  /\ sent' = IF Contains(recent, Head(notices)) THEN {} ELSE {EncNote(Head(notices))}
  /\ UNCHANGED <<flags, ages, heard, ingest, db, delayed>>

\* relay_notekey, for the next note of the local subscription.
RelayNote ==
  /\ Unlocked
  /\ notices # <<>>
  /\ notices' = Tail(notices)
  /\ sent' = IF Contains(recent, Head(notices)) THEN {} ELSE {EncNote(Head(notices))}
  /\ UNCHANGED <<flags, ages, heard, ingest, db, delayed>>

Tick ==
  /\ noteAge < NoteIdle \/ syncAge < ReconcileIdle
  /\ noteAge' = IF noteAge < NoteIdle THEN noteAge + 1 ELSE noteAge
  /\ syncAge' = IF syncAge < ReconcileIdle THEN syncAge + 1 ELSE syncAge
  /\ sent' = {}
  /\ UNCHANGED <<flags, notes, delayed>>

-----------------------------------------------------------------------------

Init ==
  /\ isLinkReady = FALSE
  /\ pauseSync = FALSE
  /\ handling = NoNote
  /\ noteAge = NoteIdle
  /\ syncAge = ReconcileIdle
  /\ recent = NewLruSet
  /\ ingest = {}
  /\ db = {}
  /\ notices = <<>>
  /\ pongs = FALSE
  /\ pinging = FALSE
  /\ pingers = 0
  /\ sent = {}
  /\ since = [n \in Note |-> RecentCapacity]

Receive ==
  \/ HandlePing
  \/ HandleGarbledNote
  \/ \E n \in Note : HandleNote(n)
  \/ \E level \in NegLevel, have \in SUBSET db, next \in BOOLEAN :
       HandleNegentropy(level, have, next)

Next ==
  \/ LinkReady
  \/ \E qlen \in Qlen : LinkInfo(qlen)
  \/ Receive
  \/ MarkNote
  \/ SendPong
  \/ StartPinging \/ StopPinging \/ SendPing
  \/ \E n \in Note : Publish(n) \/ Ingest(n)
  \/ RelayNote
  \/ Tick

Spec == Init /\ [][Next]_vars

\* The link sends Ready once and an Info every minute, handlers return, and
\* time passes.
Fairness ==
  /\ WF_vars(LinkReady)
  /\ WF_vars(\E qlen \in Qlen : LinkInfo(qlen))
  /\ WF_vars(MarkNote)
  /\ WF_vars(Tick)

FairSpec == Spec /\ Fairness

-----------------------------------------------------------------------------

\* Every variable keeps its shape, and the two halves of recently_inserted
\* agree.
TypeOK ==
  /\ isLinkReady \in BOOLEAN /\ pauseSync \in BOOLEAN /\ pongs \in BOOLEAN
  /\ handling \in Note \cup {NoNote}
  /\ pinging \in BOOLEAN /\ pingers \in 0 .. MaxPingers
  /\ noteAge \in 0 .. NoteIdle /\ syncAge \in 0 .. ReconcileIdle
  /\ Agrees(recent, RecentCapacity) /\ recent.set \subseteq Note
  /\ ingest \subseteq Note /\ db \subseteq Note
  /\ notices \in Seq(Note)
  /\ since \in [Note -> 0 .. RecentCapacity]

\* A paused node takes no part in negentropy exchanges: it starts none and answers
\* none, neither with a further message nor with the notes the peer lacks.  All it
\* hands to the link are pings, pongs and the notes its own subscription announces,
\* and the thresholds leave no queue length at which it would start an exchange
\* (sync.rs:55-57,141-190,318-352).
PausedIsSilent ==
  [][pauseSync' =>
       \A m \in sent' :
         \/ m \in {Ping, Pong}
         \/ notices # <<>> /\ notices' = Tail(notices) /\ m = EncNote(Head(notices))]_vars

\* A note heard from the mesh is not sent back to it by the local subscription
\* unless as many newer notes as recently_inserted holds were heard before the
\* subscription got to it, however the database's threads, the subscription
\* and the handlers interleave (sync.rs:220-232,246-252,357-400).
NoEcho ==
  [][notices # <<>> /\ notices' = Tail(notices) /\ sent' # {} =>
       since[Head(notices)] >= RecentCapacity]_vars

\* A ready node whose queues stay short and that hears nothing more starts an
\* exchange with each report of the link: the ages catch up with the idle
\* times, and no pause outlives the queues that caused it (sync.rs:126-201).
InitiatesWhenQuiet ==
  <>[][~Receive /\ \A qlen \in Qlen : LinkInfo(qlen) => qlen <= RefillThresh]_vars
    => []<>(NegentropyMessage(0) \in sent)

\* What the doc comment of stop_pinging says: a stopped pinger sends no ping
\* (sync.rs:557; the loop of 543-550 tests a copy made at 539).
StopsPinging ==
  [][~pinging => Ping \notin sent']_vars

=============================================================================
