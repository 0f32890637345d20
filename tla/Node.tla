------------------------------- MODULE Node -------------------------------
(***************************************************************************)
(* One node from the start of the program to its end: main of              *)
(* noshtastic-cli, create_link and wait_for_config_complete, the link's    *)
(* readiness, and what joins the parts: the channels from link to sync and *)
(* from sync to the local relay, the database's subscription, the test     *)
(* gateway.  The parts have modules of their own (Link, Sync); here each   *)
(* is reduced to what it passes on, and to when it starts to listen.       *)
(*                                                                         *)
(* Only the database outlives the program.  A radio that was interrupted   *)
(* in the middle of its configuration dump may finish it to the next run.  *)
(***************************************************************************)
EXTENDS Integers, Sequences, SequencesExt

CONSTANTS
  Preset,      \* modem presets the radio may be set to
  Unusable,    \* other settings: none of the presets, or one the code does not know
  MeshNote,    \* what other nodes send as notes
  LocalNote,   \* events from the gateway's relay or from local clients
  Valid,       \* those of them the database can verify
  KindOne,     \* those of kind 1
  Parsable,    \* those that can be read as an event at all
  Holdoff,     \* LINK_READY_HOLDOFF_SECS
  MaxRuns,     \* bound: runs of the program
  MaxWire,     \* bound: packets between radio and link
  MaxOut       \* bound: messages between link and sync

ASSUME NodeAssumption ==
  /\ Preset \cap Unusable = {}
  /\ MeshNote \cap LocalNote = {}
  /\ Holdoff \in Nat \ {0}
  /\ MaxRuns \in Nat /\ MaxWire \in Nat /\ MaxOut \in Nat

VARIABLES
  main,        \* what main has done last, "stopped", or "failed" in create_link
  run,         \* which run this is; stands for the config_id, random in the code
  setting,     \* the radio's modem preset
  answer,      \* what is left of the radio's configuration dumps
  hungUp,      \* mesh_in has no sender any more
  wire,        \* mesh_in: packets from the radio
  config,      \* maybe_config, then the LinkConfig: a set of at most one
  holdoff,     \* time left until ready_deadline
  postponing,  \* the mesh listener waits for the link lock to postpone it
  declared,    \* Link::declared_ready
  announcing,  \* maybe_declare_ready holds the link lock: Ready is sent, Info not yet
  linkOut,     \* client_out: messages from link to sync
  isLinkReady, \* Sync::is_link_ready
  recent,      \* notes marked as heard, Sync::recently_inserted
  ingest,      \* notes on their way into the database
  db,
  notices,     \* notes the local subscription has still to look at
  outbox,      \* notes Sync handed to the link
  gateway,     \* the gateway's task: "off" (also when it has ended), "subscribed", "listening"
  incoming,    \* incoming_event: notes from sync to the local relay
  notified     \* notes the relay has told its clients

radio == <<setting, answer, hungUp>>
link == <<holdoff, postponing, declared, announcing>>
database == <<ingest, db, notices>>
sync == <<isLinkReady, recent, outbox>>
clients == <<gateway, incoming, notified>>
vars == <<main, run, radio, wire, config, link, linkOut, database, sync, clients>>

-----------------------------------------------------------------------------
(* main *)

\* Mutant: the gateway is started before the database is subscribed to.
OrderGatewayFirst ==
  <<"failed", "stopped", "connected", "linked", "handling", "gateway", "subscribed", "relay">>

Order ==
  <<"failed", "stopped", "connected", "linked", "handling", "subscribed", "gateway", "relay">>

StepOf(step) == CHOOSE i \in DOMAIN Order : Order[i] = step

\* The current run has done this step.
Done(step) == StepOf(main) >= StepOf(step)

\* main goes on to this step.
Goes(step) == StepOf(step) = StepOf(main) + 1 /\ main' = step

\* The stream to the radio, and the request for its configuration.
Connect ==
  /\ Goes("connected")
  /\ run < MaxRuns
  /\ run' = run + 1
  /\ hungUp' = FALSE
  /\ answer' = answer \o <<[type |-> "MyInfo"],
                           [type |-> "Config", preset |-> setting],
                           [type |-> "ConfigCompleteId", id |-> run + 1]>>
  /\ UNCHANGED <<setting, wire, config, link, linkOut, database, sync, clients>>

\* Mutant: the id of the completed dump is not compared.
IsCompleteAny(packet) == packet.type = "ConfigCompleteId"

\* Our dump is complete.
IsComplete(packet) == packet.type = "ConfigCompleteId" /\ packet.id = run

\* One turn of wait_for_config_complete.  A setting the code cannot use panics and
\* a dump without one is an error; either ends the program.  What is of no use
\* here, mesh packets included, is dropped.
WaitForConfig ==
  /\ main = "connected"
  /\ wire # <<>>
  /\ wire' = Tail(wire)
  /\ LET packet == Head(wire)
     IN  /\ config' = IF packet.type = "Config" THEN {packet.preset} ELSE config
         /\ main' = IF \/ config' \cap Unusable # {}
                       \/ IsComplete(packet) /\ config = {}
                      THEN "failed"
                    ELSE IF IsComplete(packet) THEN "linked"
                    ELSE main
  /\ UNCHANGED <<run, radio, link, linkOut, database, sync, clients>>

\* All packets are read and no more can come.
WaitIsOver ==
  /\ main = "connected"
  /\ wire = <<>>
  /\ hungUp
  /\ main' = "failed"
  /\ UNCHANGED <<run, radio, wire, config, link, linkOut, database, sync, clients>>

\* Sync::new starts the task that handles the link's messages ...
SyncNew ==
  /\ Goes("handling")
  /\ UNCHANGED <<run, radio, wire, config, link, linkOut, database, sync, clients>>

\* ... and then subscribes: from here on new notes are announced.
SyncSubscribe ==
  /\ Goes("subscribed")
  /\ UNCHANGED <<run, radio, wire, config, link, linkOut, database, sync, clients>>

\* TestGW::start subscribes at its relay if one is configured; the task it
\* spawns listens later.
GatewayStart ==
  /\ Goes("gateway")
  /\ gateway' \in {"off", "subscribed"}
  /\ UNCHANGED <<run, radio, wire, config, link, linkOut, database, sync, incoming, notified>>

\* Mutant: what came before the relay was started is dropped.
RelayStartDrains ==
  /\ Goes("relay")
  /\ incoming' = <<>>
  /\ UNCHANGED <<run, radio, wire, config, link, linkOut, database, sync, gateway, notified>>

RelayStart ==
  /\ Goes("relay")
  /\ UNCHANGED <<run, radio, wire, config, link, linkOut, database, sync, clients>>

\* ^C, an error of one of main's steps, or a crash.  Some of what was on its way
\* into the database gets there; a fresh Link and Sync await the next run.
Stop ==
  /\ main # "stopped"
  /\ main' = "stopped"
  /\ hungUp' = FALSE
  /\ wire' = <<>>
  /\ config' = {}
  /\ holdoff' = Holdoff
  /\ postponing' = FALSE
  /\ declared' = FALSE
  /\ announcing' = FALSE
  /\ linkOut' = <<>>
  /\ isLinkReady' = FALSE
  /\ recent' = {}
  /\ \E saved \in SUBSET (ingest \cap Valid) : db' = db \cup saved
  /\ ingest' = {}
  /\ notices' = <<>>
  /\ outbox' = {}
  /\ gateway' = "off"
  /\ incoming' = <<>>
  /\ notified' = {}
  /\ UNCHANGED <<run, setting, answer>>

-----------------------------------------------------------------------------
(* The radio *)

\* It is set to another preset while the program is not running, and reboots.
ChangeSetting ==
  /\ main = "stopped"
  /\ setting' \in Preset \cup Unusable
  /\ answer' = <<>>
  /\ UNCHANGED <<main, run, hungUp, wire, config, link, linkOut, database, sync, clients>>

\* The next packet of a dump; without a listener it is lost.
RadioAnswers ==
  /\ answer # <<>>
  /\ Len(wire) < MaxWire
  /\ answer' = Tail(answer)
  /\ wire' = IF Done("connected") /\ ~hungUp THEN Append(wire, Head(answer)) ELSE wire
  /\ UNCHANGED <<main, run, setting, hungUp, config, link, linkOut, database, sync, clients>>

\* The radio is unplugged or its driver ends: what it sent can still be read.  Once
\* the link listens this is no more than a radio that is silent from then on.
RadioHangsUp ==
  /\ main = "connected"
  /\ ~hungUp
  /\ hungUp' = TRUE
  /\ UNCHANGED <<main, run, setting, answer, wire, config, link, linkOut, database, sync,
                 clients>>

Fresh(note) == [type |-> "Fresh", note |-> note]
Stale == [type |-> "Stale"]
OtherPort == [type |-> "OtherPort"]

\* A packet from the mesh, or one the radio stored while nobody listened.  Each
\* note comes once a run: repeats are the matter of Link and Sync.
MeshPacket(packet) ==
  /\ Done("connected")
  /\ ~hungUp
  /\ packet.type = "Fresh" =>
       packet.note \notin recent /\ packet \notin Range(wire) \cup Range(linkOut)
  /\ Len(wire) < MaxWire
  /\ wire' = Append(wire, packet)
  /\ UNCHANGED <<main, run, radio, config, link, linkOut, database, sync, clients>>

-----------------------------------------------------------------------------
(* The link *)

\* Mutant: every packet postpones readiness.
PostponesAlways(packet) == TRUE

\* The age test of handle_mesh_packet.
Postpones(packet) == packet.type = "Stale"

\* Mutant: a message goes up without the link lock.
NeedsLockNever(packet) == FALSE

\* Packets whose handler takes the link lock before it does anything.
NeedsLock(packet) == packet.type \in {"MyInfo", "Fresh"}

\* handle_packet: a fresh packet's message goes up under the link lock; an old one
\* is on its way to postpone_ready.
HandlePacket ==
  /\ Done("linked")
  /\ wire # <<>>
  /\ ~postponing
  /\ NeedsLock(Head(wire)) => ~announcing
  /\ Len(linkOut) < MaxOut
  /\ wire' = Tail(wire)
  /\ LET packet == Head(wire)
     IN  /\ postponing' = Postpones(packet)
         /\ linkOut' = IF packet.type = "Fresh" THEN Append(linkOut, packet) ELSE linkOut
  /\ UNCHANGED <<main, run, radio, config, holdoff, declared, announcing, database, sync,
                 clients>>

PostponeReady ==
  /\ postponing
  /\ ~announcing
  /\ postponing' = FALSE
  /\ holdoff' = Holdoff
  /\ UNCHANGED <<main, run, radio, wire, config, declared, announcing, linkOut, database,
                 sync, clients>>

Info == [type |-> "Info"]
Ready == [type |-> "Ready"]

\* maybe_declare_ready, when the deadline has passed, until it asks the queues for
\* their lengths; it keeps the link lock.
DeclareReady ==
  /\ Done("linked")
  /\ ~declared
  /\ holdoff = 0
  /\ declared' = TRUE
  /\ announcing' = TRUE
  /\ linkOut' = Append(linkOut, Ready)
  /\ UNCHANGED <<main, run, radio, wire, config, holdoff, postponing, database, sync, clients>>

\* ... and its report of them.
FollowWithInfo ==
  /\ announcing
  /\ announcing' = FALSE
  /\ linkOut' = Append(linkOut, Info)
  /\ UNCHANGED <<main, run, radio, wire, config, holdoff, postponing, declared, database,
                 sync, clients>>

\* info_iv ticks; a report that has not been read yet is not repeated.
ReportInfo ==
  /\ Done("linked")
  /\ ~announcing
  /\ Len(linkOut) < MaxOut
  /\ ~Contains(linkOut, Info)
  /\ linkOut' = Append(linkOut, Info)
  /\ UNCHANGED <<main, run, radio, wire, config, link, database, sync, clients>>

Tick ==
  /\ Done("linked")
  /\ holdoff > 0
  /\ holdoff' = holdoff - 1
  /\ UNCHANGED <<main, run, radio, wire, config, postponing, declared, announcing, linkOut,
                 database, sync, clients>>

-----------------------------------------------------------------------------
(* Sync *)

\* The next message from the link: what a report may start is in Sync.tla; a
\* note goes to the database and to the relay and is marked as heard.
HandleLinkMessage ==
  /\ Done("handling")
  /\ linkOut # <<>>
  /\ linkOut' = Tail(linkOut)
  /\ LET msg == Head(linkOut)
         heard == IF msg.type = "Fresh" THEN {msg.note} ELSE {}
     IN  /\ isLinkReady' = (isLinkReady \/ msg.type = "Ready")
         /\ ingest' = ingest \cup heard
         /\ incoming' = IF heard = {} THEN incoming ELSE Append(incoming, msg.note)
         /\ recent' = recent \cup heard
  /\ UNCHANGED <<main, run, radio, wire, config, link, db, notices, outbox, gateway, notified>>

\* The database takes in what is new and can be verified, and announces what is of
\* kind 1 to the subscription, if there is one.
Ingest(n) ==
  /\ n \in ingest
  /\ ingest' = ingest \ {n}
  /\ db' = db \cup ({n} \cap Valid)
  /\ notices' = IF n \in (Valid \cap KindOne) \ db /\ Done("subscribed")
                  THEN Append(notices, n) ELSE notices
  /\ UNCHANGED <<main, run, radio, wire, config, link, linkOut, sync, clients>>

\* The local subscription sends what was not heard from the mesh.
RelayNote ==
  /\ notices # <<>>
  /\ notices' = Tail(notices)
  /\ outbox' = outbox \cup ({Head(notices)} \ recent)
  /\ UNCHANGED <<main, run, radio, wire, config, link, linkOut, ingest, db, isLinkReady,
                 recent, clients>>

-----------------------------------------------------------------------------
(* Gateway and relay *)

\* The spawned task asks the pool for its notifications.
GatewayListen ==
  /\ gateway = "subscribed"
  /\ gateway' = "listening"
  /\ UNCHANGED <<main, run, radio, wire, config, link, linkOut, database, sync, incoming,
                 notified>>

\* An event of the gateway's relay; without a listener it is lost.
GatewayEvent(n) ==
  /\ gateway = "listening"
  /\ ingest' = ingest \cup {n}
  /\ UNCHANGED <<main, run, radio, wire, config, link, linkOut, db, notices, sync, clients>>

\* A receiver that lags behind the pool's broadcast gets an error: the loop ends.
GatewayLagged ==
  /\ gateway = "listening"
  /\ gateway' = "off"
  /\ UNCHANGED <<main, run, radio, wire, config, link, linkOut, database, sync, incoming,
                 notified>>

\* A client of the local relay publishes a note.
Publish(n) ==
  /\ Done("relay")
  /\ ingest' = ingest \cup {n}
  /\ UNCHANGED <<main, run, radio, wire, config, link, linkOut, db, notices, sync, clients>>

\* The task of start_localhost_relay passes a note on to the relay's clients, if it
\* is an event.
NotifyClients ==
  /\ Done("relay")
  /\ incoming # <<>>
  /\ incoming' = Tail(incoming)
  /\ notified' = notified \cup ({Head(incoming)} \cap Parsable)
  /\ UNCHANGED <<main, run, radio, wire, config, link, linkOut, database, sync, gateway>>

-----------------------------------------------------------------------------

Init ==
  /\ main = "stopped"
  /\ run = 0
  /\ setting \in Preset \cup Unusable
  /\ answer = <<>>
  /\ hungUp = FALSE
  /\ wire = <<>>
  /\ config = {}
  /\ holdoff = Holdoff
  /\ postponing = FALSE
  /\ declared = FALSE
  /\ announcing = FALSE
  /\ linkOut = <<>>
  /\ isLinkReady = FALSE
  /\ recent = {}
  /\ ingest = {}
  /\ db = {}
  /\ notices = <<>>
  /\ outbox = {}
  /\ gateway = "off"
  /\ incoming = <<>>
  /\ notified = {}

Radio ==
  \/ RadioAnswers
  \/ ChangeSetting
  \/ RadioHangsUp
  \/ \E packet \in {Stale, OtherPort} \cup {Fresh(n) : n \in MeshNote} : MeshPacket(packet)

Main ==
  \/ Connect \/ WaitForConfig \/ WaitIsOver
  \/ SyncNew \/ SyncSubscribe \/ GatewayStart \/ RelayStart

Link ==
  \/ HandlePacket \/ PostponeReady
  \/ DeclareReady \/ FollowWithInfo \/ ReportInfo \/ Tick

Next ==
  \/ Main \/ Stop
  \/ Radio
  \/ Link
  \/ HandleLinkMessage \/ RelayNote \/ NotifyClients
  \/ GatewayListen \/ GatewayLagged
  \/ \E n \in LocalNote : GatewayEvent(n) \/ Publish(n)
  \/ \E n \in MeshNote \cup LocalNote : Ingest(n)

Spec == Init /\ [][Next]_vars

\* The steps of main return, time passes, and every task is polled.
Fairness ==
  /\ WF_vars(SyncNew) /\ WF_vars(SyncSubscribe)
  /\ WF_vars(GatewayStart) /\ WF_vars(RelayStart)
  /\ WF_vars(HandlePacket) /\ WF_vars(PostponeReady)
  /\ WF_vars(DeclareReady) /\ WF_vars(FollowWithInfo) /\ WF_vars(Tick)
  /\ WF_vars(HandleLinkMessage) /\ WF_vars(RelayNote) /\ WF_vars(NotifyClients)
  /\ \A n \in LocalNote : WF_vars(Ingest(n))

FairSpec == Spec /\ Fairness

-----------------------------------------------------------------------------

\* The queues are paced for the preset the radio is set to; and a radio that has one
\* and stays connected always gets its node past create_link, also when the end of
\* an earlier run's dump comes first (lib.rs:236-320).
ConfigIsOurs ==
  /\ Done("linked") => config = {setting} /\ setting \in Preset
  /\ main = "failed" => setting \in Unusable \/ hungUp

\* Sync gets one Ready a run, and the next thing it gets is the report that lets it
\* start an exchange: while the task that declares readiness waits for the lengths
\* of the queues no message from the mesh and no report of the other task comes in
\* between, whether Sync has read Ready by then or not
\* (link.rs:146-196,326-431, sync.rs:161-164).
ReadyThenInfo ==
  /\ \A i \in DOMAIN linkOut : linkOut[i] = Ready =>
       /\ ~isLinkReady
       /\ \A j \in DOMAIN linkOut : linkOut[j] = Ready => j = i
       /\ IF i = Len(linkOut) THEN announcing ELSE linkOut[i + 1] = Info
  /\ announcing /\ isLinkReady => linkOut = <<>>

\* Once the radio has no more old packets to pass on, Sync learns that the link
\* is ready, whatever else is on the mesh and however the postponement races
\* the check (link.rs:125-144,174-196,256-274, sync.rs:119-123).
ReadyWhenSettled ==
  <>[][~MeshPacket(Stale)]_vars /\ <>[]Done("linked") => <>[]isLinkReady

\* A note of kind 1 from the gateway or a local client that is new to the database
\* and passes its tests goes out to the mesh: nothing local can reach the database
\* before the subscription exists (main.rs:144-161, sync.rs:203-257,
\* testgw/src/lib.rs:67-89).
LocalNotesRelayed ==
  \A n \in LocalNote \cap Valid \cap KindOne :
    n \in ingest \ db ~> n \in outbox \/ main = "stopped"

\* Clients of the local relay hear of each event from the mesh, also of those that
\* came before the relay was started, behind others that are none, or that the
\* database refuses (main.rs:139-161, relay/src/lib.rs:30-42).
NotesReachClients ==
  \A n \in MeshNote \cap Parsable :
    n \in Range(incoming) ~> n \in notified \/ main = "stopped"

=============================================================================
