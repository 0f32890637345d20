# Noshtastic in TLA+

Noshtastic carries nostr notes over a Meshtastic radio mesh. A node is a radio
on a serial or Bluetooth line, a **link** that frames, fragments, queues and
repairs messages, a **sync** layer that keeps a note database in step with the
other nodes, and a local nostr relay for clients. This directory holds the
TLA+ model of the parts with state and concurrency, alone and composed (the
tasks of a link, a node from start to stop, several links on one channel,
several nodes that synchronise), the TLC instances that check it, and TLAPS
proofs of every safety property the passing runs check.

    tlc -workers 2 -config MCOutgoing.cfg MCOutgoing.tla    # model-check a run
    tlapm OutgoingProofs.tla                                # check the proofs

`PROJECT.json` lists the runs with their properties, which definition models
which lines, the hazards the properties are aimed at, and the findings.

## The system

    clients --> local relay --> database --> Sync <--> Link <--> radio <--> mesh
                                   ^___________|        |
                                                        +-- Outgoing, FragmentCache

| Component | State | Operations | What makes it correct |
|---|---|---|---|
| Outgoing (`outgoing.rs`) | two deques under a mutex of their own, the wake channel, the regulator task | `enqueue` (cap, dedupe, class preemption and purge), `cancel`, `start_regulator`, the regulator's loop | no entry stranded behind a parked regulator; no duplicate and no superseded entry; order kept; high before normal; bounded |
| Fragment cache (`fragcache.rs`) | per message: chunks, rotation offsets, direction, first seen, last try, completed | `add_fragment`, `overdue_missing`, `fulfill_missing` | a message reaches the client once and whole; what is resent decodes; what is missing is asked for in time |
| Link (`link.rs`) | the radio stream, cache, queues, readiness, one tokio mutex around them | mesh listener, client listener, need timer, info timer, readiness check, `start` | handlers do not block each other for ever; what is on the air can be repaired; a message heard is not sent again |
| Link API (`lib.rs`) | none after start-up | `create_link`, `wait_for_config_complete`, presets, `MsgId`, the 94 C3 escape | escaping is undone exactly; policies scale sensibly |
| Sync (`sync.rs`) | readiness, pause flag, times of the last note and the last exchange, recently inserted notes, pinger, one std mutex | message handler, local subscription, delayed pong, pinger | a note heard is not echoed; a full node is silent; an idle node keeps synchronising |
| LruSet (`lruset.rs`) | a hash set and a deque | `insert`, `contains` | the two agree, capacity respected |
| Negentropy (`negentropy.rs`) | none between calls | `initiate`, `reconcile` | composed afresh from the database each time |
| Note encoding (`encoded_note.rs`) | none | `EncNote`, `EncTag` and `EncString` conversions | a note arrives as it was signed; the conversion a peer unwraps does not fail |
| Command line (`main.rs`) | the order of start-up | `create_link`, `Sync::new`, gateway, relay, ^C | nothing reaches the database before it is subscribed to; nothing waits for a listener that never comes |
| Test gateway, local relay | a subscription; a channel of heard notes | their tasks | notes of the gateway and of clients go out, notes heard come in |
| Drivers, Android app | I/O and glue | | |

They interact through unbounded channels (client to link, link to client, radio
to link), the link mutex, the queue mutex, the Sync mutex, the database and its
subscription. The hard behaviours are: the regulator popping between two steps
of a handler; entries that are in no queue while they wait for the radio;
fragments lost, repeated, reordered and resent by other nodes; three time
constants (window, overdue, need timer) that have to overlap; start-up order;
the database's threads racing a handler; the pause and refill thresholds;
restarts while others repair; several nodes answering the same request or
exchange; each node's idle times against the others' exchanges.

## Modules

| Module | Models | State and actions |
|---|---|---|
| `Deque` | `VecDeque::retain` | by ranks, without recursion, so that it can be proved about |
| `Outgoing` | `outgoing.rs` | `queue`, `notify`, `wake`, `reg` (the regulator's program counter), `held` (the popped entry). `Enqueue`, `EnqueueRefused`, `Cancel`, `StartRegulator`, and the regulator's `RegPop`, `RegPark`, `RegWake`, `RegSend`, `RegResume` |
| `TxQueue` | what the queues promise | a bounded pool per priority: `Accept`, `Withdraw`, `Commit`, `Transmit` |
| `FragCacheOps` | `fragcache.rs` as functions | no state; used by the two modules below |
| `FragmentCache` | one node's cache and the need timer | `cache`, `upcalls`, `reply`, `clock`, `nextNeed`. `HandleFragment`, `SendFragments`, `HandleNeed`, `SendFragmentRetries`, `Tick` |
| `Link` | the tasks of `link.rs` around the link mutex, composed with `Outgoing` (by INSTANCE) and the cache | `line` is the mutex: its holder and, first come first served as in tokio, those waiting. `todo` holds the steps a task's handler has left, one per access to queue, cache or client, so the regulator can pop between any two |
| `Escape94c3` | `escape94c3` and `unescape94c3` of `lib.rs` | operators on buffers |
| `EncNote` | `encoded_note.rs` | operators on events; a conversion that may fail returns a set |
| `Codec` | the two together | `data`, `event`: every buffer and every event up to a size is a state, the conversions are checked on it |
| `Mesh` | several links: caches (`FragCacheOps`), queues of frames, need timers, a channel that loses copies, restarts | `SendFragments`, `RegSend`, `RegSendFails`, `Receive` (`HandleFragment`, `HandleNeed`), `SendFragmentRetries`, `Lose`, `Crash`, `Tick`; `hit` records when a fault last hit what a node depends on |
| `Delivery` | what several links promise a client | `Submit`, `Deliver`, `Restart` |
| `LruSet` | `lruset.rs` | operators used by `Sync` |
| `Sync` | `sync.rs` | one action per handler, except that hearing a note is two, `HandleNote` and `MarkNote`, with the mutex held in between while the database's threads run on |
| `Converge` | several nodes that synchronise: `sync.rs` and `negentropy.rs` | `db` and the two ages per node, `air`, `phase` and `due` for the info timers. `LinkInfo`, `HandleSyncMessage`, `Publish`, `Lose`, `Tick` |
| `Node` | one node from start to stop: `main.rs`, `create_link`, `wait_for_config_complete`, readiness, the relay and gateway tasks, and the channels between the parts | `main` is the step reached; the queues are `wire` (radio to link), `linkOut` (link to sync), `notices` (database to sync), `incoming` (sync to relay) |
| `OutgoingProofs`, `FragCacheProofs`, `FragmentCacheProofs`, `LinkProofs`, `MeshProofs`, `SyncProofs`, `NodeProofs`, `CodecProofs` | | lemmas and theorems about the modules they are named for (`FragCacheProofs`: `FragCacheOps`) |
| `MCOutgoing`, `MCFragmentCache`, `MCLink`, `MCMesh`, `MCSync`, `MCConverge`, `MCNode` | | instances for TLC (`Codec` is its own) |

Abstractions that matter when reading the modules:

* The octets of a chunk are which chunk they are and how far they are rotated.
  Received fragments are honest: a chunk of the message they name, rotated by
  their `rotoff`. Everything else about the mesh is free: any fragment may come
  at any time, any number of times, or never.
* A token in the wake channel only makes the regulator look once more, so the
  count saturates at `MaxWake` (at least 1): a further token is not counted. The proofs
  hold for every `MaxWake`.
* Encoding a frame into a `Vec` cannot fail, so the `continue` at
  `outgoing.rs:205` is not a branch of the model.
* `Link` has no clock: when a request is due is left open there, and
  `FragmentCache` has the times. `Link` handles a `LinkNeed` of one message at
  a time; its id, a hash of its contents, is the contents.
* A handler of `Link` runs to its end once it holds the mutex; a panic ends the
  task and frees the mutex, as in tokio.
* `Sync` abstracts what `reconcile` returns to any subset of the notes in the
  database and either a further message or none.
* `Mesh` keeps of the queues what repair depends on: the two priorities, the
  cap, one entry per id and `cancel`; the order within a priority and the
  classes are `Outgoing`'s. Any node may submit a message at any time, again and
  also one it got from another node, as `send_needed_notes` does. A frame may
  wait in a queue as long as it likes, whatever the regulator's pause; only once
  it is on the air it has less than the minute in which timers count (200 octets
  at 0.09 kbit/s take 18 s). Faults are a lost copy, a failed send, a frame the
  cap refuses and a restart, which leaves an empty cache; `hit` has the time of
  the last one per node: a lost fragment hits the node it was for, a lost request
  the one that asks, a frame that never gets on the air all it was for.
* `Converge` has handlers as single steps, links that are ready and queues that
  stay short, so no node is paused; `Sync` has those tests. Of the negentropy
  crate it takes that a short range is sent as a list and a long one as a
  fingerprint (`ListMax` divides them), that a node that asserts
  `set_initiator` answers a list with nothing and a fingerprint that differs
  with its list. A database is one range.
* `Node` has the database's ingestion as a step of its own, and reduces `Link`
  and `Sync` to what they pass on. The database refuses what it cannot verify,
  and the subscription is told of kind 1 only (`sync.rs:207`): an event of
  another kind from the gateway or a client is stored and never goes out to the
  mesh. A message that is no event reaches the relay's task, which drops it.
  `Unusable` settings are a radio without a preset and a preset the code does not
  know; both panic. `RadioHangsUp` closes the channel from the radio, which is an
  error while the node waits for its configuration; later the listener just gets
  nothing more. `maybe_declare_ready` is two steps, with the link lock held in
  between (`announcing`), and so is `Sync::new`, whose handler runs before the
  subscription exists. Each note comes from the mesh once a run; repeats belong to
  the other modules. `Stop` is a ^C, an error of a step of `main` or a crash: only
  the database survives, with any part of what was on its way into it. The radio
  may finish an interrupted configuration dump to the next run.
* `EncNote` has one character of each sort the code tells apart (decimal digit,
  hex letter in either case, other), and treats a compressed string as a value
  of its own; the fields copied octet by octet are left out. `nostr`'s refusal
  of a tag without elements is the failure a peer could meet.
* `sent`, `reply` and `since` are observations: what the last step handed over,
  and how many notes were marked since each was heard.

## Runs

| Run | Instance | Shows |
|---|---|---|
| `outgoing` | 3 ids, 1 class with 2 levels, 2 entries per queue, fair regulator | types; `UniqueIds`, `ClassUniform`, `NoLostWakeup`, `FirstInFirstOut`; every step is a step of `TxQueue` and the pool keeps being sent; `HighDrains`, `NormalDrains` |
| `fragcache` | 1 message of 3 chunks, octets with 3 values, 9 minutes | `CachedIntact`, `DeliveredIntact`, `UpcallOnce`, `RepliesDecode`, `OnlyInboundIncomplete`, `AskedBeforeExpiry`; `NothingForgotten`: inside its window no entry is lost |
| `link` | 1 short note, 1 message of 2 fragments, 2 entries per queue | `SentIsCached`, `NoQueuedCopy` |
| `link_live` | 1 message of 2 fragments, 1 entry per queue, fair tasks | `LinkServed`, `HighDrains` |
| `link_start` | as `link` | violated: a request handled before `start_regulator` panics in `enqueue` (`outgoing.rs:155`) |
| `mesh` | 3 nodes, 1 message of 2 fragments submitted twice, queues of 2, 2 units of time with a window of 2, a fault | `ImplementsDelivery`: whole and once per run of a node; `RepairedInTime`: when the window closes a node that no fault hit in its last period is being sent what it lacks, by every node that holds it |
| `sync` | 2 notes against a memory of 1, queue lengths 0 to 3 around thresholds 1 and 3, idle times 1 and 2 | `NoEcho` in every order of mesh, database, subscription and clients; `PausedIsSilent`: a paused node sends pings, pongs and its own new notes, nothing of an exchange; `InitiatesWhenQuiet` |
| `sync_ping` | one pinger | violated: a stopped pinger pings on, against the comment at `sync.rs:557` |
| `converge` | 3 nodes with any databases over 2 notes, idle times below the spread of the info timers, a copy lost | `Converges`: the databases agree in the end; `GoesQuiet`: then no exchange is answered any more |
| `converge_starved` | 2 nodes, idle times of the baseline preset, no losses | violated: one node starts an exchange each minute, the other puts its own off each time it hears it and never gets what it lacks, against the post on negentropy, line 34 |
| `node` | a note from the mesh, a note and an event of another kind from gateway or clients, a preset and two unusable settings, 2 runs of the program | `ConfigIsOurs`, `ReadyThenInfo`, `ReadyWhenSettled`, `LocalNotesRelayed`, `NotesReachClients` |
| `codec` | every buffer of up to 6 octets over the five that matter and one that does not; every event of up to 5 characters, strings and tags, compressed above 2 | `RoundTrip`, `NeverOnAir`, `Canonical`, `StringRoundTrip`, `PeerDecodes` |

Why the bounds are enough. Queues of two entries at most (`OutgoingQueueMax`
1, because the code refuses only above it) with three ids reach the cap, a
purge or cancel in the middle, and every pair of classes and levels. Ids are only compared for equality,
so a fourth adds nothing. Three chunks give a first, a middle
and a last; octets with three values make `rotoff` wrap within the run. Nine
minutes with a three-minute timer cover a message that arrives in every phase of the
timer and the window of five minutes after it. Times are in minutes because
every constant involved is a whole number of them; the need timer is served
within the minute it is due. Queue lengths 0 to 3 hit every side of both
thresholds, equality included. `link_live` bounds each queue at one entry so
that refusals happen.

Three nodes in `mesh` give a sender, a node that misses something and a third
that can answer in the sender's place; two fragments make a message that is
partly there. The window is two units, overdue time and need timer are one, the
tightest values `WindowAssumption` allows; with these the timers have one phase, and
`fragcache` has the others, as have the theorems. Two submissions are a message sent again
while it is repaired, or by a node that has just got it. Queues of two entries
with two fragments and requests hit the cap. The run keeps to one frame on the
air at a time (`OneOnAir` in `MCMesh`), as on a channel all nodes hear; the
order in which its copies arrive and what happens meanwhile stay free. The
theorems about `Mesh` have neither this restriction nor the bound of one fault.
In `converge` a
unit of time is 20 seconds, a third of the minute between two LinkInfos: on the
fast preset both idle times are under one unit, on the baseline preset they are
3 and 6. Lists of one note make a database of two notes go out as a
fingerprint, so both forms occur. Two runs of the program in `node` let the
rest of an earlier configuration dump come first, with a changed setting. One
place on the wire and two on the way to `Sync` are enough for packets, `Ready`
and reports to overtake nothing but to meet in every order. Clients and gateway
send events the database does not have (`NewEvents` in `MCNode`): any other is
refused and changes nothing. What the database cannot verify and what is no event
is dropped where it is read, and has no instance in the run. Events of five
characters reach a tag with two elements of which one is empty, a hex string of
each parity and case, and compression.

Fairness. Tokio polls every task that is ready, so the regulator and each
handler's steps are weakly fair, and `Link::start` runs. Nothing is assumed of
the mesh, of clients or of other nodes, except in `converge`, where what is on
the air arrives but for `MaxLoss` copies. The link's info timer reports and time
passes (`sync`, `converge`, `node`). In `node` the steps of `main` after `create_link`
return, the two of `Sync::new` included, and a task that waits for the lengths
of the queues gets them (`FollowWithInfo`); that a radio answers is not assumed, so what depends on it is
conditional on start-up being done. `NormalDrains` is conditional on the high queue staying
empty, because `pop_front` on high comes first: the code gives the normal queue
nothing more. `ReadyWhenSettled` is conditional on the radio's store of old
packets running out. `InitiatesWhenQuiet` is conditional on hearing nothing more and
on short queues, which is what the tests of `link_info` wait for.

## Proofs

TLC checks the instances above. The theorems hold for every value of the
constants that satisfies the named assumptions: any number of nodes, messages,
ids, chunks, notes and tasks, any cap, capacity, threshold, window and bound.
Every invariant and every action property without fairness that a passing run
checks is one of them, and so are two refinements.

| Module | Theorems | State |
|---|---|---|
| `OutgoingProofs` | `TypeCorrect`, `NoDuplicates`, `NoSuperseded`, `NeverStranded`, `LeavesInOrder` | `TypeOK`, `UniqueIds`, `ClassUniform`, `NoLostWakeup`, `FirstInFirstOut` |
| | `Implements` | `ImplementsTxQueue`: `Outgoing` refines `TxQueue` |
| | `RetainProperties` | `VecDeque::retain`: length, elements, order, for deques of every length |
| `FragmentCacheProofs` | `TypeCorrect`, `CacheIsIntact`, `UpcallsAreIntact`, `UpcallsAreUnique`, `RepliesAreHonest`, `OwnIsWhole`, `AskedInWindow`, `ForgetsNothing` | `TypeOK`, `CachedIntact`, `DeliveredIntact`, `UpcallOnce`, `RepliesDecode`, `OnlyInboundIncomplete`, `AskedBeforeExpiry`, `NothingForgotten` |
| `LinkProofs` | `TypeCorrect`, `ResendsAnswerable`, `HeardIsWithdrawn` | `TypeOK`, `SentIsCached`, `NoQueuedCopy` |
| `MeshProofs` | `KeepsPromise` | `ImplementsDelivery`: `Mesh` refines `Delivery` |
| | `RepairsInTime` | `RepairedInTime` |
| `SyncProofs` | `TypeCorrect`, `HeardIsNotEchoed`, `PausedSendsNothing` | `TypeOK`, `NoEcho`, `PausedIsSilent` |
| `NodeProofs` | `ConfigIsTheRadios`, `ReadyBringsInfo` | `ConfigIsOurs`, `ReadyThenInfo` |
| `CodecProofs` | `ReadsBack`, `LeavesNoPair`, `ReadsOnlyEscapes`, `StringsReadBack`, `NotesReadBack` | about every buffer, string and event; from them `RoundTrip`, `NeverOnAir`, `Canonical`, `StringRoundTrip`, `PeerDecodes` |

**Assumptions.** Most say what kind of value a constant is. Those with
content: `MaxWake > 0` and `NoClass \notin Class` (`OutgoingAssumption`,
`LinkAssumption`); a message has a chunk, `Overdue > 0` (`FragCacheAssumption`);
a vector of octets is not empty (`NoDataAssumption`: `send_fragments` makes
chunks of at least one octet); `RefillThresh < PauseThresh`, which
`from_link_config` ensures, and `RecentCapacity > 0` (`SyncAssumption`);
`Holdoff > 0` (`NodeAssumption`). `WindowAssumption`, in
`FragmentCache` and `Mesh`, is `Overdue + NeedSecs <= MaxAge`, in the code
60 s + 180 s <= 300 s, and in `Mesh` also `Overdue <= NeedSecs`; only
`AskedInWindow` and `RepairsInTime` need it. `Preset` and `Unusable` are disjoint
(`NodeAssumption`).

**Outgoing.** The inductive invariant `IInv` is the conjunction of the four
invariants. `NoLostWakeup` needs the types, which tie `notify` to the
regulator's existence: only then does every push into empty queues leave a
token. `ClassUniform` keeps itself because the preemption test refuses what the
purge could not repair. Queue steps go through `PushOK`, `TailOK` and `RetainOK`,
one for each way a deque changes. Order needs `UniqueIds`: in a queue without
duplicates an entry has one position, and `Retain`, `Tail` and `Append` keep
positions in order. For the refinement a queue is the set of its entries; the
cap and both tests of `enqueue` are then those of `Accept`.

**Fragment cache.** `FragCacheProofs` has one lemma per operation, about any
cache whose chunks are the original ones: what is missing afterwards, which
entries stay as they were, when something goes up (`AddFragmentOK`, `AddOwnOK`,
`RequestedOK`, `FulfilledOK`, `ResendOK`, and `UnrotateRotate` for the wrapping
arithmetic). `UpcallOnce` is not inductive; it becomes so with
`UpcallsOK`: an upcall leaves its entry completed, and nothing clears that.
`AskedBeforeExpiry` becomes so with `AskedInTime`: an entry not yet asked for
is due before `nextNeed` is `Overdue + NeedSecs` past its creation. These lemmas
serve `Link` and `Mesh` too. `ForgetsNothing` speaks of entries whose window is open.

**Link.** `SentIsCached` speaks of queues, but what a handler still has to
queue is in `todo`, so the invariant says of each task's remaining steps that a
fragment to be queued is cached or is cached by an earlier step (`Promised`).
`NoQueuedCopy` needs that while the mesh listener holds the lock each queue will
still be searched or holds no copy (`Searched`), which in turn needs that nobody
else queues meanwhile: a task is in line for the mutex exactly while it has steps
left (`LineOK`).

**Mesh.** The refinement needs only that caches are intact and that what a
client got is completed in its node's cache. `RepairedInTime` needs more; its
invariant `RInv` was first checked by TLC on the instance of `mesh`, and says of
each node and fragment:

* `Heard`: what is on the air for anybody is on its way to the node too, or the
  node has it, unless a fault hit the node at this very time. The clock only
  moves when the air is empty, so this is about the present only;
* `Covered`: once the node has asked, and if no fault hit it since, each node
  that holds the fragment has it queued, has sent it, or is being asked. A copy
  that is cancelled is cancelled because one was heard, and by `Heard` that one
  goes to the node as well; a copy refused as a duplicate has another in the
  queue; a copy the cap refuses is a fault. A node that gets the fragment later
  does so from the air, which by `Heard` the asking node shares, or submits it
  itself and queues it (`SendFragmentsRepairs`);
* `SentByHolders`: what a node has queued it holds, so a fragment that is sent
  leaves its sender in the state of one that has answered;
* `EntryTimes`, which ties this to the clock as `AskedInTime` does: an incomplete
  entry not asked for since the last fault has a tick of the need timer to come
  before its window closes, if the fault was not in the last period. An entry that
  was asked for is due again after `Overdue`, so at the next tick: this is what
  `Overdue <= NeedSecs` is for.

When the window has closed there is no such tick left, so the node has asked since
its last fault, and `Covered` is the claim.

**Sync.** `NoEcho` needs two facts about age: a note neither remembered nor being
handled is as old as the capacity (`ForgottenIsOld`), and a remembered one at
least as old as the members behind it are many (`AgedByNewer`). Both rest on
`LruSet`'s set and deque agreeing.

**Node.** `ConfigIsOurs` needs `ConfigFirst`: the end of our own configuration
dump comes after a configuration, wherever the two are, or the radio has hung up
before it could be sent; and every dump is for the setting the radio has now.
`ReadyThenInfo` needs `OneReady`: until its report follows, Ready is the last
message on the way or Sync has it already. What keeps it there is the link lock:
the handlers that send anything up take it first (`NeedsLock`), and so does the
other reporting task.

**Codec.** The two loops of `lib.rs` are recursive functions on positions.
`EscapeUnfolds` and `UnescapeUnfolds` show that the functions exist and that
their equations hold; a set of positions at which a claim fails has a largest
element (`Largest`), behind which the claim holds, and one step of the loop
refutes it. So no induction theorem with an operator parameter is needed.

Only model-checked: liveness (`HighDrains`, `NormalDrains`,
`ImplementsFairTxQueue`, `LinkServed`, `InitiatesWhenQuiet`, `Converges`,
`GoesQuiet`, `ReadyWhenSettled`, `LocalNotesRelayed`, `NotesReachClients`):
fairness is stated with ENABLED, which the prover does not have. `Converge`
promises nothing else, so it has no theorem. The three violations are TLC's
counterexamples. That `Retain` agrees with `SelectSeq` is an assumption TLC
evaluates (`RetainIsSelectSeq`) and no proof uses.

## Plan

The policies for the nine presets against the fixed times of cache and timers:
on the slowest preset one sending pause (391 s) is longer than the retry window
(300 s). `RepairedInTime` then says that a repair is under way when the window
closes; when it arrives needs a clock for the regulator's pauses.

The safe part of liveness that could still be proved is what the fair runs rest
on: that while a queue holds an entry some step of the regulator is possible
(`NeverStranded` is the case of the parked one), and that databases in
`Converge` only grow.

## Not modelled

* The drivers, protobuf encoding and error conversions: pure I/O or generated
  code. The Android app: a user interface and permissions around the same
  start-up as `main.rs`.
* The splitting of ranges and the frame limit inside the negentropy crate,
  which is not part of the repository; LoRa timing beyond the regulator's pause.
* The numbers the presets lead to: thresholds, cap, pause and idle times are
  constants of the modules.
* The purge of entries whose retry window has closed: the comment at
  `fragcache.rs:130` says "After that, purge.", and the code for it,
  `fragcache.rs:174-177`, is commented out. Comment and code disagree; the model
  follows the code, in which the cache grows with every message heard or sent, and
  `NothingForgotten` promises nothing of such entries.
* Shutdown: `stop_signal.notify_waiters()` (`main.rs:168`) wakes only tasks that
  are waiting, and `main` returns right after it; `Stop` in `Node` ends all
  tasks at any point.
* `magic` and `version` of a frame, which the link sets and never tests.

Three things the code does that no property forbids: an entry the regulator has
popped waits for the link mutex (`outgoing.rs:213`) out of reach of `cancel`,
so a copy of a message just heard may still be sent (`NoQueuedCopy` is about
the queues); a message of our own whose fragment is heard back goes up to our own
client once (`UpcallOnce` allows it); and the gateway loses events that come between its subscription
and its call of `notifications()`, and stops when it lags (`Node` has both as
steps).
