# A verification of libkp

libkp talks to a guitar processor (the Kemper Profiler) over TCP.  The repository holds the library three
times, in Rust, Python and Swift, written against one specification.  This directory models the Rust one
(`src/rust/src`), its live model above all (`src/rust/src/model`), because that is where tasks, timers,
sockets and a shared tree meet.  The Python and the Swift library are not modelled: they are ports of the
same design onto one event loop and onto actors, and what interleaves in them differs.

1. The system  2. The modules  3. Runs  4. Fairness  5. Proofs  6. What the checks found  7. What is left
out  8. Plan

## 1. The system

| Part | State | Operations | Talks to | Modelled by |
|---|---|---|---|---|
| **Navigator** (`model/nav.rs`) | aim, sent, in_flight, awaiting; two timers | navigate, a folded position, two expiries, clear | the command queue, the core's mirror | `NavigatorMachine`, `Navigator` |
| **Supervisor** (`model/supervisor.rs`, part of `mod.rs`) | the handles of the current life, `closed`, the last control attempt | connect, a life's end (lost or aged), reconnect with backoff, reopen control, close, drop | every other part | `Lifecycle`, against `Connection` |
| **Core** (`model/core.rs`) | the tree, the epoch, the pending requests | fold a chunk, publish, move a channel, claim the control link, end a life | the links, the lane, subscribers | `Lifecycle`, `Funnel`, `Requests` |
| **Links** (`model/links.rs`) | the two sockets, the command queue, the dump phase | read and fold, write a command, run a control attempt | core, Navigator | `Lifecycle`, `Funnel` |
| **Request lane** (`model/lane.rs`) | permits | request with a timeout, refresh | core, the queue | `Requests`; the burst in `Surface` |
| **Ledger** (`session.rs`) | the last open and close of each peer, its turn | dial, close | the device | `Ledger` |
| **Session** (`session.rs`, the opening in `links.rs` and `cbor.rs`) | a socket | handshake, read, write | the device | `Opening` |
| **Tree** (`state.rs`, `routes.rs`) | the folded device state, dump bookkeeping | apply an update | core | `Tree`; its locks in `Funnel`, over abstract rows |
| **Wire formats** (`midi3.rs`, `nrpn.rs`, `cbor.rs`) | unframer and decoder buffers | frame, unframe, encode, decode | links | `Wire`, `Cbor` |
| **Snapshot readers** (`cbor.rs`: `StateSnapshot`, `CborSession`) | a folder, a broadcast channel | fetch, connect, subscribe | a control link of their own | `Receive` |
| **Command surface** (`model/mod.rs`, `control.rs`) | none | setters, controls, reads, rig arithmetic, the rig-load guard | the queue, Navigator | `Surface` |
| **Discovery** (`discovery.rs`, `protocol.rs`) | a UDP port, the replies | acquire, poll | the network | `Discovery` |

How they interact.  `connect` dials the stream and starts the first *life*: a stream task, a control task,
a sync burst, a loop that reopens the control link and a clock that retires the life.  Every task carries
the *epoch* it was born in, and every write to the core carries it too, so that what is left of an old life
cannot touch the new one.  The supervisor is woken by a life's end, turns the epoch, aborts what is left,
clears the Navigator, moves the tree, and dials again.  `close` does the same from outside, without asking
the supervisor.  Both links fold what they read into the tree under a write lock, and hand the positions
they saw to the Navigator, under another.

What is hard.  Lock-protected steps are short and right; the trouble is between them.  An epoch is checked
before a lock is taken.  A timer that has gone off cannot be cancelled.  A task that was aborted unwinds
later, and holds its socket until it does.  A handle is stored after the task it belongs to was spawned,
or even after that task opened.  The ledger's cooldown is read once, then slept.  A value travels on two
sockets, and the answer to a dump is older than what overtakes it.  A snapshot is cloned under the lock and
sent outside it.  A reply has no mark of the question it answers.  Bytes are read in any pieces, and the
only end a greeting has is that the device pauses.  A position is two values.  `PROJECT.json` lists each of these, and
those no property covers yet, at its line.

What makes each part correct:

- Navigator: two rig loads are never queued closer than the settle time, within a life and across the redial of a
  lost stream (a swap keeps no such pace, section 6); an aim is never lost and never sticks; the mirror
  subscribers see is the machine.
- Supervisor and links: a subscriber sees only the moves of the documented connection; one task at most has
  the control link; what ends a life is that life's own end; a stream that is lost comes back; `close` ends
  everything.
- Ledger: dials of one peer are a cooldown apart and a cooldown after its closes.
- Funnel: when everything said has been read, the tree is the device; a dump reported complete was complete;
  the latest snapshot is the tree.
- Request lane: a call is answered by what was said in its own life, nobody who waits is forgotten, nothing
  is left behind in the core, and every call ends.
- Wire formats and tree: however the bytes are cut, each message comes out once and whole; both wires leave
  the tree, and the Navigator, at the rig the device is at.
- Opening: it ends, in the right protocol, and leaves the stream's first bytes to the stream.
- Command surface: nothing but the Navigator loads a rig; what is read is what the device holds, and what
  was set.
- Discovery: only a device is found, never a client.

## 2. The modules

**`NavigatorMachine`** is `NavigatorState`, the pure machine: each entry point maps a state to a state and a
sequence of actions.  Its `Pump`, `OnNavigate`, `OnPosition`, `OnSettleElapsed` and `OnWindowElapsed` are the
functions of those names.

**`Navigator`** is the runtime around it.  Callers, links and expired timers check the epoch (`waiting` holds
those between that check and the lock), enter the machine one at a time (`Enter`), and carry its actions out
under the lock: the load goes onto the bounded command queue or is refused, timers are armed and cancelled, the mirror is
written.  A timer that has gone off stands in `waiting` and no longer can be cancelled.  `BeginTeardown` to
`StartLife` are the steps of a life's end as the Navigator meets them.  A lost stream is dialed again when the
ledger's cooldown is over (`ReadyToDial`).  A life that had its age is swapped without that wait: the supervisor
aborts and dials in one go (`supervisor.rs:440-455`), before the aborted tasks stamp their closes, and the last
open is `max_age` old (`session.rs:264-272`); `retired` says that such a swap is on, `SwapFails` ends it, and
`swapped` that the life it began has queued no load yet.  Instants are kept as ages that
saturate, so the state space is finite without a bound on the clock.  `Stalls` says whether a caller may sit
between its epoch check and the lock for as long as a redial takes.

**`Connection`** is abstract: what `DeviceState.connection` and `.channels` may do, with no task behind them.
**`Lifecycle`** is the code: the supervisor's program (`sup`), the core's epoch and tree, the tasks of every
life, `close` and the last handle's drop, and callers of `reopen_control`.  Each step is one critical section
or one await; on a `current_thread` runtime (`Threads = FALSE`) nobody but the running task takes the next
section, and `MayRun` says so.  An abort cuts a task at its next await, and it unwinds in a step of its own,
with its socket.  `KeepsThePromise` says that `Lifecycle` implements `Connection`; the mapping is `Promised`,
which reads the tree.
What it merges or leaves out: a spawned stream task and the storing of its handle are one step; `close`'s
swap of `closed` is one with taking the handles (the channels and the connection are two writes, and so two
snapshots, where the code has two: `SayUnavailable` and then `SayFailure`, which `Connection` has as
`GivesUp`); only a control task's `set_channel` is cut between the epoch
check and the lock; whatever is ready is polled before a network round trip or a timer ends (`Quiet`); the
reopen gap outlasts any attempt.  `nav.clear` is in `Navigator`, the sync burst (the lane's calls) in
neither, and a caller does not drop the future of `connect`.

**`Ledger`** is the ledger of one peer (peers do not meet): the fair turn, the ledger read once (`Takes`), the
sleep, the stamp and the dial, closes by anyone at any time, and a call dropped at any of its awaits.

**`Funnel`** is the two wires and the one tree.  The device changes rows, pushes each change on every wire that
carries the row, and answers the dump trigger with `Plan`, whose copies are read at any moment between the
trigger and their being written.  `ReadsStream` and `ReadsControl` take a chunk; `Splits` and `Cut` are where
the closing run falls in it; `Folds` is `apply_update` with rule 3 (wire authority), 6 (the dump yields to what was folded
live), 7 (dedupe) and 8 (store); `Clones` and `Broadcasts` are the two halves of `publish`.  A value is
how often its row has changed.  Abstracted: `begin_dump` comes with the trigger's write; the items of a chunk
fold one by one under the lock; the positions go nowhere (they are `Navigator`'s); the stream's life does not
end.

**`Requests`** is the lane and the core's pending entries: the fair semaphore, the check of the channel, the
registration, the wait for room in the queue, the answer, the timeout, the drop of the caller, the fold that
hands a value to everybody waiting for its key, and the stream's end.  A value is the number of writes
the device had applied to the key when it said it.  A timeout may come at any time.

**`Wire`**, **`Cbor`** and **`Tree`** are the data, byte by byte: `frame` and `UnframerPush`, every SysEx
message the library builds or parses, `decode_stream`; the CBOR decoder with its filler and its
resynchronisation, the encoder, `extract_items` and `dump_end_indices`; the routing table row by row,
`apply_update` with all eight rules, and the events.  A number of more than 31 bits is the one value `HUGE`, a float is
its bits, a text is its bytes.  `Funnel` keeps its abstract rows: it asks what the interleavings of folds and
publishes do, these ask what one fold does.

**`Receive`** composes them: a device that loads rigs and writes its dump, two sockets whose bytes are read in
pieces, and one of three readers of the control channel: the model (with the stream beside it), `fetch`, and a
`CborSession` with subscribers.  A read is decoded and folded in one step (`ReadStream`, `ControlRead`).
`due` says which messages end within a read, which is what the unframer and the decoder are held to.  A
link's first read takes what the handshake left (`Residue`, `Pushed`), and the acceptance's tail may be nothing, a
part of the control channel's first item, or more (`TailSizes`).

**`Discovery`** is `DiscoveryPort`: the port held or refused, the rounds of polls, the window, the tag stream, the
replies by address.  The client's own poll echoes, and other clients poll.  **`Opening`** is a session's
opening on its socket: `read_available_within` as reads of any size that end with a pause, with the end of the
file or at `MaxRead` bytes, the choice of a protocol, the acknowledgement and its tail; on the other end a device
that greets late, rejects, never pauses or hangs up.  **`Surface`** is `DeviceModel`'s own calls: the bytes each builds,
the queue, the writer, a device that acts on them (it sets parameters, arms banks, loads rigs, answers), the
fold of what it says into `Tree` and `NavigatorMachine`, and one read or burst at a time with its worst result.
**`Session`** is the three one after the other: poll, connect, open, call.
Names of controls and slots are strings, GUIDs are two bytes, the 256 bytes of a read are `MaxRead`; running status
and realtime bytes are left out; a read may time out only when nothing is on its way (the race is in
`Requests`).  Calls there start one at a time, and the locks and clocks of the Navigator stay in `Navigator`.  A
stream that had to fall back to another protocol, or whose tail was cut by a pause, goes no further.

The `MC` modules give the rigs, rows, dump and keys of the small instances.  Operators named `X_Y` and
commented "Mutant" are wrong forms of `X`, beside it: each property is shown to fail with one of them.

## 3. Runs

| Run | Shows | Size |
|---|---|---|
| `navigator` | `IInv` and with it `NeverWedged` and `MirrorAgrees`; `LoadsPaced`, but for the first load of a life that a swap began; `NothingForgotten`, `WindowHonoured`; `AimResolves`: every aim is confirmed, dropped, replaced, or forgotten with its life.  One caller, one link, two lives, the second after a lost stream or a swap, a queue of two, a bank that the preselect cannot name | 104k |
| `lifecycle` | a client, BestEffort with everything on or Required without recycling: `ClaimHeld`, `EndsItsOwnLife`, `ReopensPaced`, and the refinement `KeepsThePromise` | 293k |
| `lifecycle_live` | no client: `OldLifeGone` (no socket, attempt, loop or clock of an old life), `NeverAThird`, `Reconnects`, `ControlReopens`, `ClosedEndsAll` | 16k |
| `ledger` | three calls and a cooldown of three ticks: `DialsSpaced`, `ClosesHeeded`, `Served` | 3142 |
| `funnel` | a shared, a control and a stream row, a dump of two sections, both runtimes: `Synced`, `CompletedMeansAll`, `SnapshotCurrent` | 6.3M |
| `requests` | two calls for one key, one permit, a queue of one, two lives: `EntriesOwned`, `NobodyForgotten`, `OwnLifeAnswers`, `Resolves` | 190k |
| `receive` | a rig load while the dump goes out, reads of eleven bytes or of all there are, each of the three readers, a handshake's tail of nothing, of three bytes, or more: `Reassembled`, `SettlesOnDevice`, `NavigatorTold`, `FetchAnswers` (a bank the device has had since it was asked, and no secret) | 146k |
| `session` | one device and another client, three greetings, every call of the model once or twice: `OpensRight`, `OpeningEnds`, `LoadsAreAimed`, `ReadsShowDevice` | 176k |
| `required_leak`, `reopen_across`, `snapshot_order`, `reads_back` | violations: section 6 | |

Why the bounds are enough.  *Navigator*: the machine knows an aim, a rig sent and their equality, so three
rigs of which one cannot be sent meet every comparison; in two lives what is left of the first meets the second; a queue of two is the
smallest that holds a load, which is queued only where two places are free (`try_enqueue_pair`,
`supervisor.rs:170-189`) and fills one, the pair being one item.  *Lifecycle*: three faults make a second report
of an end meet a new life and a failed redial follow a failed swap; four control tasks are more than are ever
alive at once, and the numbers of the dead are used again.  A Required
model is run without recycling, because with it the promise is not kept (section 6).  *Ledger*: a cooldown of three ticks has a proper
middle; the proofs are for any.  *Funnel*: one row of each wire, two changes (before and during a dump), two
sections and two openings, so that an opening follows a lost one and a dump that settled early.  *Requests*: two calls contend for the
permit, the queue and the entry; a second life meets what the first left.  *Receive*: eleven bytes end inside
every kind of message and are no multiple of a frame, and a tail of three bytes ends inside the first item; one bank needs more than seven bits; one load meets the
dump before, within and after each of its sections.  *Session*: a read of three bytes cuts every line of a
greeting, one of a thousand takes all; a queue of three is filled by a pair and a command; the calls include each
setter at a limit, each control, the refused ones and bytes with a rig load inside; two calls make a load
follow, precede or meet any other call, and a burst is called alone, with all of the device's answers and none of some.  Larger instances of the same
modules were also run while the modules were written (three calls on two permits for `Requests`).

Deadlock is checked in `ledger` and `funnel`, which never stop.  A `Navigator` with its lives used up, a `Lifecycle`
that is closed, and a `Requests` whose calls are all over have nothing left to do, and their runs say so.

## 4. Fairness

All of it is weak fairness of what the runtime does by itself.  *Navigator*: an expired timer fires, a caller
that stands at the lock enters (the lock is fair enough that nobody waits for ever: it is held for short,
synchronous sections), a teardown goes through, time passes.  *Lifecycle*: ready tasks are polled, timers
go off, a dial ends (each wait in it has a timeout).  Faults are never fair, so that the properties say
"once the device has stopped failing"; nobody is made to call or to close.  *Ledger*: the same.  *Requests*:
steps of calls, the timeout among them, the writer, and the end of a life already lost; the device owes no
answer.  *Session*: the poll's clock and deadline, and the opening's reads and timers; neither the network nor
the device owes anything.  `Funnel` and `Receive` have no liveness.

## 5. Proofs

TLAPS checks every theorem for all values of the constants.

- **Navigator** (`NavigatorProofs`).  `TypeCorrect`; `Inductive`: `IInv`, under `~Stalls`,
  with its consequences `Unwedged` (a move in flight has its settle timer, an awaiting aim its window timer)
  and `MirrorCorrect`; and three action properties: `AimsAreTold` (`NothingForgotten`), `WindowIsKept`
  (`WindowHonoured`) and `LoadsKeepTheSettle` (`LoadsPaced`): within a life a load is a settle after the one before,
  and so is the first of a life that a lost stream's redial began, which rests on `COOLDOWN >= SETTLE`
  (`generated.rs` has 1000 ms and 500 ms); of the first load after a swap it says nothing (section 6).  `IInv` is
  needed because "the last
  load is a settle old" is not kept by the steps alone: one must know that a machine not in flight either
  never sent in this life, after a cooldown or a swap, or saw its settle out (`Paced`), that a settle timer that has gone off belongs to the
  move in flight (`TimersMatch`), that a machine is fresh from the end of one life to the start of the next
  (`ClearedIsFresh`), and that what waits at the lock is of the current life (`AttachedIsCurrent`).  A window that
  has rung cannot be called back, only found closed: that it was given its time takes `WindowTimed`, in which a
  settle and a window never ring together, or the settle would open a new window under the old ring.
  The module first gives the outcome of each entry point of the machine (`PumpOutcome`, `EnterOutcome`);
  the steps then argue from the outcomes alone.
- **Lifecycle** (`LifecycleProofs`), in three parts.
  *On any runtime*: `Inductive` (`GInv`), with `TypeCorrect` and `EndsOwn` (`EndsItsOwnLife`).  That the epoch
  stays in its bound is no matter of typing: it takes `Turns`, that the epoch has turned once for each fault and
  once for `close`, and a fault that has yet to turn it is on its way (`Pending`).  That a life ends for its own
  reasons takes `Reported` (an end in the channel is of something that is over) and `Ahead` (nothing has begun in
  an epoch to come).
  *On one thread* (`~Threads`; with threads the properties are false, section 6): `OneThreadInductive`
  (`CInv`), with `ClaimIsHeld` (`ClaimHeld`), `RedialsPaced` (`ReopensPaced`) and the refinement `PromiseKept`
  (`KeepsThePromise`: `Lifecycle` implements `Connection`, one step lemma for each kind of move, with a backoff and without
  one).  `CInv` says where
  the supervisor is for what the tree says (`Phases`), that the connection summarises the channels (`Summary`),
  which control tasks are of this life and awake (`Tasks`), and which one of them holds the link (`Claims`): a
  task that has yet to claim and a holder that is about to say `Unavailable` may not meet, or the claim would be
  taken inside the gap.  `PromiseKept` has a second hypothesis, `SwapsKeepTheLine`: no Required control link is
  recycled while a backoff is set.  It is not a convenience: without it the promise is broken (section 6).  What
  `Connection` promises of every step then holds of the tasks: `Summarised`, that the connection a subscriber
  sees always agrees with the channels, is proved of the abstract specification and carried over, under the same
  two hypotheses.
  *On one thread, and where no client calls `reopen_control`* (`Clients = {}`): `HandsInductive` (`HInv`), with
  `OldIsGone` (`OldLifeGone`: no socket, attempt, loop or clock of an earlier life) and `AtMostTwo` (`NeverAThird`).
  `abort_links` reaches only the tasks whose handles
  `Shared.life` keeps, so the invariant says who has each handle: `life`, or the supervisor that awaits a Required
  link, or the loop between its spawn and its store (`InHand`).  A task in nobody's hands has been cut (`Handles`),
  and a life comes up only when what was cut has unwound; so there is one of each (`Single`).  The stream, the loop
  and the clock have their handles stored as they are spawned (`Stored`, `Clocked`).  The loop may start
  an attempt because none is left: its tick comes when all has been polled, and whoever were left would hold the
  link, which the tree says is down (`Claims`, from `CInv`).  The second hypothesis is where the code stops keeping
  the property: a client stores its handle only when the attempt is over, maybe into the next life, and
  `reopen_across` shows the leak.
- **Ledger** (`LedgerProofs`): `IInv`, in which the holder's sleep covers what is left of the cooldown since
  the open and since the close it read; `Spaced` and `Heeded` follow, for any number of calls.
- **Funnel** (`FunnelProofs`), for every table, dump and bound, on both runtimes.  `Publishing` and
  `SnapshotsCurrent`: on one thread, a tree that differs from the latest snapshot in a slow row is still owed to some
  task's publish.  `Inductive` (`IInv`), with `TypeCorrect`, `MarkerMeansAll` (`CompletedMeansAll`) and `TreeSynced`
  (`Synced`).  For the marker one counts: the runs read and the runs still on the wire are the runs written
  (`Counts`), so that the last one read is the last one written.  For the tree, each row is followed from the device to
  the tree (`RowsFollow`): whatever is in flight of it is followed by its present value; while a dump is read,
  a row touched live is current or is told again behind the closing run, an untouched one has not changed
  since the trigger and is current or has its copy still to come.  They rest on `PlanAssumption`: the dump
  holds every row the control link carries, in sections that each end with a closing run, of which the last ends
  the dump.  `cbor.rs:28-37` and `cbor.rs:673-676` say so of the device, and `tests/model.rs:1376-1390` plays one.
- **Requests** (`RequestsProofs`), for any calls, permits, keys and lives: `Inductive` (`IInv`), with
  `TypeCorrect`, `NoStrayEntries` (`EntriesOwned`), `AllRemembered` (`NobodyForgotten`) and `AnsweredByOwnLife`
  (`OwnLifeAnswers`).  The last needs to know which life's queue took a question (`TakenByThisLife`) and that what
  is in a slot was put there by that life (`ToldByOwnLife`); that a value stays in its type needs a count
  of the writes on their way (`Accounted`).
- **Session** (`SessionProofs`, and `SurfaceProofs`, which extends it), for any devices, other clients, greetings,
  settings, commands, reads and bounds.
  *The Unframer* (no run's property, but the stream half of `Reassembled`, as facts about the operators):
  `CutsDoNotMatter`, two reads hand over what one read of their bytes would, whatever the bytes; and
  `FramesComeBack`, messages framed one after the other come back as they were, with nothing kept.  Both follow
  the loop one turn at a time (`Turned`): it ends because each turn takes a byte or four (`UnframeEnds`), and a turn
  is the same whatever is still to come and whatever has come out (`TurnedMore`, `TurnedAfter`).
  *`SessionOpensRight`* (`OpensRight`).  Two invariants.  `DInv`: a datagram on its way that is not from a device is
  a poll, and no reply is kept for an address that is not a device's; it rests on `PollIsPoll`, that `is_poll` knows
  the bytes `build_poll_request` makes for any MAC text of less than 250 bytes.  `OInv`: what the client has read and what
  is on its way together spell what the device writes (`GreetingComes`, `AnswerComes`, `Serves`), so that reads of any size and a
  pause anywhere leave the end of the read and the start of the inbox next to each other; `response_tail` then
  gives the stream its first bytes.  A line of the greeting has no line end within it (`Parsed`), or an
  acknowledgement would end early.
  *`SessionLoadsAreAimed`* (`LoadsAreAimed`, in `SurfaceProofs`).  `LInv`: the items in the queue are, in order, the loads
  still to be heard with other items between them, and no other item loads (`LOwes`); and until the session is handed over
  nothing has been sent (`LIdle`).  `Owed` counts, before each place of the queue, how many loads are behind
  it.  What carries it is byte work: the two messages of a load make the device load that rig (`LoadHeard`), and
  whatever a setter, a control, a beacon, a read or `send_raw` can put on the queue loads nothing, because
  `loads_a_rig` looks at every status byte where the device only looks at some (`QuietMidi`, `ControlQuiet`,
  `CommandQuiet`).  That the queue's bytes come out of the frames as the messages that went in is `FramesComeBack`.
- **Folding** is what any fold over a sequence does: where it begins, one step for one element, and that it keeps
  what each step keeps.  The step and what is kept are CONSTANTS, and each fold of the model is an INSTANCE
  (`Joins`, `Takes`, `Shifts`, `Merges`, `Plays`, `Hearing`).  This stands in for the library's induction theorems.
  `Induction` there is the induction over an interval, with a set in place of a predicate.

What the session's proofs assume of the constants.  `DiscoveryAssumption`: the client's MAC, as text, is short enough that its field's
length fits a byte (`push_field` asserts as much, `protocol.rs:47`; a real one has seventeen characters).  `GreetingAssumption`: a greeting fits one
read of `MaxRead` (the code reads 256; the greetings in its tests and docs have some forty).  `CallsAssumption`: calls are
given what the types and the docs of `mod.rs` let a caller give, and the messages of the reads are questions in SysEx, which
`nrpn.rs` builds.  `SurfaceAssumption`: the model's "nothing" is none of the values it stands beside, there is a rig,
a place in the queue and a permit, rigs are numbered within sixteen bits, and the device's texts are bytes but NUL at addresses of less than `HUGE`.
`RoutesAssumption`: an address has one row of the table, and a leaf one address.  TLC evaluates them all on `session`.

Every safety property of the runs is so proved, but for `ReadsShowDevice` and the four of `Receive`.  Only model-checked:

- all liveness: out of the prover's reach, like `ENABLED`;
- `Reassembled`, `SettlesOnDevice`, `NavigatorTold` and `FetchAnswers`: `Receive` stands on `Cbor`, whose parser is
  mutually recursive over nested items, with RECURSIVE operators, and what such a parser does with every prefix of every
  item is an induction over data.  Of `Reassembled`, the stream half is what `CutsDoNotMatter` and
  `FramesComeBack` say of the Unframer;
- `ReadsShowDevice`: its invariant would have to follow every value on its way, in the queue, in the device and in its answers,
  through each of some eighty rows of the table and each setter, and know of every row that what is encoded is
  decoded to the same leaf.  The question is about the arithmetic of those rows, all of which the run goes through.  It
  is asked of a read that found the wire quiet: nothing on its way, and no question of an earlier call still out
  (section 6 says what such a question does).

What the finding runs show is false without a hypothesis, the theorems state with it.

## 6. What the checks found

As runs, each with a counterexample:

- `required_leak`: `close` while the supervisor awaits a Required control link detaches the control task,
  whose handle only the supervisor's future held; it opens its link and stays (`supervisor.rs:346`,
  `mod.rs:716`).
- `reopen_across`: the handle of a control link a caller reopens is stored only after the attempt is over, so a
  life that ends meanwhile cannot abort it; its socket survives beside the new life's (`supervisor.rs:578`, `437`).
- `snapshot_order`: on a multi-thread runtime two tasks clone the tree in one order and broadcast in the other;
  the latest snapshot stays the older tree (`core.rs:266`, `mod.rs:752`).
- `reads_back`: a request after a write can be settled by a value said before the write was applied
  (`core.rs:631`, `mod.rs:891`).

Seen with other constants or properties and kept in the hazards only:

- `close` on another thread overtakes `start_life`, which never looks at `closed`, and the stream it spawns
  stays (`supervisor.rs:320`; `Lifecycle` with `Threads = TRUE`).  With threads, too, a control task that has
  passed its epoch check writes its channel into the next life.
- A close during another call's sleep is not counted by that call, against docs/11:292 (`session.rs:269`).
- Live pushes of control rows that arrive before the closing run mark nothing, and an older copy of the dump
  overwrites them, against docs/11:187 (`links.rs:250`); hence `Synced` leaves out the control rows that
  changed while the dump was written.
- A shared row may stay stale after the control link is lost, until it is opened again.
- `close` may return before a socket of a life the supervisor was undoing is closed (`mod.rs:723`).
- A swap has three sockets open for a moment, against docs/11:365 (`supervisor.rs:440`); `NeverAThird` excepts it.
- A swap of a model without a backoff that fails half way is reported as Disconnected and ends there
  (`supervisor.rs:457`).  With a Required link, a recycle age and a backoff, a swap whose control link fails passes
  through that report too, and dials again: against `state.rs:31`, which has Disconnected for a model that has ended
  or never began.  `KeepsThePromise` is violated there, and holds otherwise (`SwapsKeepTheLine`).
- The pace of the rig loads is not kept across a swap, against docs/11:366 ("one load in flight at a time, a fixed
  500 ms settle"): the new life is dialed in the step that aborts the old one, before its closes are
  stamped, and its last open is `max_age` old (`supervisor.rs:440-455`, `session.rs:264-272`), so that the dial has no cooldown to wait.  The new life is up when it has
  shaken hands, with a cleared Navigator, so one load just before and one just after may be closer than
  `RIG_LOAD_SETTLE_MS`.  `LoadsPaced` without its `swapped` is violated; every later load of that life is paced.
- With `Stalls = TRUE` a caller that held its epoch across a redial gives the new machine a load whose timers
  are of the old life: it stays in flight for good (`nav.rs:240`).
- A caller dropped while it waits gives its permit back though its question is still out: more than
  `MAX_IN_FLIGHT_REQUESTS` can be unanswered on the wire.
- A pause longer than the idle gap inside the greeting cuts the list of protocols, and what is left of it is
  taken for the acknowledgement; inside the acknowledgement it loses the tail (`session.rs:329`).  A control
  link that hears no greeting reports a rejection, where the stream reports a timeout (`cbor.rs:846`).
- A stream whose protocol is not offered selects the first that is (`session.rs:487`), and goes on as if it
  were the stream.
- `fetch` may return a position of which the bank is one rig's and the slot another's (`routes.rs:290`): the two are
  folded one after the other, and it returns as soon as it has both.  `FetchAnswers` speaks of the bank alone.
- A read settled by `apply_cbor` before its answer is there leaves its question in the queue, and the late answer settles
  the next call for the same key (`core.rs:631`, `mod.rs:891`).
- A momentary row (the morph button, the beat pulse) raises its event and stores nothing, so that a read of
  one leaves the tree as it was (`routes.rs`, `write`).
- A swap may have the stream back within the handshake: a call that was held up between registering and the
  queue for that long (two locks, no await between) would be asked in the new life (`lane.rs`).  `Requests` leaves such
  a call out.
- The decoder counts a filler again when a read ends on one (`cbor.rs:163`), and waits for ever on a head that
  declares a huge length, against the comment at `cbor.rs:134`.
- A reply whose first field's length is itself a printable character is read as having a header
  (`protocol.rs:120`).
- `bank(n)` past 128 arms another bank (`mod.rs:1092`); a setter past fourteen bits wraps.

## 7. What is left out

Not modelled: the two ports; the lookups of names and everything that formats, prints or words an error; the tables
of names; the interfaces' broadcast addresses (one target stands for them); running status and realtime bytes
in raw MIDI; a dropped `connect`; two refreshes at once; the backoff's schedule (only that it waits).
`PROJECT.json` gives the state of each part.  The device is not in the repository: it is modelled by what the
library's code, tests and docs rely on (it pushes each change on the wires of its row, answers a dump in
sections that end with closing runs, acts on the messages the library sends, and may do so slowly, or not at
all).  What no model composes: the Navigator's clock with the writer and the wire, so that the settle is
measured where the load is queued and not at the device (`nav.rs:276`); and a socket that stops taking bytes
(`links.rs:102`).

## 8. Plan

Done: Navigator, Lifecycle, Ledger, Funnel, Requests, Wire, Cbor, Tree, Receive, Discovery, Opening, Surface,
Session, as above.  Next, the most important first:

1. A dropped `connect` and the backoff's schedule in `Lifecycle`.
2. The writer as a process of `Navigator`, with a socket that may stop taking bytes.
