------------------------------- MODULE Funnel --------------------------------
(***************************************************************************)
(* The one tree and its two wires (links.rs, core.rs, routes.rs): how the   *)
(* values the device pushes on the stream and on the control link, and its  *)
(* answer to the dump trigger, fold into one state, and how that state is   *)
(* published.  The life of the stream does not end here (Lifecycle does     *)
(* that); the control link may be lost and opened again.                    *)
(*                                                                         *)
(* A value is a version: how often its address has changed on the device.  *)
(***************************************************************************)
EXTENDS Naturals, Sequences, FiniteSets

CONSTANTS
  Addresses,    \* the tracked addresses
  Wire,         \* STATE_ROUTES: the wire of each row
  Slow,         \* STATE_ROUTES: the rows of the slow lane
  Plan,         \* the dump, as the device writes it: addresses and EndRuns
  EndRun,       \* the run at DUMP_END_ADDRESS
  DumpEndRuns,  \* how many of them close the dump
  MaxChanges,   \* bound: what changes on the device
  MaxInFlight,  \* bound: items on a wire
  MaxOpens      \* bound: openings of the control link

ASSUME FunnelAssumption ==
  /\ Wire \in [Addresses -> {"stream", "control", "both"}]
  /\ Slow \subseteq Addresses
  /\ Plan \in Seq(Addresses \union {EndRun}) /\ EndRun \notin Addresses
  /\ DumpEndRuns \in Nat \ {0}
  /\ MaxChanges \in Nat /\ MaxInFlight \in Nat /\ MaxOpens \in Nat

\* The dump tells every row that the control link carries, in sections: a run
\* closes each of them, and the last of these is the last of the dump.
ASSUME PlanAssumption ==
  /\ Plan # <<>> /\ Plan[Len(Plan)] = EndRun
  /\ Cardinality({i \in 1 .. Len(Plan) : Plan[i] = EndRun}) = DumpEndRuns
  /\ \A a \in Addresses : Wire[a] # "stream" => \E i \in 1 .. Len(Plan) : Plan[i] = a

VARIABLES
  \* The device.
  dev,       \* the version of each address
  changes,   \* how many there have been
  asked,     \* the dump trigger is on its way
  asOf,      \* the versions when it arrived
  sent,      \* how much of Plan is written
  \* The wires.
  wire,      \* what each link has in flight
  \* The two links' tasks.
  at,        \* where each is
  batch,     \* what is left to fold of the chunk it read
  slow,      \* the chunk changed what snapshots show
  seen,      \* the tree as it cloned it to publish it
  dump,      \* run_control: dumping, end_runs, and of the chunk read: how many
             \* items fold as Phase::Dump (cut), whether it ends the dump (ends)
  \* The core.
  tree,      \* DeviceState
  guard,     \* DumpGuard
  link,      \* channels.control
  snapshot,  \* the latest broadcast
  \* Kept for the properties.
  runtime,   \* whether the two tasks share one thread
  opens,
  over,      \* how the latest dump ended
  ramped     \* the control rows that changed while a dump was being written

device == <<dev, changes, asked, asOf, sent>>
task   == <<at, batch, slow, seen>>
core   == <<tree, guard, link, snapshot>>
kept   == <<runtime, opens, over, ramped>>
vars   == <<device, wire, task, dump, core, kept>>

Links    == {"stream", "control"}
Versions == 0 .. MaxChanges
Item     == [addr : Addresses, ver : Versions, copy : BOOLEAN]
End      == [addr |-> EndRun, ver |-> 0, copy |-> TRUE]
Tree     == [Addresses -> Versions]

TypeOK ==
  /\ dev \in Tree /\ asOf \in Tree /\ tree \in Tree /\ snapshot \in Tree
  /\ changes \in Versions /\ asked \in BOOLEAN /\ sent \in 0 .. Len(Plan)
  /\ wire \in [Links -> Seq(Item \union {End})]
  /\ at \in [Links -> {"wait", "fold", "finish", "publish", "send"}]
  /\ batch \in [Links -> Nat] /\ \A l \in Links : batch[l] <= Len(wire[l])
  /\ slow \in [Links -> BOOLEAN] /\ seen \in [Links -> Tree]
  /\ dump \in [on : BOOLEAN, runs : 0 .. DumpEndRuns, cut : Nat, ends : BOOLEAN]
  /\ dump.cut <= batch["control"]
  /\ guard \in [active : BOOLEAN, touched : SUBSET Addresses]
  /\ link \in {"down", "open"} /\ runtime \in {"current", "multi"}
  /\ opens \in 0 .. MaxOpens /\ ramped \subseteq Addresses
  /\ over \in {"running", "marker", "settle", "loss"}

\* begin_dump and end_dump both forget what was touched.
ClearGuard(active) == [active |-> active, touched |-> {}]

Zero == [a \in Addresses |-> 0]

\* The stream is open and its sync has been folded.
Init ==
  /\ dev = Zero /\ changes = 0 /\ asked = FALSE /\ asOf = Zero
  /\ sent = Len(Plan)
  /\ wire = [l \in Links |-> <<>>]
  /\ at = [l \in Links |-> "wait"] /\ batch = [l \in Links |-> 0]
  /\ slow = [l \in Links |-> FALSE] /\ seen = [l \in Links |-> Zero]
  /\ dump = [on |-> FALSE, runs |-> 0, cut |-> 0, ends |-> FALSE]
  /\ tree = Zero /\ guard = ClearGuard(FALSE)
  /\ link = "down" /\ snapshot = Zero
  /\ runtime \in {"current", "multi"}
  /\ opens = 0 /\ over = "loss" /\ ramped = {}

-----------------------------------------------------------------------------
(***************************************************************************)
(* The device.                                                              *)
(***************************************************************************)

Live(a) == [addr |-> a, ver |-> dev'[a], copy |-> FALSE]

\* Which wires a change goes out on.  The control link's feed of a stream row
\* is the coarser one: it skips changes.
Carriers(a) ==
  LET open == IF link = "open" THEN {"control"} ELSE {}
  IN  CASE Wire[a] = "both"    -> {{"stream"} \union open}
        [] Wire[a] = "control" -> {open}
        [] OTHER               -> {{"stream"}, {"stream"} \union open}

Pushes(links, i) ==
  /\ \A l \in links : Len(wire[l]) < MaxInFlight
  /\ wire' = [l \in Links |-> IF l \in links THEN Append(wire[l], i)
                                             ELSE wire[l]]

Writing == ~asked /\ sent < Len(Plan)

\* A value moves and is pushed.
Changes(a) ==
  /\ changes < MaxChanges
  /\ changes' = changes + 1 /\ dev' = [dev EXCEPT ![a] = @ + 1]
  /\ \E links \in Carriers(a) : Pushes(links, Live(a))
  /\ ramped' = IF Wire[a] = "control" /\ Writing THEN ramped \union {a}
                                                 ELSE ramped
  /\ UNCHANGED <<asked, asOf, sent, task, dump, core, runtime, opens, over>>

\* The stream says again what it said: a reply to a request, or the rig dump
\* that the trigger provokes.
Repeats(a) ==
  /\ Wire[a] = "both"
  /\ UNCHANGED device
  /\ Pushes({"stream"}, Live(a))
  /\ UNCHANGED <<task, dump, core, kept>>

\* The trigger arrives.
StartsDump ==
  /\ asked
  /\ asked' = FALSE /\ asOf' = dev /\ sent' = 0
  /\ UNCHANGED <<dev, changes, wire, task, dump, core, kept>>

\* The device writes the next item of the dump: a copy that is no older than
\* the trigger, and may be older than what it pushed since.
WritesDump ==
  /\ Writing
  /\ sent' = sent + 1
  /\ LET a == Plan[sent + 1]
     IN  IF a = EndRun THEN Pushes({"control"}, End)
         ELSE \E v \in asOf[a] .. dev[a] :
                Pushes({"control"}, [addr |-> a, ver |-> v, copy |-> TRUE])
  /\ UNCHANGED <<dev, changes, asked, asOf, task, dump, core, kept>>

Device ==
  \/ \E a \in Addresses : Changes(a) \/ Repeats(a)
  \/ StartsDump \/ WritesDump

-----------------------------------------------------------------------------
(***************************************************************************)
(* The fold, under the state's lock (apply_update's rules 3, 6, 7 and 8).   *)
(***************************************************************************)

Unlocked == \A l \in Links : at[l] # "fold"

\* On one thread a task runs until it waits.
Runs(l) == runtime = "current" => \A m \in Links \ {l} : at[m] = "wait"

\* Mutant: rule 3 is not applied.
Refuses_Nothing(l, a) == FALSE

\* Rule 3: the stream is open, so the control link's copy is not wanted.
Refuses(l, a) == Wire[a] = "stream" /\ l = "control"

IsLive(l) == l = "stream" \/ dump.cut = 0

\* Mutant: an address is marked only by a value that changes it.
Marks_Changes(l, i) ==
  guard.active /\ IsLive(l) /\ ~Refuses(l, i.addr) /\ tree[i.addr] # i.ver

\* Rule 6: a live update marks its address, changed or not ...
Marks(l, i) == guard.active /\ IsLive(l) /\ ~Refuses(l, i.addr)

\* ... and a dump item for a marked address is dropped.
Drops(l, i) == guard.active /\ ~IsLive(l) /\ i.addr \in guard.touched

\* Mutant: what the dump stores is not published.
Shows_Live(l, i) == i.addr \in Slow /\ IsLive(l)

\* Rules 7 and 8: what changes a slow row flags the snapshot.
Shows(l, i) == i.addr \in Slow

Apply(l, i) ==
  LET stored == i.addr \in Addresses /\ ~Refuses(l, i.addr) /\ ~Drops(l, i)
  IN  /\ guard' = IF i.addr \in Addresses /\ Marks(l, i)
                  THEN [guard EXCEPT !.touched = @ \union {i.addr}] ELSE guard
      /\ tree' = IF stored THEN [tree EXCEPT ![i.addr] = i.ver] ELSE tree
      /\ slow' = IF stored /\ tree[i.addr] # i.ver /\ Shows(l, i)
                 THEN [slow EXCEPT ![l] = TRUE] ELSE slow

\* fold_message_chunk, fold_update_chunk: one item of the chunk.
Folds(l) ==
  /\ at[l] = "fold" /\ Runs(l)
  /\ Apply(l, Head(wire[l]))
  /\ wire' = [wire EXCEPT ![l] = Tail(@)]
  /\ batch' = [batch EXCEPT ![l] = @ - 1]
  /\ dump' = IF l = "control" /\ dump.cut > 0
             THEN [dump EXCEPT !.cut = @ - 1] ELSE dump
  /\ at' = [at EXCEPT ![l] = IF batch[l] = 1 THEN "finish" ELSE "fold"]
  /\ UNCHANGED <<device, seen, link, snapshot, kept>>

-----------------------------------------------------------------------------
(***************************************************************************)
(* The stream's task and the control link's.                                *)
(***************************************************************************)

\* run_stream reads a chunk.
ReadsStream ==
  /\ at["stream"] = "wait" /\ Runs("stream") /\ Unlocked
  /\ \E k \in 1 .. Len(wire["stream"]) : batch' = [batch EXCEPT !.stream = k]
  /\ at' = [at EXCEPT !.stream = "fold"]
  /\ slow' = [slow EXCEPT !.stream = FALSE]
  /\ UNCHANGED <<device, wire, seen, dump, core, kept>>

\* dump_end_indices, in the first k items of the control wire.
EndRunsIn(k) == {j \in 1 .. k : wire["control"][j] = End}

\* Mutant: the first run ends the dump.
Splits_First(k) == EndRunsIn(k)

\* The runs of the chunk that bring the count to DUMP_END_RUNS, or past it.
Splits(k) ==
  {j \in EndRunsIn(k) :
     dump.runs + Cardinality({i \in EndRunsIn(k) : i <= j}) >= DumpEndRuns}

\* Up to the run that closes the dump the chunk is the dump's; the rest is live.
Cut(k) ==
  IF Splits(k) = {} THEN k
  ELSE CHOOSE j \in Splits(k) : \A i \in Splits(k) : j <= i

\* Mutant: every item counts.
Counted_Items(k) == dump.runs + Cut(k)

Counted(k) == dump.runs + Cardinality(EndRunsIn(Cut(k)))

\* run_control reads a chunk.
ReadsControl ==
  /\ at["control"] = "wait" /\ link = "open" /\ Runs("control") /\ Unlocked
  /\ \E k \in 1 .. Len(wire["control"]) :
       /\ batch' = [batch EXCEPT !.control = k]
       /\ dump' = IF dump.on
                  THEN [dump EXCEPT !.cut = Cut(k), !.ends = Splits(k) # {},
                                    !.runs = Counted(k)]
                  ELSE dump
  /\ at' = [at EXCEPT !.control = "fold"]
  /\ slow' = [slow EXCEPT !.control = FALSE]
  /\ UNCHANGED <<device, wire, seen, core, kept>>

\* finish_chunk, end_dump_report: the lock was let go of in between.
Finishes(l) ==
  /\ at[l] = "finish" /\ Runs(l) /\ Unlocked
  /\ IF l = "control" /\ dump.ends
     THEN /\ guard' = ClearGuard(FALSE)
          /\ dump' = [dump EXCEPT !.on = FALSE, !.ends = FALSE]
          /\ over' = "marker"
     ELSE UNCHANGED <<guard, dump, over>>
  /\ at' = [at EXCEPT ![l] = IF slow[l] THEN "publish" ELSE "wait"]
  /\ UNCHANGED <<device, wire, batch, slow, seen, tree, link, snapshot,
                 runtime, opens, ramped>>

\* publish: the tree is cloned under the lock, and broadcast after it.
Clones(l) ==
  /\ at[l] = "publish" /\ Runs(l) /\ Unlocked
  /\ seen' = [seen EXCEPT ![l] = tree]
  /\ at' = [at EXCEPT ![l] = "send"]
  /\ UNCHANGED <<device, wire, batch, slow, dump, core, kept>>

Broadcasts(l) ==
  /\ at[l] = "send" /\ Runs(l)
  /\ snapshot' = seen[l]
  /\ at' = [at EXCEPT ![l] = "wait"]
  /\ UNCHANGED <<device, wire, batch, slow, seen, dump, tree, guard, link,
                 kept>>

\* The link is up and the trigger written: begin_dump, and set_channel.  What
\* the device pushes from its side of the handshake on is the link's to read.
Opens ==
  /\ link = "down" /\ at["control"] = "wait" /\ Runs("control") /\ Unlocked
  /\ opens < MaxOpens /\ opens' = opens + 1
  /\ asked' = TRUE
  /\ guard' = ClearGuard(TRUE)
  /\ dump' = [on |-> TRUE, runs |-> 0, cut |-> 0, ends |-> FALSE]
  /\ link' = "open" /\ over' = "running" /\ ramped' = {}
  /\ at' = [at EXCEPT !.control = "publish"]
  /\ UNCHANGED <<dev, changes, asOf, sent, wire, batch, slow, seen, tree,
                 snapshot, runtime>>

\* DUMP_SETTLE_MS after the trigger.
Settles ==
  /\ at["control"] = "wait" /\ dump.on /\ Runs("control") /\ Unlocked
  /\ guard' = ClearGuard(FALSE)
  /\ dump' = [dump EXCEPT !.on = FALSE] /\ over' = "settle"
  /\ UNCHANGED <<device, wire, task, tree, link, snapshot, runtime, opens,
                 ramped>>

\* The socket ends, and what it had in flight with it.
Loses ==
  /\ at["control"] = "wait" /\ link = "open" /\ Runs("control") /\ Unlocked
  /\ link' = "down" /\ wire' = [wire EXCEPT !.control = <<>>]
  /\ asked' = FALSE /\ sent' = Len(Plan)
  /\ IF dump.on
     THEN /\ guard' = ClearGuard(FALSE)
          /\ dump' = [dump EXCEPT !.on = FALSE] /\ over' = "loss"
     ELSE UNCHANGED <<guard, dump, over>>
  /\ at' = [at EXCEPT !.control = "publish"]
  /\ UNCHANGED <<dev, changes, asOf, batch, slow, seen, tree, snapshot,
                 runtime, opens, ramped>>

Next ==
  \/ Device
  \/ ReadsStream \/ ReadsControl
  \/ \E l \in Links : Folds(l) \/ Finishes(l) \/ Clones(l) \/ Broadcasts(l)
  \/ Opens \/ Settles \/ Loses

Spec == Init /\ [][Next]_vars

-----------------------------------------------------------------------------
(***************************************************************************)
(* Properties.                                                              *)
(***************************************************************************)

Idle == \A l \in Links : at[l] = "wait"

\* Everything the device said has been folded, the whole dump included.
Drained ==
  /\ Idle /\ wire = [l \in Links |-> <<>>]
  /\ ~asked /\ ~Writing /\ ~dump.on

\* With both links up and everything folded the tree is the device's state,
\* however the two wires and the dump interleaved: rules 3 and 6, the split at
\* the closing run, begin_dump and end_dump.  It needs a dump that was not cut
\* short by the settle time, and says nothing of a control row that changed
\* while the dump was being written.
Synced ==
  Drained /\ link = "open" /\ over = "marker" =>
    \A a \in Addresses \ ramped : tree[a] = dev[a]

\* A SyncCompleted that the marker raises is true: no part of the dump is
\* still to come, however the reads cut it up.
CompletedMeansAll ==
  over = "marker" =>
    ~asked /\ ~Writing /\ \A j \in DOMAIN wire["control"] :
                            ~wire["control"][j].copy

\* On one thread the latest snapshot shows the tree: publish flags every chunk
\* that changed a slow row, the dump's among them.
SnapshotCurrent ==
  Idle /\ runtime = "current" =>
    \A a \in Slow : snapshot[a] = tree[a]

\* The latest snapshot loses nothing (subscribe's doc), on any runtime.
\* False: two tasks may broadcast in the other order than they cloned.
NothingLost ==
  Idle => \A a \in Slow : snapshot[a] = tree[a]

\* What the proof of SnapshotCurrent needs: on one thread one task is at work,
\* a tree about to be broadcast is still the tree, and what the snapshot does
\* not show is flagged, or about to be cloned or broadcast.
Working == {"fold", "finish", "publish", "send"}

Clean(l) == at[l] = "wait" \/ (at[l] \in {"fold", "finish"} /\ ~slow[l])

Published ==
  /\ \A l, m \in Links : l # m => at[l] = "wait" \/ at[m] = "wait"
  /\ \A l \in Links : at[l] = "send" => \A a \in Slow : seen[l][a] = tree[a]
  /\ (\A l \in Links : Clean(l)) => \A a \in Slow : snapshot[a] = tree[a]

SInv ==
  /\ at \in [Links -> {"wait"} \union Working]
  /\ slow \in [Links -> BOOLEAN]
  /\ DOMAIN tree = Addresses /\ DOMAIN seen = Links
  /\ runtime = "current" => Published

\* What the proofs of Synced and CompletedMeansAll need.  The phases of the
\* dump: the guard, the task and the link agree on them.
Phases ==
  /\ dump.on = (over = "running") /\ guard.active = (over = "running")
  /\ ~guard.active => guard.touched = {}
  /\ over = "running" => link = "open"
  /\ link = "down" => wire["control"] = <<>> /\ ~asked /\ ~Writing
  /\ \A l \in Links : at[l] = "fold" <=> batch[l] # 0
  /\ dump.ends => dump.on /\ at["control"] \in {"fold", "finish"}
  /\ ~dump.on => dump.cut = 0
  /\ dump.on /\ ~dump.ends => dump.cut = batch["control"]
  /\ \A a \in Addresses : dev[a] <= changes

\* The runs that the device has written of this dump, and those of them that
\* run_control has not read.
EndsWritten == IF asked THEN 0 ELSE Cardinality({i \in 1 .. sent : Plan[i] = EndRun})
EndsAhead ==
  Cardinality({j \in batch["control"] + 1 .. Len(wire["control"]) :
                 wire["control"][j] = End})

\* No run is counted twice or missed, and a written dump ends with one.
Counts ==
  /\ ~asked /\ ~Writing =>
       \A j \in 1 .. Len(wire["control"]) : wire["control"][j].copy =>
         \E m \in 1 .. Len(wire["control"]) : m >= j /\ wire["control"][m] = End
  /\ dump.on /\ ~dump.ends =>
       dump.runs < DumpEndRuns /\ dump.runs + EndsAhead = EndsWritten
  /\ dump.ends =>
       /\ ~asked /\ ~Writing
       /\ \A j \in 1 .. Len(wire["control"]) :
            j > dump.cut => ~wire["control"][j].copy
  /\ CompletedMeansAll

\* Where a wire tells of a row, and where of a push of it.
Told(l, a)   == {j \in 1 .. Len(wire[l]) : wire[l][j].addr = a}
Pushed(l, a) == {j \in Told(l, a) : ~wire[l][j].copy}

\* None of these is the last word on a, unless it is the present one.
Followed(l, a, said) ==
  \A j \in said : \E m \in said : m >= j /\ wire[l][m].ver = dev[a]

\* The dump has yet to tell a.
ToCome(a) == asked \/ \E j \in sent + 1 .. Len(Plan) : Plan[j] = a

\* A row of the stream, whatever the control link says of it.
StreamRow(a) ==
  /\ Followed("stream", a, Told("stream", a))
  /\ Told("stream", a) = {} => tree[a] = dev[a]

\* A row of both.  While the dump is read and the stream has nothing to say of
\* it, one that was touched has its value, or gets it after the closing run;
\* one that was not has not changed since the trigger.
SharedWhileDumping(a) ==
  IF a \in guard.touched
  THEN \/ tree[a] = dev[a]
       \/ dump.ends /\ \E j \in Told("control", a) : j > dump.cut
  ELSE /\ \A j \in Told("control", a) : wire["control"][j].ver = dev[a]
       /\ Writing => asOf[a] = dev[a]
       /\ tree[a] = dev[a] \/ ToCome(a) \/ Told("control", a) # Pushed("control", a)

SharedRow(a) ==
  /\ Followed("stream", a, Told("stream", a))
  /\ Followed("control", a, Pushed("control", a))
  /\ Told("stream", a) = {} =>
       /\ over = "running" => SharedWhileDumping(a)
       /\ over = "marker" /\ link = "open" /\ Told("control", a) = {} =>
            tree[a] = dev[a]

\* A row of the control link that did not change while the dump was written.
ControlRow(a) ==
  /\ Told("stream", a) = {}
  /\ a \in guard.touched => dump.ends /\ dump.cut = 0
  /\ link = "open" /\ a \notin ramped =>
       /\ Followed("control", a, Told("control", a))
       /\ Writing => asOf[a] = dev[a]
       /\ Told("control", a) = {} => tree[a] = dev[a] \/ ToCome(a)

Row(a) ==
  /\ Wire[a] = "stream" => StreamRow(a)
  /\ Wire[a] = "both" => SharedRow(a)
  /\ Wire[a] = "control" => ControlRow(a)

RowsFollow == \A a \in Addresses : Row(a)

IInv == TypeOK /\ Phases /\ Counts /\ RowsFollow

=============================================================================
