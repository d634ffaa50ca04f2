----------------------------- MODULE Lifecycle ------------------------------
(***************************************************************************)
(* The lives of a model: the supervisor (model/supervisor.rs), the core's   *)
(* connection and channels (model/core.rs), and the tasks of each life: the *)
(* stream, the attempts at the control link, the loop that reopens it, the  *)
(* clock that retires the life.  Beside them the clients, who may ask for a *)
(* reopen, and close(), which ends it all.                                  *)
(*                                                                         *)
(* A task runs from one await to the next.  Each step here is one of the    *)
(* critical sections in between (a lock, or an atomic), and `MayRun` says   *)
(* who may take one: on a current_thread runtime nobody but the task that   *)
(* is in the middle of its run, on a multi-thread runtime anybody.  An      *)
(* abort takes effect at an await: the task is `cut`, and unwinds later,    *)
(* with its socket.                                                         *)
(***************************************************************************)
EXTENDS Naturals, Sequences, FiniteSets

CONSTANTS
  Options,     \* what connect may be given: .policy, ConnectOptions.control,
               \* and .recycle, whether ConnectOptions.recycle is set
  Reconnect,   \* ReconnectPolicy.stream is set
  Reopen,      \* ReconnectPolicy.control_reopen is set
  Threads,     \* a multi-thread runtime
  Clients,     \* who may call reopen_control
  MaxFaults,   \* bound on what the device or the clock does to a life
  MaxControls  \* bound on the control tasks alive or still referred to

ASSUME LifecycleAssumption ==
  /\ Options # {}
  /\ \/ Options \subseteq [policy : {"Off"}, recycle : BOOLEAN]
     \/ Options \subseteq [policy : {"BestEffort", "Required"}, recycle : BOOLEAN]
  /\ {Reconnect, Reopen, Threads} \subseteq BOOLEAN
  /\ MaxFaults \in Nat /\ MaxControls \in Nat \ {0}

\* Every fault ends at most one life, and close() turns the epoch once more.
Epochs   == 1 .. MaxFaults + 2
Controls == 1 .. MaxControls
Nobody   == 0    \* no such epoch, no such control task: Option::None

VARIABLES
  epoch,      \* Core.epoch
  closed,     \* Shared.closed
  tree,       \* DeviceState.connection and .channels
  life,       \* Shared.life: which tasks its handles belong to
  streams,    \* the stream task of each epoch
  controls,   \* the control tasks
  loops,      \* the reopen loop of each epoch
  clocks,     \* the age-out clock of each epoch
  ends,       \* the LifeEnd channel to the supervisor
  sup,        \* the supervisor and its options; to begin with, connect() itself
  closer,     \* close() or the last handle's drop
  clients,    \* the control task each reopen_control waits for
  attempted,  \* Shared.control_attempt: never, within the gap, or before it
  faults      \* how many faults have happened

core  == <<epoch, tree>>
tasks == <<streams, controls, loops, clocks>>
vars  == <<epoch, closed, tree, life, streams, controls, loops, clocks, ends,
           sup, closer, clients, attempted, faults>>

NoLife == [stream |-> Nobody, control |-> Nobody, loop |-> Nobody,
           clock |-> Nobody]
NoControl == [epoch |-> Nobody, at |-> "gone", say |-> "nothing",
              cut |-> FALSE, opened |-> "pending"]

ConnectionStates == {"Disconnected", "Reconnecting", "Connected", "Degraded"}
ChannelStates    == {"Closed", "Connecting", "Open", "Unavailable", "Lost"}

SupAwaits == {"recv", "backoff", "dial", "shake", "await", "undoAwait"}
SupRuns   == {"abort", "say", "connecting", "spawn", "opened", "control",
              "keep", "loop", "clock", "undo", "undoBump", "undoSay", "failed",
              "counting"}
ControlAwaits == {"spawned", "waiting", "dialing", "live"}
ControlRuns   == {"claiming", "saying", "writing"}

TypeOK ==
  /\ epoch \in Epochs /\ closed \in BOOLEAN
  /\ tree \in [conn : ConnectionStates, stream : ChannelStates,
               control : ChannelStates]
  /\ life \in [stream : Epochs \union {Nobody}, control : Controls \union {Nobody},
               loop : Epochs \union {Nobody}, clock : Epochs \union {Nobody}]
  /\ streams \in [Epochs -> {"none", "up", "cut", "gone"}]
  /\ controls \in [Controls ->
       [epoch : Epochs \union {Nobody}, at : ControlAwaits \union ControlRuns \union {"gone"},
        say : {"nothing", "Open", "Unavailable", "Lost"}, cut : BOOLEAN,
        opened : {"pending", "ok", "err"}]]
  /\ loops \in [Epochs -> [at : {"none", "on", "storing", "gone"},
                           task : Controls \union {Nobody}]]
  /\ clocks \in [Epochs -> {"none", "on", "gone"}]
  /\ ends \in Seq([how : {"Lost", "Aged"}, epoch : Epochs])
  /\ Len(ends) <= 2 * MaxFaults
  /\ sup \in [at : SupAwaits \union SupRuns \union {"gone"},
              mode : {"first", "swap", "retry"}, epoch : Epochs,
              task : Controls \union {Nobody}, cut : BOOLEAN, opts : Options]
  /\ closer \in [at : {"idle", "bump", "join", "say", "done"},
                 how : {"close", "drop"}, stream : Epochs \union {Nobody},
                 control : Controls \union {Nobody}]
  /\ clients \in [Clients -> Controls \union {Nobody}]
  /\ attempted \in {"never", "recent", "before"}
  /\ faults \in 0 .. MaxFaults

\* connect() has the stream's session in hand.
Init ==
  /\ epoch = 1 /\ closed = FALSE
  /\ tree = [conn |-> "Disconnected", stream |-> "Closed", control |-> "Closed"]
  /\ life = NoLife
  /\ streams = [e \in Epochs |-> "none"]
  /\ controls = [c \in Controls |-> NoControl]
  /\ loops = [e \in Epochs |-> [at |-> "none", task |-> Nobody]]
  /\ clocks = [e \in Epochs |-> "none"]
  /\ ends = <<>>
  /\ sup \in [at : {"spawn"}, mode : {"first"}, epoch : {1}, task : {Nobody},
              cut : {FALSE}, opts : Options]
  /\ closer = [at |-> "idle", how |-> "close", stream |-> Nobody,
               control |-> Nobody]
  /\ clients = [x \in Clients |-> Nobody]
  /\ attempted = "never" /\ faults = 0

-----------------------------------------------------------------------------
(***************************************************************************)
(* The executor.                                                            *)
(***************************************************************************)

\* Who is between two awaits.
Running ==
  (IF sup.at \in SupRuns THEN {<<"supervise">>} ELSE {})
    \union (IF closer.at \in {"bump", "say"} THEN {<<"close">>} ELSE {})
    \union {<<"control", c>> : c \in {d \in Controls : controls[d].at \in ControlRuns}}
    \union {<<"loop", e>> : e \in {f \in Epochs : loops[f].at = "storing"}}

MayRun(who) == Threads \/ Running \subseteq {who}

\* Every task that is ready has been polled.  What takes a network round trip
\* or a timer comes only then.
Quiet ==
  /\ Running = {}
  /\ \A e \in Epochs : streams[e] # "cut"
  /\ \A c \in Controls : controls[c].at = "gone" \/
       (controls[c].at # "spawned" /\ ~controls[c].cut)
  /\ sup.at = "gone" \/ (sup.at # "undoAwait" /\ ~sup.cut)
  /\ sup.at = "recv" => ends = <<>>
  /\ sup.at = "await" => controls[sup.task].opened = "pending"
  /\ closer.at # "join"
  /\ \A x \in Clients : clients[x] # Nobody => controls[clients[x]].opened = "pending"

Fault == faults < MaxFaults /\ faults' = faults + 1

-----------------------------------------------------------------------------
(***************************************************************************)
(* The core's tree (model/core.rs).                                         *)
(***************************************************************************)

\* connected_or_degraded.
Derived(t) ==
  IF sup.opts.policy # "Off" /\ t.control \in {"Unavailable", "Lost"}
    THEN "Degraded" ELSE "Connected"

\* Mutant: a move to Connecting derives the connection like any other.
MoveChannel_DerivesConnecting(t, channel, state) ==
  LET moved == [t EXCEPT ![channel] = state] IN
  IF t[channel] # state /\ t.conn \in {"Connected", "Degraded"}
    THEN [moved EXCEPT !.conn = Derived(moved)] ELSE moved

\* move_channel: a move to Connecting leaves the connection where it was.
MoveChannel(t, channel, state) ==
  LET moved == [t EXCEPT ![channel] = state] IN
  IF /\ t[channel] # state /\ state # "Connecting"
     /\ t.conn \in {"Connected", "Degraded"}
    THEN [moved EXCEPT !.conn = Derived(moved)] ELSE moved

\* set_channel drops what an earlier epoch says.
SetChannel(e, channel, state) ==
  tree' = IF e = epoch THEN MoveChannel(tree, channel, state) ELSE tree

\* end_life and closed: both channels down, the connection moved with them.
Ended(stream, conn) == [conn |-> conn, stream |-> stream, control |-> "Closed"]

-----------------------------------------------------------------------------
(***************************************************************************)
(* The handles of a life.                                                   *)
(***************************************************************************)

CutStream == [e \in Epochs |->
  IF e = life.stream /\ streams[e] = "up" THEN "cut" ELSE streams[e]]

CutControl == [c \in Controls |->
  IF c = life.control /\ controls[c].at # "gone"
    THEN [controls[c] EXCEPT !.cut = TRUE] ELSE controls[c]]

\* Mutant: the control task's handle is dropped without an abort.
AbortLinks_ForgetsControl ==
  /\ streams' = CutStream /\ UNCHANGED controls
  /\ loops' = [e \in Epochs |-> IF e = life.loop /\ loops[e].at = "on"
                 THEN [loops[e] EXCEPT !.at = "gone"] ELSE loops[e]]
  /\ clocks' = [e \in Epochs |-> IF e = life.clock THEN "gone" ELSE clocks[e]]
  /\ life' = NoLife

\* Mutant: the reopen loop's handle is dropped without an abort.
AbortLinks_ForgetsLoop ==
  /\ streams' = CutStream /\ controls' = CutControl /\ UNCHANGED loops
  /\ clocks' = [e \in Epochs |-> IF e = life.clock THEN "gone" ELSE clocks[e]]
  /\ life' = NoLife

\* Life::abort_links; close() aborts the same tasks one by one.
AbortLinks ==
  /\ streams' = CutStream /\ controls' = CutControl
  /\ loops' = [e \in Epochs |-> IF e = life.loop /\ loops[e].at = "on"
                 THEN [loops[e] EXCEPT !.at = "gone"] ELSE loops[e]]
  /\ clocks' = [e \in Epochs |-> IF e = life.clock THEN "gone" ELSE clocks[e]]
  /\ life' = NoLife

\* A control task nobody refers to any more may lend its place to a new one.
Referred ==
  {life.control, sup.task, closer.control} \union {clients[x] : x \in Clients}
    \union {loops[e].task : e \in Epochs}
Free    == {c \in Controls : controls[c].at = "gone" /\ c \notin Referred}
NewTask == CHOOSE c \in Free : \A d \in Free : c <= d

\* spawn_control.
SpawnControl(c, e) ==
  /\ Free # {} /\ c = NewTask
  /\ controls' = [controls EXCEPT ![c] =
       [NoControl EXCEPT !.epoch = e, !.at = "spawned"]]

\* A control task is over.  The one-shot it opened with has resolved, or has
\* been dropped, which its receivers take for Ok.
Finished(opened) == [NoControl EXCEPT !.opened = opened]

-----------------------------------------------------------------------------
(***************************************************************************)
(* The supervisor: the end of a life.                                       *)
(***************************************************************************)

SupGoes(from, to) ==
  /\ MayRun(<<"supervise">>)
  /\ sup.at = from /\ sup' = [sup EXCEPT !.at = to]

\* An aborted task runs no further than its next await.
SupWakes(from, to) == SupGoes(from, to) /\ ~sup.cut

\* Mutant: any LifeEnd is taken for the current life's.
EndsTheCurrent_Any(end) == end.epoch \in Epochs

EndsTheCurrent(end) == end.epoch = epoch

\* A second report of a life that is over already is dropped.
RecvStale ==
  /\ ~closed /\ ends # <<>> /\ ~EndsTheCurrent(Head(ends))
  /\ SupWakes("recv", "recv")
  /\ ends' = Tail(ends)
  /\ UNCHANGED <<core, tasks, closed, life, closer, clients, attempted, faults>>

RecvEnd ==
  /\ ~closed /\ ends # <<>> /\ EndsTheCurrent(Head(ends))
  /\ MayRun(<<"supervise">>) /\ sup.at = "recv" /\ ~sup.cut
  /\ sup' = [sup EXCEPT !.at = "abort",
                        !.mode = IF Head(ends).how = "Aged" THEN "swap" ELSE "retry"]
  /\ ends' = Tail(ends)
  /\ epoch' = epoch + 1
  /\ UNCHANGED <<tasks, tree, closed, life, closer, clients, attempted, faults>>

AbortLife ==
  /\ SupGoes("abort", "say")
  /\ AbortLinks
  /\ UNCHANGED <<core, closed, ends, closer, clients, attempted, faults>>

\* session_recycled, and the dial that follows at once.
SayRecycled ==
  /\ sup.mode = "swap" /\ SupGoes("say", "connecting")
  /\ tree' = Ended("Closed", "Reconnecting")
  /\ UNCHANGED <<tasks, epoch, closed, life, ends, closer, clients, attempted, faults>>

\* Mutant: a swap that fails gives up although there is a backoff.
AfterFailure_SwapGivesUp ==
  IF Reconnect /\ sup.mode = "retry" THEN "backoff" ELSE "gone"

\* A stream that is lost, or cannot be dialed, is dialed again after a backoff,
\* if there is one.
AfterFailure == IF Reconnect THEN "backoff" ELSE "gone"

FailureSays == IF Reconnect THEN "Reconnecting" ELSE "Disconnected"

\* stream_lost.
SayLost ==
  /\ sup.mode = "retry"
  /\ SupGoes("say", AfterFailure)
  /\ tree' = Ended("Lost", FailureSays)
  /\ UNCHANGED <<tasks, epoch, closed, life, ends, closer, clients, attempted, faults>>

-----------------------------------------------------------------------------
(***************************************************************************)
(* The supervisor: dialing the stream.                                      *)
(***************************************************************************)

BackoffElapses ==
  /\ Quiet /\ ~closed
  /\ SupWakes("backoff", "connecting")
  /\ UNCHANGED <<core, tasks, closed, life, ends, closer, clients, attempted, faults>>

SayConnecting ==
  /\ MayRun(<<"supervise">>) /\ sup.at = "connecting"
  /\ sup' = [sup EXCEPT !.at = "dial", !.epoch = epoch]
  /\ SetChannel(epoch, "stream", "Connecting")
  /\ UNCHANGED <<tasks, epoch, closed, life, ends, closer, clients, attempted, faults>>

\* The ledger lets the dial go.  A lost stream closed a moment ago, and the
\* cooldown outlasts the unwinding of its life.  A swap has closed nothing yet:
\* the old life opened its sockets long ago, so nothing holds the dial up,
\* unless another dial has the peer's turn.
DialGoes ==
  /\ Quiet \/ (sup.mode = "swap" /\ \A c \in Controls : controls[c].at # "dialing")
  /\ SupWakes("dial", "shake")
  /\ UNCHANGED <<core, tasks, closed, life, ends, closer, clients, attempted, faults>>

\* Refused, timed out, or failed in the handshake.
DialFails ==
  /\ Quiet /\ Fault
  /\ SupWakes("dial", "failed") \/ SupWakes("shake", "failed")
  /\ UNCHANGED <<core, tasks, closed, life, ends, closer, clients, attempted>>

HandshakeDone ==
  /\ Quiet
  /\ SupWakes("shake", "spawn")
  /\ UNCHANGED <<core, tasks, closed, life, ends, closer, clients, attempted, faults>>

\* set_channel: stale if start_life has turned the epoch.
SayUnavailable ==
  /\ SupGoes("failed", "counting")
  /\ SetChannel(sup.epoch, "stream", "Unavailable")
  /\ UNCHANGED <<tasks, epoch, closed, life, ends, closer, clients, attempted, faults>>

\* set_connection, a write of its own: the next attempt's number, or no more.
SayFailure ==
  /\ MayRun(<<"supervise">>) /\ sup.at = "counting"
  /\ sup' = [sup EXCEPT !.at = AfterFailure, !.mode = "retry"]
  /\ tree' = [tree EXCEPT !.conn = FailureSays]
  /\ UNCHANGED <<tasks, epoch, closed, life, ends, closer, clients, attempted, faults>>

-----------------------------------------------------------------------------
(***************************************************************************)
(* start_life, in connect() as in the supervisor.                           *)
(***************************************************************************)

SpawnStream ==
  /\ SupGoes("spawn", "opened")
  /\ streams' = [streams EXCEPT ![sup.epoch] = "up"]
  /\ life' = [life EXCEPT !.stream = sup.epoch]
  /\ UNCHANGED <<core, controls, loops, clocks, closed, ends, closer, clients,
                 attempted, faults>>

\* stream_opened.
SayOpened ==
  /\ SupGoes("opened", IF sup.opts.policy = "Off" THEN "clock" ELSE "control")
  /\ LET t == [tree EXCEPT !.stream = "Open"] IN
     tree' = IF sup.epoch = epoch THEN [t EXCEPT !.conn = Derived(t)] ELSE tree
  /\ UNCHANGED <<tasks, epoch, closed, life, ends, closer, clients, attempted, faults>>

StartControl ==
  /\ MayRun(<<"supervise">>) /\ sup.at = "control"
  /\ SpawnControl(NewTask, sup.epoch)
  /\ sup' = [sup EXCEPT !.at = IF sup.opts.policy = "Required" THEN "await" ELSE "keep",
                        !.task = NewTask]
  /\ UNCHANGED <<core, streams, loops, clocks, closed, life, ends, closer,
                 clients, attempted, faults>>

\* Required: the link is open, or another attempt has it, or it failed.
ControlOpened ==
  /\ SupWakes("await", "keep")
  /\ controls[sup.task].opened = "ok"
  /\ UNCHANGED <<core, tasks, closed, life, ends, closer, clients, attempted, faults>>

ControlFailed ==
  /\ SupWakes("await", "undo")
  /\ controls[sup.task].opened = "err"
  /\ UNCHANGED <<core, tasks, closed, life, ends, closer, clients, attempted, faults>>

KeepControl ==
  /\ MayRun(<<"supervise">>) /\ sup.at = "keep"
  /\ life' = [life EXCEPT !.control = sup.task]
  /\ sup' = [sup EXCEPT !.at = IF Reopen THEN "loop" ELSE "clock", !.task = Nobody]
  /\ UNCHANGED <<core, tasks, closed, ends, closer, clients, attempted, faults>>

StartLoop ==
  /\ SupGoes("loop", "clock")
  /\ loops' = [loops EXCEPT ![sup.epoch].at = "on"]
  /\ life' = [life EXCEPT !.loop = sup.epoch]
  /\ UNCHANGED <<core, streams, controls, clocks, closed, ends, closer, clients,
                 attempted, faults>>

\* The clock is started last; the life is up.
StartClock ==
  /\ MayRun(<<"supervise">>) /\ sup.at = "clock"
  /\ sup' = [sup EXCEPT !.at = "recv", !.mode = "retry"]
  /\ \/ /\ sup.opts.recycle
        /\ clocks' = [clocks EXCEPT ![sup.epoch] = "on"]
        /\ life' = [life EXCEPT !.clock = sup.epoch]
     \/ ~sup.opts.recycle /\ UNCHANGED <<clocks, life>>
  /\ UNCHANGED <<core, streams, controls, loops, closed, ends, closer, clients,
                 attempted, faults>>

\* The control link was Required and failed: the half-up life ends again.
UndoAbort ==
  /\ MayRun(<<"supervise">>) /\ sup.at = "undo"
  /\ sup' = [sup EXCEPT !.at = "undoAwait", !.task = Nobody]
  /\ AbortLinks
  /\ UNCHANGED <<core, closed, ends, closer, clients, attempted, faults>>

UndoJoined ==
  /\ streams[sup.epoch] = "gone"
  /\ SupWakes("undoAwait", "undoBump")
  /\ UNCHANGED <<core, tasks, closed, life, ends, closer, clients, attempted, faults>>

UndoBump ==
  /\ SupGoes("undoBump", "undoSay")
  /\ epoch' = epoch + 1
  /\ UNCHANGED <<tasks, tree, closed, life, ends, closer, clients, attempted, faults>>

\* stream_lost(on_failure); connect() returns the error.
UndoSay ==
  /\ SupGoes("undoSay", IF sup.mode = "first" THEN "gone" ELSE "failed")
  /\ tree' = Ended("Lost", IF sup.mode = "retry" THEN "Reconnecting" ELSE "Disconnected")
  /\ UNCHANGED <<tasks, epoch, closed, life, ends, closer, clients, attempted, faults>>

\* The abort arrives at an await.  What the supervisor owned goes with it: a
\* session in the middle of its handshake, a handle to a control task.
SupUnwinds ==
  /\ MayRun(<<"supervise">>)
  /\ sup.cut /\ sup.at \in SupAwaits
  /\ sup' = [sup EXCEPT !.at = "gone", !.task = Nobody]
  /\ UNCHANGED <<core, tasks, closed, life, ends, closer, clients, attempted, faults>>

-----------------------------------------------------------------------------
(***************************************************************************)
(* The stream task (model/links.rs) and the clock of a life.                *)
(***************************************************************************)

\* run_stream returns, the session drops, and the loss is sent.  A task cut in
\* the middle of its run still gets there.
StreamEnds(e) ==
  /\ MayRun(<<"stream", e>>) /\ Fault
  /\ streams[e] = "up" \/ (Threads /\ streams[e] = "cut")
  /\ streams' = [streams EXCEPT ![e] = "gone"]
  /\ ends' = Append(ends, [how |-> "Lost", epoch |-> e])
  /\ UNCHANGED <<core, controls, loops, clocks, closed, life, sup, closer,
                 clients, attempted>>

StreamUnwinds(e) ==
  /\ MayRun(<<"stream", e>>) /\ streams[e] = "cut"
  /\ streams' = [streams EXCEPT ![e] = "gone"]
  /\ UNCHANGED <<core, controls, loops, clocks, closed, life, ends, sup, closer,
                 clients, attempted, faults>>

\* age_out.
Ages(e) ==
  /\ MayRun(<<"age", e>>) /\ Fault
  /\ clocks[e] = "on"
  /\ clocks' = [clocks EXCEPT ![e] = "gone"]
  /\ ends' = IF closed THEN ends ELSE Append(ends, [how |-> "Aged", epoch |-> e])
  /\ UNCHANGED <<core, streams, controls, loops, closed, life, sup, closer,
                 clients, attempted>>

-----------------------------------------------------------------------------
(***************************************************************************)
(* A control task (run_control).                                            *)
(***************************************************************************)

ControlStep(c, from) ==
  /\ MayRun(<<"control", c>>) /\ controls[c].at = from
  /\ UNCHANGED <<epoch, streams, loops, clocks, closed, life, ends, sup, closer,
                 clients>>

ControlWakes(c, from) == ControlStep(c, from) /\ ~controls[c].cut

ControlGoes(c, to) == controls' = [controls EXCEPT ![c].at = to]

ControlSays(c, what) ==
  controls' = [controls EXCEPT ![c].at = "saying", ![c].say = what]

\* claim_control reads the epoch; a stale task is told its link is being opened.
ControlStarts(c) ==
  /\ ControlWakes(c, "spawned")
  /\ IF controls[c].epoch = epoch
       THEN ControlGoes(c, "claiming")
       ELSE controls' = [controls EXCEPT ![c] = Finished("ok")]
  /\ UNCHANGED <<tree, attempted, faults>>

\* Mutant: the claim does not look at who has the link.
LinkTaken_Never == tree.control \in {"Connecting"} \ {tree.control}

LinkTaken == tree.control \in {"Connecting", "Open"}

\* The claim itself, under the lock, and the stamp of the attempt.
ControlClaims(c) ==
  /\ ControlStep(c, "claiming")
  /\ \/ /\ LinkTaken
        /\ controls' = [controls EXCEPT ![c] = Finished("ok")]
        /\ UNCHANGED <<tree, attempted>>
     \/ /\ ~LinkTaken
        /\ tree' = MoveChannel(tree, "control", "Connecting")
        /\ attempted' = "recent"
        /\ ControlGoes(c, "waiting")
  /\ UNCHANGED faults

\* The ledger lets the dial go.
ControlDials(c) ==
  /\ ControlWakes(c, "waiting")
  /\ ControlGoes(c, "dialing")
  /\ UNCHANGED <<tree, attempted, faults>>

ControlRefused(c) ==
  /\ Quiet /\ Fault
  /\ ControlWakes(c, "waiting") \/ ControlWakes(c, "dialing")
  /\ ControlSays(c, "Unavailable")
  /\ UNCHANGED <<tree, attempted>>

ControlOpens(c) ==
  /\ Quiet
  /\ ControlWakes(c, "dialing")
  /\ ControlSays(c, "Open")
  /\ UNCHANGED <<tree, attempted, faults>>

\* The device ends the link.
ControlEnds(c) ==
  /\ Fault
  /\ ControlWakes(c, "live")
  /\ ControlSays(c, "Lost")
  /\ UNCHANGED <<tree, attempted>>

\* What follows set_channel: an open link is read, any other is over.
AfterSaying(c) ==
  controls' = [controls EXCEPT ![c] =
    CASE @.say = "Open"        -> [@ EXCEPT !.at = "live", !.say = "nothing",
                                            !.opened = "ok"]
      [] @.say = "Unavailable" -> Finished("err")
      [] @.say = "Lost"        -> Finished("ok")]

\* Mutant: set_channel does not check the epoch.
StillCurrent_Always(c) == controls[c].epoch \in Epochs

StillCurrent(c) == controls[c].epoch = epoch

\* set_channel reads the epoch, and then takes the lock.
ControlChecks(c) ==
  /\ ControlStep(c, "saying")
  /\ IF StillCurrent(c) THEN ControlGoes(c, "writing") ELSE AfterSaying(c)
  /\ UNCHANGED <<tree, attempted, faults>>

ControlWrites(c) ==
  /\ ControlStep(c, "writing")
  /\ tree' = MoveChannel(tree, "control", controls[c].say)
  /\ AfterSaying(c)
  /\ UNCHANGED <<attempted, faults>>

ControlUnwinds(c) ==
  /\ controls[c].cut
  /\ \E at \in ControlAwaits : ControlStep(c, at)
  /\ controls' = [controls EXCEPT ![c] = Finished("ok")]
  /\ UNCHANGED <<tree, attempted, faults>>

-----------------------------------------------------------------------------
(***************************************************************************)
(* Reopening the control link: the loop of a life, and reopen_control.      *)
(***************************************************************************)

\* The reopen gap.  Every attempt is over, one way or the other, well before.
GapPasses ==
  /\ Quiet
  /\ attempted = "recent" /\ attempted' = "before"
  /\ \A c \in Controls : controls[c].at \notin {"waiting", "dialing"}
  /\ UNCHANGED <<core, tasks, closed, life, ends, sup, closer, clients, faults>>

\* Mutant: the gap is forgotten.
Due_Always == attempted \in {"never", "recent", "before"}

Due == attempted # "recent"

\* Mutant: a link that was lost is not reopened.
ControlDown_OnlyUnavailable == tree.control = "Unavailable"

ControlDown == tree.control \in {"Unavailable", "Lost"}

\* One tick of reopen_loop.
LoopTicks(e) ==
  /\ Quiet /\ loops[e].at = "on"
  /\ IF epoch = e /\ tree.stream = "Open"
       THEN /\ ControlDown /\ Due
            /\ SpawnControl(NewTask, e)
            /\ loops' = [loops EXCEPT ![e] = [at |-> "storing", task |-> NewTask]]
       ELSE /\ loops' = [loops EXCEPT ![e].at = "gone"]
            /\ UNCHANGED controls
  /\ UNCHANGED <<core, streams, clocks, closed, life, ends, sup, closer,
                 clients, attempted, faults>>

LoopKeeps(e) ==
  /\ MayRun(<<"loop", e>>) /\ loops[e].at = "storing"
  /\ life' = [life EXCEPT !.control = loops[e].task]
  /\ loops' = [loops EXCEPT ![e] = [at |-> "on", task |-> Nobody]]
  /\ UNCHANGED <<core, streams, controls, clocks, closed, ends, sup, closer,
                 clients, attempted, faults>>

\* reopen_control: the checks, and the spawn.
ClientReopens(x) ==
  /\ MayRun(<<"client", x>>)
  /\ sup.opts.policy # "Off" /\ sup.mode # "first" /\ clients[x] = Nobody
  /\ ~closed /\ tree.stream = "Open"
  /\ ~LinkTaken /\ Due
  /\ SpawnControl(NewTask, epoch)
  /\ clients' = [clients EXCEPT ![x] = NewTask]
  /\ UNCHANGED <<core, streams, loops, clocks, closed, life, ends, sup, closer,
                 attempted, faults>>

\* The attempt has opened, failed or ended: only now is its handle stored.
ClientKeeps(x) ==
  /\ MayRun(<<"client", x>>)
  /\ clients[x] # Nobody /\ controls[clients[x]].opened # "pending"
  /\ life' = [life EXCEPT !.control = clients[x]]
  /\ clients' = [clients EXCEPT ![x] = Nobody]
  /\ UNCHANGED <<core, tasks, closed, ends, sup, closer, attempted, faults>>

-----------------------------------------------------------------------------
(***************************************************************************)
(* close() and the last handle's drop.                                      *)
(***************************************************************************)

\* Mutant: close() does not look whether it has run.
FirstClose_Unchecked == closed \in BOOLEAN

\* The swap of Shared.closed.
FirstClose == ~closed

\* The last handle cannot go while a call still borrows it.
CloseTakes(how) ==
  /\ MayRun(<<"close">>) /\ FirstClose /\ sup.mode # "first"
  /\ how = "drop" => \A x \in Clients : clients[x] = Nobody
  /\ closed' = TRUE
  /\ sup' = [sup EXCEPT !.cut = sup.at # "gone"]
  /\ AbortLinks
  /\ closer' = [at |-> "bump", how |-> how, stream |-> life.stream,
                control |-> life.control]
  /\ UNCHANGED <<core, ends, clients, attempted, faults>>

CloseBumps ==
  /\ closer.at = "bump" /\ MayRun(<<"close">>)
  /\ epoch' = epoch + 1
  /\ closer' = [closer EXCEPT !.at = IF closer.how = "close" THEN "join" ELSE "say"]
  /\ UNCHANGED <<tasks, tree, closed, life, ends, sup, clients, attempted, faults>>

\* close() waits for the tasks whose handles it took.
CloseJoins ==
  /\ closer.at = "join" /\ MayRun(<<"close">>)
  /\ closer.stream # Nobody => streams[closer.stream] = "gone"
  /\ closer.control # Nobody => controls[closer.control].at = "gone"
  /\ closer' = [closer EXCEPT !.at = "say"]
  /\ UNCHANGED <<core, tasks, closed, life, ends, sup, clients, attempted, faults>>

\* Core::closed.
CloseSays ==
  /\ closer.at = "say" /\ MayRun(<<"close">>)
  /\ tree' = Ended("Closed", "Disconnected")
  /\ closer' = [closer EXCEPT !.at = "done", !.stream = Nobody, !.control = Nobody]
  /\ UNCHANGED <<tasks, epoch, closed, life, ends, sup, clients, attempted, faults>>

-----------------------------------------------------------------------------
Supervise ==
  \/ RecvStale \/ RecvEnd \/ AbortLife \/ SayRecycled \/ SayLost
  \/ BackoffElapses \/ SayConnecting \/ DialGoes \/ DialFails \/ HandshakeDone
  \/ SayUnavailable \/ SayFailure
  \/ SpawnStream \/ SayOpened \/ StartControl \/ ControlOpened \/ ControlFailed
  \/ KeepControl \/ StartLoop \/ StartClock
  \/ UndoAbort \/ UndoJoined \/ UndoBump \/ UndoSay
  \/ SupUnwinds

RunControl(c) ==
  \/ ControlStarts(c) \/ ControlClaims(c) \/ ControlDials(c) \/ ControlRefused(c)
  \/ ControlOpens(c) \/ ControlChecks(c) \/ ControlWrites(c) \/ ControlUnwinds(c)

RunLoop(e) == LoopTicks(e) \/ LoopKeeps(e)

CloseStep == CloseBumps \/ CloseJoins \/ CloseSays

Next ==
  \/ Supervise
  \/ \E e \in Epochs : StreamEnds(e) \/ StreamUnwinds(e) \/ Ages(e) \/ RunLoop(e)
  \/ \E c \in Controls : RunControl(c) \/ ControlEnds(c)
  \/ GapPasses
  \/ \E x \in Clients : ClientReopens(x) \/ ClientKeeps(x)
  \/ \E how \in {"close", "drop"} : CloseTakes(how)
  \/ CloseStep

(***************************************************************************)
(* Tokio polls what is ready, a timer goes off, a dial ends (every wait in  *)
(* it has a timeout).  Nothing obliges a life to end, a client to call, or  *)
(* anyone to close.                                                         *)
(***************************************************************************)
Fairness ==
  /\ WF_vars(Supervise)
  /\ \A e \in Epochs : WF_vars(StreamUnwinds(e)) /\ WF_vars(RunLoop(e))
  /\ \A c \in Controls : WF_vars(RunControl(c))
  /\ \A x \in Clients : WF_vars(ClientKeeps(x))
  /\ WF_vars(GapPasses)
  /\ WF_vars(CloseStep)

Spec == Init /\ [][Next]_vars /\ Fairness

-----------------------------------------------------------------------------
(***************************************************************************)
(* Properties.                                                              *)
(***************************************************************************)

\* All options want a control link, or none does.
LinkWanted == \A o \in Options : o.policy # "Off"

\* What subscribers see of the tree is what they are promised: every step of
\* every task makes one of the moves of Connection, or none.
Promised == INSTANCE Connection WITH
  Wanted  <- LinkWanted,
  Retries <- Reconnect,
  Swaps   <- \E o \in Options : o.recycle,
  conn    <- tree.conn,
  stream  <- tree.stream,
  control <- tree.control,
  over    <- closer.at = "done" \/ (sup.mode = "first" /\ sup.at = "gone")

KeepsThePromise == Promised!Spec

Holders == {c \in Controls :
  /\ controls[c].epoch = epoch
  /\ controls[c].at \in {"waiting", "dialing", "saying", "writing", "live"}}

\* While the stream is open, the tree says Connecting or Open of the control
\* link exactly while one task of this life is at it.  A claim nobody holds
\* would keep every later attempt out; two holders would be a third socket.
ClaimHeld ==
  tree.stream = "Open" /\ ~closed /\ sup.at \in SupAwaits =>
    IF tree.control \in {"Connecting", "Open"}
      THEN Cardinality(Holders) = 1
      ELSE \A c \in Holders : controls[c].say \in {"Unavailable", "Lost"}

\* A life is ended only by what happened to that life: its own stream ended,
\* or its own clock went off, and not by a report of the one before.
EndsItsOwnLife ==
  [][sup.at = "recv" /\ sup'.at = "abort" =>
       streams[epoch] = "gone" \/ clocks[epoch] = "gone"]_vars

\* Within a life the control link is never redialed inside the reopen gap,
\* though the loop and the clients each look at the clock for themselves.
ReopensPaced ==
  [][tree.control \in {"Unavailable", "Lost"} /\ tree'.control = "Connecting"
       => attempted # "recent"]_vars

Holding(c) ==
  \/ controls[c].at \in {"dialing", "live"}
  \/ controls[c].at \in {"saying", "writing"} /\ controls[c].say # "Unavailable"

\* The sockets to the device, by whoever owns them.
Sockets ==
  (IF sup.at \in {"shake", "spawn"} THEN {<<"session", sup.epoch>>} ELSE {})
    \union {<<"stream", e>> : e \in {f \in Epochs : streams[f] \in {"up", "cut"}}}
    \union {<<"control", c>> : c \in {d \in Controls : Holding(d)}}

\* The model never has a third socket open, unless it is retiring a session:
\* the new stream is then dialed in the step that aborts the old life, before
\* its tasks have unwound and their closes are in the ledger.
NeverAThird == sup.mode # "swap" => Cardinality(Sockets) <= 2

\* Once a life is up, and everyone has been polled, nothing of an earlier life
\* is left: no socket, no attempt, no loop, no clock.
OldLifeGone ==
  sup.at = "recv" /\ Quiet =>
    /\ \A e \in Epochs : e # epoch =>
         /\ streams[e] \in {"none", "gone"}
         /\ loops[e].at \in {"none", "gone"}
         /\ clocks[e] \in {"none", "gone"}
    /\ \A c \in Controls : controls[c].at # "gone" => controls[c].epoch = epoch

\* Once the device has stopped failing, a model with a backoff has its stream
\* again, unless it is closed.
Reconnects ==
  Reconnect => (~closed /\ sup.mode # "first") ~> (tree.stream = "Open" \/ closed)

\* Once the device has stopped failing, a control link that is down is open
\* again, if it is to be reopened, or the life is over.
ControlReopens ==
  Reopen /\ LinkWanted =>
    \A e \in Epochs :
      (epoch = e /\ tree.stream = "Open" /\ tree.control \in {"Unavailable", "Lost"})
        ~> (epoch # e \/ tree.stream # "Open" \/ tree.control = "Open")

AllEnded ==
  /\ Sockets = {} /\ sup.at = "gone"
  /\ \A c \in Controls : controls[c].at = "gone"
  /\ \A e \in Epochs : loops[e].at \in {"none", "gone"}

\* Everything ends some time after close(), every task and every socket.
ClosedEndsAll == closed ~> AllEnded

\* What the proofs need, on any runtime.  Nothing has begun in an epoch that is
\* still to come, or whose stream is still to be spawned; and a report of an end
\* is a report of something that is over.
Fresh(e) == streams[e] = "none" /\ clocks[e] = "none"

Ahead ==
  /\ closed = (closer.at # "idle") /\ (sup.cut => closed)
  /\ closed => (sup.cut \/ sup.at = "gone") /\ sup.mode # "first"
  /\ sup.epoch <= epoch
  /\ \A e \in Epochs : e > epoch => Fresh(e) /\ loops[e].at = "none"
  /\ \A c \in Controls : controls[c].epoch <= epoch
  /\ life.clock # Nobody => clocks[life.clock] # "none"
  /\ sup.at \in {"abort", "say", "backoff", "connecting", "dial", "shake", "spawn",
                 "failed", "counting", "undoSay"} => Fresh(epoch)
  /\ sup.at \in {"dial", "shake", "spawn"} => Fresh(sup.epoch)
  /\ sup.at \in {"opened", "control", "await", "keep", "loop", "clock"} =>
       clocks[sup.epoch] = "none"
  /\ \A c \in Controls :
       controls[c].at \in {"saying", "writing"} <=> controls[c].say # "nothing"
  /\ sup.at = "await" => sup.task # Nobody

Reported ==
  \A i \in 1 .. Len(ends) :
    /\ ends[i].epoch <= epoch
    /\ ends[i].how = "Lost" => streams[ends[i].epoch] = "gone"
    /\ ends[i].how = "Aged" => clocks[ends[i].epoch] = "gone"

\* The epoch turns for a fault, or for close(): a fault that has yet to turn it
\* is on its way.
Pending ==
  \/ \E i \in 1 .. Len(ends) : ends[i].epoch = epoch
  \/ sup.at \in {"undo", "undoAwait", "undoBump"}
  \/ /\ sup.at = "await" /\ ~sup.cut
     /\ controls[sup.task].say = "Unavailable" \/ controls[sup.task].opened = "err"

Turns ==
  /\ Len(ends) <= faults
  /\ epoch + (IF Pending THEN 1 ELSE 0)
       <= 1 + faults + (IF closer.at \in {"join", "say", "done"} THEN 1 ELSE 0)

GInv == TypeOK /\ Ahead /\ Reported /\ Turns

\* On one thread.  Where the supervisor is, and what the tree says.
Up == {"control", "await", "keep", "loop", "clock", "recv", "abort", "say", "undo",
       "undoAwait", "undoBump", "undoSay"}

Phases ==
  /\ closed => sup.at \in SupAwaits \union {"gone"}
  /\ ~closed =>
       /\ sup.at \in {"backoff", "connecting"} =>
            /\ tree.conn = "Reconnecting" /\ tree.stream \in {"Closed", "Lost", "Unavailable"}
            /\ Reconnect \/ tree.stream = "Closed"
       /\ sup.at \in {"dial", "shake"} =>
            tree.conn = "Reconnecting" /\ tree.stream = "Connecting"
       /\ sup.at \in {"spawn", "opened"} =>
            IF sup.mode = "first"
              THEN tree.conn = "Disconnected" /\ tree.stream = "Closed"
              ELSE tree.conn = "Reconnecting" /\ tree.stream = "Connecting"
       /\ sup.at \in Up <=> tree.stream = "Open"
       /\ sup.at \in {"failed", "counting"} =>
            IF sup.epoch = epoch
              THEN /\ tree.conn = "Reconnecting"
                   /\ tree.stream = IF sup.at = "failed" THEN "Connecting" ELSE "Unavailable"
              ELSE tree.stream = "Lost" /\ sup.opts.policy = "Required" /\
                   (\/ tree.conn = FailureSays
                    \/ sup.mode = "swap" /\ tree.conn = "Disconnected")
       /\ sup.at \in {"dial", "shake", "spawn", "opened", "recv", "undo", "undoAwait",
                      "undoBump"} \union {"control", "await", "keep", "loop", "clock"} =>
            sup.epoch = epoch
       /\ sup.at = "undoSay" => sup.epoch # epoch
  /\ sup.mode = "first" =>
       sup.at \in {"spawn", "opened", "undo", "undoAwait", "undoBump", "undoSay", "gone"}
         \union {"control", "await", "keep", "loop", "clock"}
  /\ sup.mode = "retry" /\ sup.at \notin {"recv", "abort", "say", "gone"} => Reconnect
  /\ sup.at \in {"recv", "backoff"} => sup.mode = "retry"
  /\ sup.at \in {"undo", "undoAwait", "undoBump", "undoSay", "await"} =>
       sup.opts.policy = "Required"
  /\ sup.mode = "swap" => sup.opts.recycle
  /\ \A e \in Epochs : clocks[e] = "on" => sup.opts.recycle
  /\ \A i \in 1 .. Len(ends) : ends[i].how = "Aged" => sup.opts.recycle

\* The connection summarises the channels.
Summary ==
  IF tree.stream = "Open"
    THEN CASE tree.control \in {"Unavailable", "Lost"} -> tree.conn = "Degraded"
           [] tree.control \in {"Closed", "Open"}      -> tree.conn = "Connected"
           [] tree.control = "Connecting" -> tree.conn \in {"Connected", "Degraded"}
    ELSE tree.control = "Closed" /\ tree.conn \in {"Disconnected", "Reconnecting"}

\* The control tasks of the current life: those that have yet to claim the link,
\* and those that have it.
Ours(c)   == controls[c].epoch = epoch /\ controls[c].at # "gone"
New(c)    == Ours(c) /\ controls[c].at \in {"spawned", "claiming"}
Holder(c) == Ours(c) /\ controls[c].at \in {"waiting", "dialing", "saying", "writing", "live"}

Tasks ==
  /\ \A c \in Controls : Ours(c) =>
       /\ sup.opts.policy # "Off" /\ tree.stream = "Open"
       /\ sup.at \notin {"control", "abort", "say", "undoSay"}
       /\ closer.at \in {"idle", "bump"}
       /\ controls[c].cut => closed
  /\ \A c \in Controls : controls[c].at \in {"claiming", "writing"} => Ours(c) /\ ~closed
  /\ sup.at = "control" => sup.opts.policy # "Off" /\ tree.control = "Closed"
  /\ closer.at \in {"join", "say", "done"} => loops[epoch].at = "none"
  /\ tree.control # "Closed" => sup.opts.policy # "Off"

Claims ==
  ~closed =>
    /\ \A c, d \in Controls : Holder(c) /\ Holder(d) => c = d
    /\ \A c \in Controls : Holder(c) =>
         /\ tree.control = IF controls[c].at = "live" \/ controls[c].say = "Lost"
                           THEN "Open" ELSE "Connecting"
         /\ controls[c].at \in {"waiting", "dialing"} \/ controls[c].say = "Unavailable" =>
              attempted = "recent"
         /\ controls[c].at \in {"saying", "writing", "live"} =>
              \A d \in Controls : ~New(d)
    /\ tree.control \in {"Connecting", "Open"} /\ sup.at \notin {"abort", "say"} =>
         \E c \in Controls : Holder(c)
    /\ tree.control \in {"Unavailable", "Lost"} /\ attempted = "recent" =>
         \A c \in Controls : ~New(c)
    /\ \/ sup.at \in {"undo", "undoAwait", "undoBump", "undoSay"}
       \/ sup.at = "await" /\ controls[sup.task].opened = "err"
       => tree.control = "Unavailable" /\ attempted = "recent"
    /\ sup.at = "await" /\ controls[sup.task].at # "gone" => controls[sup.task].epoch = epoch

CInv == GInv /\ Phases /\ Summary /\ Tasks /\ Claims

\* On one thread, and where no client reopens the link.  The tasks there are, and
\* who may still abort them.
Alive(c)  == controls[c].at # "gone"
Linked(e) == streams[e] \in {"up", "cut"}

\* The handles of a life are stored one after the other, and given up together.
Stored ==
  /\ {life.stream, life.loop} \subseteq {Nobody, sup.epoch}
  /\ closed => life = NoLife
  /\ sup.at \in {"say", "backoff", "connecting", "dial", "shake", "spawn", "failed",
                 "counting", "undoAwait", "undoBump", "undoSay", "gone"} => life = NoLife
  /\ sup.at \in {"opened", "control", "await", "keep", "undo", "loop"} => life.loop = Nobody
  /\ sup.at \in {"opened", "control", "await", "keep", "undo"} => life.control = Nobody

\* Somebody can abort the task.
InHand(c) ==
  \/ life.control = c
  \/ sup.at \in {"await", "keep"} /\ sup.task = c
  \/ \E e \in Epochs : loops[e].at = "storing" /\ loops[e].task = c

\* A task that has not been cut is of the life that is up, and its handle is kept;
\* a life comes up when what was cut before has unwound.
Handles ==
  /\ \A e \in Epochs : streams[e] = "up" => life.stream = e
  /\ \A e \in Epochs : loops[e].at \in {"on", "storing"} => life.loop = e
  /\ \A e \in Epochs : loops[e].at = "storing" =>
       \A c \in Controls : Alive(c) => c = loops[e].task
  /\ ~closed => \A c \in Controls : Alive(c) /\ ~controls[c].cut =>
       InHand(c) /\ controls[c].epoch = sup.epoch
  /\ ~closed /\ sup.at \in {"opened", "control", "await", "keep", "loop", "clock", "recv",
                            "abort", "undo"} =>
       /\ \A e \in Epochs : streams[e] # "cut"
       /\ \A c \in Controls : Alive(c) => ~controls[c].cut

\* And there is one of each at most.
Single ==
  /\ \A e, f \in Epochs : Linked(e) /\ Linked(f) => e = f
  /\ \A c, d \in Controls : Alive(c) /\ Alive(d) => c = d
  /\ sup.at = "spawn" \/ (sup.at = "shake" /\ sup.mode # "swap") =>
       (\A e \in Epochs : ~Linked(e)) /\ (\A c \in Controls : ~Alive(c))
  /\ sup.at \in {"opened", "control"} => \A c \in Controls : ~Alive(c)

\* The clock of the life that is up, and no other, is running.
Clocked ==
  /\ life.clock \in {Nobody, sup.epoch}
  /\ \A e \in Epochs : clocks[e] = "on" => life.clock = e

HInv == CInv /\ Stored /\ Handles /\ Single /\ Clocked

=============================================================================
