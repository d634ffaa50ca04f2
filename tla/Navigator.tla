----------------------------- MODULE Navigator ------------------------------
(***************************************************************************)
(* The Navigator's runtime (model/nav.rs): the pure machine under one lock, *)
(* its two timers, the stream's command queue the loads go to, the mirror   *)
(* of {aim, in_flight} in the snapshot, and the end of a life, which the    *)
(* supervisor and close() carry out in several steps beside it.             *)
(*                                                                         *)
(* Every entry point reads the epoch BEFORE it takes the lock.  The two     *)
(* halves are separate steps here: an Arrive step puts a caller, a folded   *)
(* position or a timer that went off in `waiting`; Enter is what it then    *)
(* does under the lock.                                                     *)
(*                                                                         *)
(* Time is counted in ticks.  A timer never fires early and may fire late.  *)
(***************************************************************************)
EXTENDS NavigatorMachine, Sequences, FiniteSets

CONSTANTS
  Callers,    \* the client's threads that call navigate_to
  Links,      \* the ingest tasks that fold positions: stream and control
  SETTLE,     \* RIG_LOAD_SETTLE_MS, in ticks
  WINDOW,     \* PENDING_WINDOW_MS
  COOLDOWN,   \* CONNECTION_COOLDOWN_MS: no redial sooner after a lost life
  QUEUE,      \* capacity of the stream's command queue
  MaxEpoch,   \* bound on the lives of a run
  Stalls      \* may a caller be preempted, between its epoch read and the
              \* lock, for as long as a redial takes?

ASSUME NavigatorAssumption ==
  /\ SETTLE \in Nat \ {0} /\ WINDOW \in Nat \ {0}
  /\ COOLDOWN \in Nat /\ COOLDOWN >= SETTLE
  /\ QUEUE \in Nat \ {0} /\ MaxEpoch \in Nat \ {0}
  /\ Stalls \in BOOLEAN
  /\ Callers \intersect Links = {}
  /\ (Callers \union Links) \intersect {"settle", "window"} = {}

BANK_SLOTS == 5
MaxBank    == 127   \* the preselect's seven bits

VARIABLES
  machine,    \* Inner.state
  timers,     \* the timer tasks asleep; Inner.settle and Inner.window hold
              \* the handles that cancel them
  waiting,    \* entry points that have read the epoch and want the lock
  queue,      \* the command queue: a rig's load pair, or None for any other
              \* command
  open,       \* the stream takes commands (Life.commands, and its receiver)
  epoch,      \* Core.epoch
  teardown,   \* the next step of a life's end, or "none"
  closed,     \* Shared.closed
  mirror,     \* DeviceState.navigation
  raised,     \* the navigation events of the last step
  sinceLoad,  \* ticks since a load was last queued, counted up to SETTLE
  opened,     \* ticks the current window has been open, up to WINDOW
  downFor,    \* ticks since the last life ended, up to COOLDOWN
  retired,    \* the life that ends, or ended last, had its age: LifeEnd::Aged
  swapped     \* a swap began this life, and it has queued no load yet

vars == <<machine, timers, waiting, queue, open, epoch, teardown, closed,
          mirror, raised, sinceLoad, opened, downFor, retired, swapped>>

Timer(kind, left, e)  == [kind |-> kind, left |-> left, epoch |-> e]
Entry(who, e, index)  == [who |-> who, epoch |-> e, index |-> index]

TypeOK ==
  /\ machine \in MachineState
  /\ timers \subseteq [kind : {"settle", "window"}, left : Nat, epoch : Nat]
  /\ waiting \subseteq [who : Callers \union Links, epoch : Nat, index : Rig]
                 \union [who : {"settle", "window"}, epoch : Nat, index : {None}]
  /\ queue \in Seq(MaybeRig) /\ Len(queue) <= QUEUE
  /\ open \in BOOLEAN /\ closed \in BOOLEAN /\ epoch \in Nat
  /\ teardown \in {"none", "bump", "abort", "clear", "core"}
  /\ mirror \in [aim : MaybeRig, in_flight : BOOLEAN]
  /\ raised \subseteq [do : {"Settled", "Dropped"}, index : Rig]
  /\ sinceLoad \in 0 .. SETTLE /\ opened \in 0 .. WINDOW
  /\ downFor \in 0 .. COOLDOWN /\ retired \in BOOLEAN /\ swapped \in BOOLEAN

\* connect(): the first life is up, with epoch 1.
Init ==
  /\ machine = Fresh /\ timers = {} /\ waiting = {}
  /\ queue = <<>> /\ open = TRUE /\ epoch = 1
  /\ teardown = "none" /\ closed = FALSE
  /\ mirror = Navigation(Fresh) /\ raised = {}
  /\ sinceLoad = SETTLE /\ opened = 0 /\ downFor = 0
  /\ retired = FALSE /\ swapped = FALSE

-----------------------------------------------------------------------------
(***************************************************************************)
(* Arriving: the epoch is read or checked, the lock not yet taken.          *)
(***************************************************************************)

\* navigate(): takes whatever epoch is current, whether or not a life is up.
CallNavigate(c, target) ==
  /\ \A w \in waiting : w.who # c
  /\ waiting' = waiting \union {Entry(c, epoch, target)}
  /\ raised' = {}
  /\ UNCHANGED <<machine, timers, queue, open, epoch, teardown, closed, mirror,
                 sinceLoad, opened, downFor, retired, swapped>>

\* The life that is up, or ending but not yet disowned by the epoch.
Live == teardown = "bump" \/ (teardown = "none" /\ open)

\* fold_position(): either link reports where the device says it is.
ReportPosition(link, index) ==
  /\ Live
  /\ \A w \in waiting : w.who # link
  /\ waiting' = waiting \union {Entry(link, epoch, index)}
  /\ raised' = {}
  /\ UNCHANGED <<machine, timers, queue, open, epoch, teardown, closed, mirror,
                 sinceLoad, opened, downFor, retired, swapped>>

\* A timer goes off; a timer of an earlier life is stale and does nothing.
TimerFires(t) ==
  /\ t \in timers /\ t.left = 0
  /\ timers' = timers \ {t}
  /\ waiting' = IF t.epoch = epoch
                  THEN waiting \union {Entry(t.kind, epoch, None)}
                  ELSE waiting
  /\ raised' = {}
  /\ UNCHANGED <<machine, queue, open, epoch, teardown, closed, mirror,
                 sinceLoad, opened, downFor, retired, swapped>>

-----------------------------------------------------------------------------
(***************************************************************************)
(* Under the lock: one transition and its actions.                          *)
(***************************************************************************)

Transition(w) ==
  CASE w.who \in Callers  -> OnNavigate(machine, w.index)
    [] w.who \in Links    -> OnPosition(machine, w.index)
    [] w.who = "settle"   -> OnSettleElapsed(machine)
    [] w.who = "window"   -> OnWindowElapsed(machine)

Loads(actions) == {i \in Rig : Send(i) \in actions}

\* send_load and try_enqueue_pair: the bank fits seven bits, the stream takes
\* commands, and the queue has room for two although the pair is one item.
CanSend(i) ==
  /\ i \div BANK_SLOTS <= MaxBank
  /\ open
  /\ Len(queue) + 2 <= QUEUE

Refused(actions) == \E i \in Loads(actions) : ~CanSend(i)

\* Mutant: a send leaves the old window's timer running.
CancelsWindow_NotOnSend(actions) ==
  \E a \in actions : a.do \in {"StartWindow", "Settled", "Dropped"}

\* What Send, StartWindow, Settled and Dropped all do to the old window, and
\* StartSettle (or a refused send) to the old settle.
CancelsWindow(actions) == actions \ {StartSettle} # {}
CancelsSettle(actions) == StartSettle \in actions

Kept(actions) ==
  {t \in timers : /\ t.kind = "window" => ~CancelsWindow(actions)
                  /\ t.kind = "settle" => ~CancelsSettle(actions)}

Armed(actions, e) ==
  (IF StartSettle \in actions THEN {Timer("settle", SETTLE, e)} ELSE {})
    \union
  (IF StartWindow \in actions THEN {Timer("window", WINDOW, e)} ELSE {})

Said(actions) == {a \in actions : a.do \in {"Settled", "Dropped"}}

\* Mutant: a folded position leaves the mirror to a later publish.
Publish_NotFolded(w, state, events) ==
  /\ mirror' = IF w.epoch = epoch /\ w.who \notin Links
                 THEN Navigation(state) ELSE mirror
  /\ raised' = IF w.epoch = epoch THEN events ELSE {}

\* Core::set_navigation drops a publish from an earlier epoch; a folded
\* position writes the mirror unguarded and its events go with the chunk.
Publish(w, state, events) ==
  /\ mirror' = IF w.epoch = epoch \/ w.who \in Links
                 THEN Navigation(state) ELSE mirror
  /\ raised' = IF w.epoch = epoch THEN events ELSE {}

Carry(w) ==
  LET step == Transition(w) IN
  /\ ~Refused(step.actions)
  /\ machine' = step.state
  /\ timers' = Kept(step.actions) \union Armed(step.actions, w.epoch)
  /\ \/ Loads(step.actions) = {} /\ UNCHANGED <<queue, sinceLoad, swapped>>
     \/ \E i \in Loads(step.actions) :
          queue' = Append(queue, i) /\ sinceLoad' = 0 /\ swapped' = FALSE
  /\ opened' = IF StartWindow \in step.actions THEN 0 ELSE opened
  /\ Publish(w, step.state, Said(step.actions))

\* Mutant: a refused load leaves the machine as if it had gone.
Refuse_KeepsFlight(w) ==
  LET step == Transition(w) IN
  /\ Refused(step.actions)
  /\ machine' = step.state
  /\ timers' = Kept(step.actions)
  /\ Publish(w, step.state, {Dropped(i) : i \in Loads(step.actions)})
  /\ UNCHANGED <<queue, sinceLoad, swapped, opened>>

\* Mutant: a refused load is forgotten without its event.
Refuse_Silent(w) ==
  LET actions == Transition(w).actions IN
  /\ Refused(actions)
  /\ machine' = Fresh
  /\ timers' = Kept(actions)
  /\ Publish(w, Fresh, {})
  /\ UNCHANGED <<queue, sinceLoad, swapped, opened>>

\* A load that could not be queued drops the aim there and then.
Refuse(w) ==
  LET actions == Transition(w).actions IN
  /\ Refused(actions)
  /\ machine' = Fresh
  /\ timers' = Kept(actions)
  /\ Publish(w, Fresh, {Dropped(i) : i \in Loads(actions)})
  /\ UNCHANGED <<queue, sinceLoad, swapped, opened>>

Enter(w) ==
  /\ w \in waiting
  /\ waiting' = waiting \ {w}
  /\ Carry(w) \/ Refuse(w)
  /\ UNCHANGED <<open, epoch, teardown, closed, downFor, retired>>

-----------------------------------------------------------------------------
(***************************************************************************)
(* The rest of the queue's users.                                           *)
(***************************************************************************)

\* Mutant: the queue is not bounded by its capacity.
EnqueueOther_Unbounded ==
  /\ open /\ Len(queue) <= QUEUE
  /\ queue' = Append(queue, None)
  /\ raised' = {}
  /\ UNCHANGED <<machine, timers, waiting, open, epoch, teardown, closed,
                 mirror, sinceLoad, opened, downFor, retired, swapped>>

EnqueueOther ==
  /\ open /\ Len(queue) < QUEUE
  /\ queue' = Append(queue, None)
  /\ raised' = {}
  /\ UNCHANGED <<machine, timers, waiting, open, epoch, teardown, closed,
                 mirror, sinceLoad, opened, downFor, retired, swapped>>

\* run_stream frames and writes one queue item.
WriteItem ==
  /\ open /\ queue # <<>>
  /\ queue' = Tail(queue)
  /\ raised' = {}
  /\ UNCHANGED <<machine, timers, waiting, open, epoch, teardown, closed,
                 mirror, sinceLoad, opened, downFor, retired, swapped>>

-----------------------------------------------------------------------------
(***************************************************************************)
(* The end of a life: bump the epoch, abort the links, clear the Navigator, *)
(* write the tree.  The supervisor does so after a lost stream, whose task  *)
(* has dropped the command receiver already, and after an aged one.         *)
(* close() shuts the command queue before it bumps.                         *)
(***************************************************************************)

BeginTeardown ==
  /\ teardown = "none" /\ epoch < MaxEpoch
  /\ teardown' = "bump"
  /\ raised' = {}
  /\ UNCHANGED <<machine, timers, waiting, epoch, mirror, sinceLoad, opened,
                 downFor, swapped>>

ShutQueue == open' = FALSE /\ queue' = <<>>

LoseStream  == /\ open /\ BeginTeardown /\ ShutQueue /\ retired' = FALSE
               /\ UNCHANGED closed
RecycleLife == /\ open /\ BeginTeardown /\ retired' = TRUE
               /\ UNCHANGED <<open, queue, closed>>
Close       == /\ ~closed /\ BeginTeardown /\ ShutQueue /\ closed' = TRUE
               /\ UNCHANGED retired

TeardownGoes(from, to) ==
  /\ teardown = from /\ teardown' = to
  /\ raised' = {}
  /\ UNCHANGED <<waiting, closed, sinceLoad, opened, retired, swapped>>

BumpEpoch ==
  /\ TeardownGoes("bump", "abort")
  /\ epoch' = epoch + 1
  /\ UNCHANGED <<machine, timers, queue, open, mirror, downFor>>

AbortLinks ==
  /\ TeardownGoes("abort", "clear")
  /\ ShutQueue
  /\ UNCHANGED <<machine, timers, epoch, mirror, downFor>>

\* Navigator::clear.
Clear ==
  /\ TeardownGoes("clear", "core")
  /\ machine' = Fresh /\ timers' = {}
  /\ UNCHANGED <<queue, open, epoch, mirror, downFor>>

\* Core::end_life or Core::closed: the mirror goes with the transition.
EndLife ==
  /\ TeardownGoes("core", "none")
  /\ mirror' = Navigation(Fresh)
  /\ downFor' = 0
  /\ UNCHANGED <<machine, timers, queue, open, epoch>>

\* Mutant: no dial waits for the cooldown.
ReadyToDial_Always == downFor \in 0 .. COOLDOWN

\* The ledger's cooldown runs from the old life's close.  A swap dials before
\* the aborted tasks have stamped theirs, and the open it reads of is max_age
\* old: it does not wait.
ReadyToDial == retired \/ downFor >= COOLDOWN

\* The swap's one attempt fails.  The dial itself is in the ledger, and so by
\* now are the closes: the next attempt waits like any other.
SwapFails ==
  /\ retired /\ ~open /\ ~closed /\ teardown = "none"
  /\ retired' = FALSE
  /\ raised' = {}
  /\ UNCHANGED <<machine, timers, waiting, queue, open, epoch, teardown, closed,
                 mirror, sinceLoad, opened, downFor, swapped>>

\* A dial that succeeds.  Whoever read the old epoch has taken the lock by
\* then, unless callers may stall that long.
StartLife ==
  /\ ~open /\ ~closed /\ teardown = "none"
  /\ ReadyToDial
  /\ Stalls \/ waiting = {}
  /\ open' = TRUE
  /\ retired' = FALSE /\ swapped' = retired
  /\ raised' = {}
  /\ UNCHANGED <<machine, timers, waiting, queue, epoch, teardown, closed,
                 mirror, sinceLoad, opened, downFor>>

-----------------------------------------------------------------------------
Up(n, max) == IF n < max THEN n + 1 ELSE n

Aged(t) == [t EXCEPT !.left = IF @ > 0 THEN @ - 1 ELSE 0]

\* A teardown never awaits and the lock is held for microseconds: no time
\* passes while a teardown or a timer that went off is under way.
Tick ==
  /\ teardown = "none"
  /\ \A w \in waiting : w.who \notin {"settle", "window"}
  /\ timers' = {Aged(t) : t \in timers}
  /\ sinceLoad' = Up(sinceLoad, SETTLE)
  /\ opened' = Up(opened, WINDOW)
  /\ downFor' = IF open THEN downFor ELSE Up(downFor, COOLDOWN)
  /\ raised' = {}
  /\ UNCHANGED <<machine, waiting, queue, open, epoch, teardown, closed, mirror,
                 retired, swapped>>

Arrive ==
  \/ \E c \in Callers, i \in Rig : CallNavigate(c, i)
  \/ \E l \in Links, i \in Rig : ReportPosition(l, i)
  \/ \E t \in timers : TimerFires(t)

TeardownStep == BumpEpoch \/ AbortLinks \/ Clear \/ EndLife

Next ==
  \/ Arrive
  \/ \E w \in waiting : Enter(w)
  \/ EnqueueOther \/ WriteItem
  \/ LoseStream \/ RecycleLife \/ Close
  \/ TeardownStep
  \/ SwapFails \/ StartLife
  \/ Tick

(***************************************************************************)
(* Tokio polls what is ready, a std mutex is released by its holder, and    *)
(* time goes on.  Nothing obliges the client to call, the device to report, *)
(* the stream to end, a redial to succeed or the writer to make progress.   *)
(***************************************************************************)
Entrants == Callers \union Links \union {"settle", "window"}

Fairness ==
  /\ WF_vars(\E t \in timers : TimerFires(t))
  /\ \A x \in Entrants : WF_vars(\E w \in waiting : w.who = x /\ Enter(w))
  /\ WF_vars(TeardownStep)
  /\ WF_vars(Tick)

Spec == Init /\ [][Next]_vars /\ Fairness

-----------------------------------------------------------------------------
(***************************************************************************)
(* Properties.                                                              *)
(***************************************************************************)

Settling(e) ==
  \/ \E t \in timers : t.kind = "settle" /\ t.epoch = e
  \/ \E w \in waiting : w.who = "settle" /\ w.epoch = e

Opening(e) ==
  \/ \E t \in timers : t.kind = "window" /\ t.epoch = e
  \/ \E w \in waiting : w.who = "window" /\ w.epoch = e

\* While a life is up, a move in flight has a settle timer that will be
\* honoured (one of this epoch), and an aim awaiting confirmation has such a
\* window timer.  Otherwise the machine is wedged: navigate() only moves the
\* aim and nothing ever sends it.
NeverWedged ==
  teardown = "none" /\ open =>
    /\ machine.in_flight => Settling(epoch)
    /\ machine.awaiting => Opening(epoch)

\* Between two teardowns the snapshot's {aim, in_flight} is the machine's,
\* though one is written under the Navigator's lock and the other by a core
\* that drops what an old epoch says.
MirrorAgrees ==
  teardown = "none" => mirror = Navigation(machine)

LoadQueued ==
  /\ Len(queue') = Len(queue) + 1
  /\ queue'[Len(queue')] # None

\* Two rig loads are never queued closer than RIG_LOAD_SETTLE_MS, in one life
\* or across a lost stream and its redial: closer loads wedge the device.  Across
\* a swap nothing sees to it: the new life's Navigator knows of no load, and its
\* first may follow the old life's last within a dial and a handshake.
LoadsPaced ==
  [][LoadQueued => sinceLoad >= SETTLE \/ swapped]_vars

\* An aim never goes away in silence while a life is up: the step that takes
\* it raises NavigationSettled or NavigationDropped.
NothingForgotten ==
  [][machine.aim # None /\ machine'.aim = None /\ teardown = "none" /\ open
       => raised' # {}]_vars

\* An aim whose move settled unconfirmed is dropped only after the whole
\* PENDING_WINDOW_MS has been given to the device.
WindowHonoured ==
  [][machine.awaiting /\ Dropped(machine.aim) \in raised' => opened >= WINDOW]_vars

\* Every aim is resolved: confirmed, dropped, replaced or forgotten with its
\* life.  The Navigator never keeps one for ever.
AimResolves ==
  \A i \in Rig : (machine.aim = i) ~> (machine.aim # i)

-----------------------------------------------------------------------------
(***************************************************************************)
(* The inductive invariant the proofs rest on.                              *)
(***************************************************************************)

\* What the pure machine keeps to: an aim is in flight, awaiting, or queued
\* behind a flight, and nothing is remembered as sent once the aim is gone.
MachineShape ==
  /\ machine.aim = None => machine.sent = None
  /\ machine.awaiting => ~machine.in_flight /\ machine.aim # None
  /\ ~machine.in_flight /\ machine.aim # None =>
       machine.awaiting /\ machine.sent = machine.aim

\* With the queue open a timer runs only for what it times, no two of a kind
\* run, and a settle that went off has left no settle timer behind.
TimersMatch ==
  open =>
    /\ \A s, t \in timers : s.kind = t.kind => s = t
    /\ \A t \in timers : /\ t.kind = "settle" => machine.in_flight
                         /\ t.kind = "window" => machine.awaiting
    /\ \A w \in waiting : w.who = "settle" =>
         /\ machine.in_flight
         /\ \A t \in timers : t.kind # "settle"
         /\ \A v \in waiting : v.who = "settle" => v = w

\* Navigator::clear has run and no life has started since.
ClearedIsFresh ==
  /\ teardown \in {"clear", "core"} => ~open
  /\ ~open /\ teardown \in {"core", "none"} => machine = Fresh /\ timers = {}

\* The flight is over only when RIG_LOAD_SETTLE_MS has passed since the load,
\* but for the flight a swap cuts short.
Paced ==
  /\ open =>
       /\ \A t \in timers : t.kind = "settle" => t.left + sinceLoad >= SETTLE
       /\ \A w \in waiting : w.who = "settle" => sinceLoad >= SETTLE
       /\ ~machine.in_flight => sinceLoad >= SETTLE \/ swapped
  /\ ~open /\ teardown = "none" => sinceLoad >= SETTLE \/ sinceLoad >= downFor

\* The current life owns every timer and everyone at the lock.
Attached == open /\ teardown \in {"none", "bump"}

AttachedIsCurrent ==
  Attached =>
    /\ \A w \in waiting : w.epoch = epoch
    /\ \A t \in timers : t.epoch = epoch
    /\ machine.in_flight => Settling(epoch)
    /\ machine.awaiting => Opening(epoch)

\* A timer has gone off, or is about to.
Ripe(kind) ==
  \/ \E t \in timers : t.kind = kind /\ t.left = 0
  \/ \E w \in waiting : w.who = kind

\* The window's timer goes off when the window has been open as long; and a settle
\* does not open the next one before what went off has been heard.
WindowTimed ==
  /\ \A t \in timers : t.kind = "window" => t.left + opened >= WINDOW
  /\ \A w \in waiting : w.who = "window" => opened >= WINDOW
  /\ ~(Ripe("settle") /\ Ripe("window"))

IInv ==
  /\ TypeOK
  /\ MachineShape /\ TimersMatch /\ ClearedIsFresh
  /\ Paced /\ AttachedIsCurrent /\ MirrorAgrees /\ WindowTimed

=============================================================================
