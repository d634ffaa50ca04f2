-------------------------- MODULE NavigatorProofs ---------------------------
(***************************************************************************)
(* Proofs about the Navigator, for every set of rigs and callers, every     *)
(* settle, window and cooldown time, queue capacity and number of lives.    *)
(* First what each entry point of the machine comes to, and the types; then *)
(* IInv, inductive when no caller stalls between its epoch read and the     *)
(* lock for as long as a redial, and with it the safety: the Navigator is   *)
(* never wedged, the mirror agrees, the loads are paced, and no aim goes    *)
(* away untold or before its window.                                        *)
(***************************************************************************)
EXTENDS Navigator, TLAPS

(***************************************************************************)
(* What the runtime makes of each set of actions the machine can return.    *)
(***************************************************************************)
LEMMA NoActions ==
  /\ Loads({}) = {} /\ ~Refused({}) /\ Kept({}) = timers /\ Said({}) = {}
  /\ StartWindow \notin {}
  /\ \A e : Armed({}, e) = {}
  BY DEF Loads, Refused, Kept, Said, Armed, CancelsWindow, CancelsSettle,
         StartWindow, StartSettle

LEMMA LoadActions ==
  ASSUME TypeOK, NEW i \in Rig, NEW A, A = {Send(i), StartSettle}
  PROVE  /\ Loads(A) = {i} /\ (Refused(A) <=> ~CanSend(i))
         /\ Kept(A) = {} /\ Said(A) = {} /\ StartWindow \notin A
         /\ \A e : Armed(A, e) = {Timer("settle", SETTLE, e)}
  <1>1. Loads(A) = {i}
    BY DEF Loads, Send, StartSettle
  <1>2. Refused(A) <=> ~CanSend(i)
    BY <1>1 DEF Refused
  <1>3. StartWindow \notin A /\ StartSettle \in A /\ Send(i) \in A \ {StartSettle}
    BY DEF StartWindow, StartSettle, Send
  <1>4. Kept(A) = {}
    BY <1>3 DEF Kept, CancelsWindow, CancelsSettle, TypeOK
  <1>5. Said(A) = {}
    BY DEF Said, Send, StartSettle
  <1>6. QED
    BY <1>1, <1>2, <1>3, <1>4, <1>5 DEF Armed

LEMMA WindowActions ==
  ASSUME NEW A, A = {StartWindow}
  PROVE  /\ Loads(A) = {} /\ ~Refused(A) /\ Said(A) = {}
         /\ Kept(A) = {t \in timers : t.kind # "window"}
         /\ \A e : Armed(A, e) = {Timer("window", WINDOW, e)}
  <1>1. Loads(A) = {} /\ ~Refused(A)
    BY DEF Loads, Refused, Send, StartWindow
  <1>2. StartSettle \notin A /\ A \ {StartSettle} # {}
    BY DEF StartWindow, StartSettle
  <1>3. Kept(A) = {t \in timers : t.kind # "window"}
    BY <1>2 DEF Kept, CancelsWindow, CancelsSettle
  <1>4. Said(A) = {}
    BY DEF Said, StartWindow
  <1>5. QED
    BY <1>1, <1>2, <1>3, <1>4 DEF Armed

LEMMA RetireActions ==
  ASSUME NEW i \in Rig, NEW A, A = {Settled(i)} \/ A = {Dropped(i)}
  PROVE  /\ Loads(A) = {} /\ ~Refused(A) /\ Said(A) = A
         /\ Kept(A) = {t \in timers : t.kind # "window"}
         /\ StartWindow \notin A /\ \A e : Armed(A, e) = {}
  <1>1. Loads(A) = {} /\ ~Refused(A)
    BY DEF Loads, Refused, Send, Settled, Dropped
  <1>a. Settled(i).do = "Settled" /\ Dropped(i).do = "Dropped"
    BY DEF Settled, Dropped
  <1>2. StartSettle \notin A /\ StartWindow \notin A /\ A \ {StartSettle} # {}
    <2>1. StartWindow.do = "StartWindow" /\ StartSettle.do = "StartSettle"
      BY DEF StartWindow, StartSettle
    <2>2. CASE A = {Settled(i)}
      BY <1>a, <2>1, <2>2
    <2>3. CASE A = {Dropped(i)}
      BY <1>a, <2>1, <2>3
    <2>4. QED
      BY <2>2, <2>3
  <1>3. Kept(A) = {t \in timers : t.kind # "window"}
    BY <1>2 DEF Kept, CancelsWindow, CancelsSettle
  <1>4. Said(A) = A
    BY DEF Said, Settled, Dropped
  <1>5. QED
    BY <1>1, <1>2, <1>3, <1>4 DEF Armed

(***************************************************************************)
(* The six things an entry point can do under the lock, spelled out.        *)
(***************************************************************************)
Quiet(w, s) ==
  /\ machine' = s
  /\ timers' = timers
  /\ UNCHANGED <<queue, sinceLoad, swapped, opened>>
  /\ Publish(w, s, {})

Loaded(w, s) ==
  /\ ~s.in_flight /\ s.aim \in Rig /\ CanSend(s.aim)
  /\ machine' = [s EXCEPT !.sent = s.aim, !.in_flight = TRUE, !.awaiting = FALSE]
  /\ timers' = {Timer("settle", SETTLE, w.epoch)}
  /\ queue' = Append(queue, s.aim) /\ opened' = opened
  /\ sinceLoad' = 0 /\ swapped' = FALSE
  /\ Publish(w, machine', {})

Turned(w, s) ==
  /\ ~s.in_flight /\ s.aim \in Rig /\ ~CanSend(s.aim)
  /\ machine' = Fresh
  /\ timers' = {}
  /\ UNCHANGED <<queue, sinceLoad, swapped, opened>>
  /\ Publish(w, Fresh, {Dropped(s.aim)})

Windowed(w) ==
  /\ machine.aim # None /\ machine.sent = machine.aim
  /\ machine' = [machine EXCEPT !.in_flight = FALSE, !.awaiting = TRUE]
  /\ timers' = {t \in timers : t.kind # "window"}
                 \union {Timer("window", WINDOW, w.epoch)}
  /\ UNCHANGED <<queue, sinceLoad, swapped>> /\ opened' = 0
  /\ Publish(w, machine', {})

Retired(w) ==
  /\ machine.aim \in Rig
  /\ machine' = [machine EXCEPT !.aim = None, !.sent = None, !.awaiting = FALSE]
  /\ timers' = {t \in timers : t.kind # "window"}
  /\ UNCHANGED <<queue, sinceLoad, swapped, opened>>
  /\ \/ w.who \in Links /\ Publish(w, machine', {Settled(machine.aim)})
     \/ w.who = "window" /\ machine.awaiting
          /\ Publish(w, machine', {Dropped(machine.aim)})

Pumped(w, s) ==
  IF s.in_flight \/ s.aim = None \/ s.sent = s.aim
    THEN Quiet(w, s) ELSE Loaded(w, s) \/ Turned(w, s)

LEMMA PumpOutcome ==
  ASSUME TypeOK, NEW w \in waiting, NEW s \in MachineState,
         Transition(w) = Pump(s), Carry(w) \/ Refuse(w)
  PROVE  Pumped(w, s)
  <1>1. CASE s.in_flight \/ s.aim = None \/ s.sent = s.aim
    <2>1. Transition(w).state = s /\ Transition(w).actions = {}
      BY <1>1 DEF Pump, Step
    <2>2. Carry(w)
      BY <2>1, NoActions DEF Refuse
    <2>3. Quiet(w, s)
      BY <2>1, <2>2, NoActions DEF Carry, Quiet
    <2>4. QED
      BY <1>1, <2>3 DEF Pumped
  <1>2. CASE ~(s.in_flight \/ s.aim = None \/ s.sent = s.aim)
    <2> DEFINE i == s.aim
               A == {Send(i), StartSettle}
               n == [s EXCEPT !.sent = i, !.in_flight = TRUE, !.awaiting = FALSE]
    <2>1. Transition(w).state = n /\ Transition(w).actions = A
      BY <1>2 DEF Pump, Step
    <2>2. i \in Rig
      BY <1>2 DEF MachineState, MaybeRig
    <2>3. /\ Loads(A) = {i} /\ (Refused(A) <=> ~CanSend(i))
          /\ Kept(A) = {} /\ Said(A) = {} /\ StartWindow \notin A
          /\ \A e : Armed(A, e) = {Timer("settle", SETTLE, e)}
      BY <2>2, LoadActions
    <2> HIDE DEF A, n
    <2>4. CASE Carry(w)
      <3>1. /\ ~Refused(A) /\ machine' = n
            /\ timers' = Kept(A) \union Armed(A, w.epoch)
            /\ \/ Loads(A) = {} /\ UNCHANGED <<queue, sinceLoad, swapped>>
               \/ \E j \in Loads(A) :
                    queue' = Append(queue, j) /\ sinceLoad' = 0 /\ swapped' = FALSE
            /\ opened' = IF StartWindow \in A THEN 0 ELSE opened
            /\ Publish(w, n, Said(A))
        BY <2>1, <2>4 DEF Carry
      <3>2. Loaded(w, s)
        BY <1>2, <2>2, <2>3, <3>1 DEF Loaded, n
      <3>3. QED
        BY <1>2, <3>2 DEF Pumped
    <2>5. CASE Refuse(w)
      <3>1. /\ Refused(A) /\ machine' = Fresh /\ timers' = Kept(A)
            /\ Publish(w, Fresh, {Dropped(j) : j \in Loads(A)})
            /\ UNCHANGED <<queue, sinceLoad, swapped, opened>>
        BY <2>1, <2>5 DEF Refuse
      <3>2. {Dropped(j) : j \in Loads(A)} = {Dropped(i)}
        BY <2>3
      <3>3. Turned(w, s)
        BY <1>2, <2>2, <2>3, <3>1, <3>2 DEF Turned
      <3>4. QED
        BY <1>2, <3>3 DEF Pumped
    <2>6. QED
      BY <2>4, <2>5
  <1>3. QED
    BY <1>1, <1>2

LEMMA RetireOutcome ==
  ASSUME TypeOK, NEW w \in waiting, machine.aim \in Rig,
         Carry(w) \/ Refuse(w), NEW A,
         Transition(w) =
           Step([machine EXCEPT !.aim = None, !.sent = None, !.awaiting = FALSE], A),
         \/ w.who \in Links /\ A = {Settled(machine.aim)}
         \/ w.who = "window" /\ machine.awaiting /\ A = {Dropped(machine.aim)}
  PROVE  Retired(w)
  <1> DEFINE n == [machine EXCEPT !.aim = None, !.sent = None, !.awaiting = FALSE]
  <1>1. Transition(w).state = n /\ Transition(w).actions = A
    BY DEF Step
  <1>2. /\ Loads(A) = {} /\ ~Refused(A) /\ Said(A) = A
        /\ Kept(A) = {t \in timers : t.kind # "window"}
        /\ StartWindow \notin A /\ \A e : Armed(A, e) = {}
    BY RetireActions
  <1> HIDE DEF n
  <1>3. Carry(w)
    BY <1>1, <1>2 DEF Refuse
  <1>4. /\ machine' = n
        /\ timers' = Kept(A) \union Armed(A, w.epoch)
        /\ UNCHANGED <<queue, sinceLoad, swapped>>
        /\ opened' = opened
        /\ Publish(w, n, A)
    BY <1>1, <1>2, <1>3 DEF Carry
  <1>5. QED
    BY <1>2, <1>4 DEF Retired, n

LEMMA WindowOutcome ==
  ASSUME TypeOK, NEW w \in waiting, machine.aim # None, machine.sent = machine.aim,
         Carry(w) \/ Refuse(w), Transition(w) = OnSettleElapsed(machine)
  PROVE  Windowed(w)
  <1> DEFINE n == [machine EXCEPT !.in_flight = FALSE, !.awaiting = TRUE]
             A == {StartWindow}
             opens == machine.aim # None /\ machine.aim = machine.sent
  <1>1. Transition(w).state = n /\ Transition(w).actions = A
    <2>1. opens
      OBVIOUS
    <2>2. [machine EXCEPT !.in_flight = FALSE, !.awaiting = @ \/ opens] = n
      BY <2>1 DEF TypeOK, MachineState
    <2>3. Pump(n) = Step(n, {})
      BY DEF Pump, TypeOK, MachineState
    <2>4. OnSettleElapsed(machine) = Step(Step(n, {}).state, Step(n, {}).actions \union A)
      BY <2>1, <2>2, <2>3 DEF OnSettleElapsed
    <2>5. QED
      BY <2>4 DEF Step
  <1>2. /\ Loads(A) = {} /\ ~Refused(A) /\ Said(A) = {}
        /\ Kept(A) = {t \in timers : t.kind # "window"}
        /\ StartWindow \in A
        /\ \A e : Armed(A, e) = {Timer("window", WINDOW, e)}
    BY WindowActions
  <1> HIDE DEF n, A
  <1>3. Carry(w)
    BY <1>1, <1>2 DEF Refuse
  <1>4. /\ machine' = n
        /\ timers' = Kept(A) \union Armed(A, w.epoch)
        /\ UNCHANGED <<queue, sinceLoad, swapped>>
        /\ opened' = 0
        /\ Publish(w, n, {})
    BY <1>1, <1>2, <1>3 DEF Carry
  <1>5. QED
    BY <1>2, <1>4 DEF Windowed, n

(***************************************************************************)
(* Enter, entry point by entry point.                                       *)
(***************************************************************************)
Entered(w) ==
  \/ /\ w.who \in Callers /\ w.index \in Rig
     /\ Pumped(w, [machine EXCEPT !.aim = w.index])
  \/ w.who \in Links /\ (Quiet(w, machine) \/ Retired(w))
  \/ w.who = "settle" /\ Windowed(w)
  \/ /\ w.who = "settle" /\ ~(machine.aim # None /\ machine.aim = machine.sent)
     /\ Pumped(w, [machine EXCEPT !.in_flight = FALSE])
  \/ w.who = "window" /\ Retired(w)
  \/ /\ w.who = "window" /\ ~(machine.awaiting /\ machine.aim # None)
     /\ Quiet(w, machine)

LEMMA EnterOutcome ==
  ASSUME TypeOK, NEW w \in waiting, Enter(w)
  PROVE  /\ waiting' = waiting \ {w}
         /\ UNCHANGED <<open, epoch, teardown, closed, downFor, retired>>
         /\ Entered(w)
  <1>1. /\ waiting' = waiting \ {w}
        /\ UNCHANGED <<open, epoch, teardown, closed, downFor, retired>>
        /\ Carry(w) \/ Refuse(w)
    BY DEF Enter
  <1>2. /\ machine \in MachineState
        /\ w.who \in Callers \union Links => w.index \in Rig
        /\ w.who \in Callers \union Links \union {"settle", "window"}
    BY NavigatorAssumption DEF TypeOK
  <1>3. CASE w.who \in Callers
    <2> DEFINE s == [machine EXCEPT !.aim = w.index]
    <2>1. Transition(w) = Pump(s)
      BY <1>3, NavigatorAssumption DEF Transition, OnNavigate
    <2>2. s \in MachineState
      BY <1>2, <1>3 DEF MachineState, MaybeRig
    <2>3. Pumped(w, s)
      BY <1>1, <2>1, <2>2, PumpOutcome
    <2>4. QED
      BY <1>1, <1>2, <1>3, <2>3 DEF Entered
  <1>4. CASE w.who \in Links
    <2>1. Transition(w) = OnPosition(machine, w.index)
      BY <1>4, NavigatorAssumption DEF Transition
    <2>2. CASE machine.aim # w.index
      <3>1. Transition(w).state = machine /\ Transition(w).actions = {}
        BY <2>1, <2>2 DEF OnPosition, Step
      <3>2. Carry(w)
        BY <1>1, <3>1, NoActions DEF Refuse
      <3>3. Quiet(w, machine)
        BY <3>1, <3>2, NoActions DEF Carry, Quiet
      <3>4. QED
        BY <1>1, <1>4, <3>3 DEF Entered
    <2>3. CASE machine.aim = w.index
      <3>1. Retired(w)
        BY <1>1, <1>2, <1>4, <2>1, <2>3, RetireOutcome DEF OnPosition
      <3>2. QED
        BY <1>1, <1>4, <3>1 DEF Entered
    <2>4. QED
      BY <2>2, <2>3
  <1>5. CASE w.who = "settle"
    <2>1. Transition(w) = OnSettleElapsed(machine)
      BY <1>5, NavigatorAssumption DEF Transition
    <2>2. CASE machine.aim # None /\ machine.aim = machine.sent
      BY <1>1, <1>5, <2>1, <2>2, WindowOutcome DEF Entered
    <2>3. CASE ~(machine.aim # None /\ machine.aim = machine.sent)
      <3> DEFINE s == [machine EXCEPT !.in_flight = FALSE]
      <3>1. s \in MachineState
        BY <1>2 DEF MachineState
      <3> DEFINE opens == machine.aim # None /\ machine.aim = machine.sent
      <3>2. [machine EXCEPT !.in_flight = FALSE, !.awaiting = @ \/ opens] = s
        BY <1>2, <2>3 DEF MachineState
      <3>3. Transition(w) = Pump(s)
        <4>1. OnSettleElapsed(machine) = Step(Pump(s).state, Pump(s).actions \union {})
          BY <2>3, <3>2 DEF OnSettleElapsed
        <4>2. Pump(s) = Step(Pump(s).state, Pump(s).actions)
          BY DEF Pump, Step
        <4>3. Pump(s).actions \union {} = Pump(s).actions
          OBVIOUS
        <4>4. QED
          BY <2>1, <4>1, <4>2, <4>3
      <3>4. Pumped(w, s)
        BY <1>1, <3>1, <3>3, PumpOutcome
      <3>5. QED
        BY <1>1, <1>5, <2>3, <3>4 DEF Entered
    <2>4. QED
      BY <2>2, <2>3
  <1>6. CASE w.who = "window"
    <2>1. Transition(w) = OnWindowElapsed(machine)
      BY <1>6, NavigatorAssumption DEF Transition
    <2>2. CASE machine.awaiting /\ machine.aim # None
      <3>1. machine.aim \in Rig
        BY <1>2, <2>2 DEF MachineState, MaybeRig
      <3>2. Retired(w)
        BY <1>1, <1>6, <2>1, <2>2, <3>1, RetireOutcome DEF OnWindowElapsed
      <3>3. QED
        BY <1>1, <1>6, <3>2 DEF Entered
    <2>3. CASE ~(machine.awaiting /\ machine.aim # None)
      <3>1. Transition(w).state = machine /\ Transition(w).actions = {}
        BY <2>1, <2>3 DEF OnWindowElapsed, Step
      <3>2. Carry(w)
        BY <1>1, <3>1, NoActions DEF Refuse
      <3>3. Quiet(w, machine)
        BY <3>1, <3>2, NoActions DEF Carry, Quiet
      <3>4. QED
        BY <1>1, <1>6, <2>3, <3>3 DEF Entered
    <2>4. QED
      BY <2>2, <2>3
  <1>7. QED
    BY <1>2, <1>3, <1>4, <1>5, <1>6

(***************************************************************************)
(* Type correctness.                                                        *)
(***************************************************************************)
LEMMA Times ==
  /\ SETTLE \in Nat /\ SETTLE > 0 /\ WINDOW \in Nat /\ WINDOW > 0
  /\ COOLDOWN \in Nat /\ COOLDOWN >= SETTLE /\ QUEUE \in Nat
  BY NavigatorAssumption

LEMMA NoneIsNoRig == None \notin Rig
  BY RigAssumption

LEMMA EmptyQueue == <<>> \in Seq(MaybeRig) /\ Len(<<>>) <= QUEUE
  BY Times

LEMMA FreshType == Fresh \in MachineState /\ Navigation(Fresh) \in [aim : MaybeRig, in_flight : BOOLEAN]
  BY DEF Fresh, MachineState, MaybeRig, Navigation

\* Whatever is published is a navigation, and about rigs.
LEMMA PublishType ==
  ASSUME TypeOK, NEW w, NEW s \in MachineState,
         NEW E, E \subseteq [do : {"Settled", "Dropped"}, index : Rig],
         Publish(w, s, E)
  PROVE  /\ mirror' \in [aim : MaybeRig, in_flight : BOOLEAN]
         /\ raised' \subseteq [do : {"Settled", "Dropped"}, index : Rig]
  BY DEF TypeOK, Publish, Navigation, MachineState

LEMMA EnterType ==
  ASSUME TypeOK, NEW w \in waiting, Enter(w)
  PROVE  TypeOK'
  <1>1. /\ waiting' = waiting \ {w}
        /\ UNCHANGED <<open, epoch, teardown, closed, downFor, retired>>
        /\ Entered(w)
    BY EnterOutcome
  <1>2. /\ machine \in MachineState /\ w.epoch \in Nat
        /\ timers \subseteq [kind : {"settle", "window"}, left : Nat, epoch : Nat]
        /\ queue \in Seq(MaybeRig) /\ Len(queue) <= QUEUE
        /\ sinceLoad \in 0 .. SETTLE /\ opened \in 0 .. WINDOW
        /\ swapped \in BOOLEAN
    BY DEF TypeOK
  <1> DEFINE Goal ==
        /\ machine' \in MachineState
        /\ timers' \subseteq [kind : {"settle", "window"}, left : Nat, epoch : Nat]
        /\ queue' \in Seq(MaybeRig) /\ Len(queue') <= QUEUE
        /\ sinceLoad' \in 0 .. SETTLE /\ opened' \in 0 .. WINDOW
        /\ swapped' \in BOOLEAN
        /\ mirror' \in [aim : MaybeRig, in_flight : BOOLEAN]
        /\ raised' \subseteq [do : {"Settled", "Dropped"}, index : Rig]
  <1>3. ASSUME NEW s \in MachineState, Quiet(w, s) PROVE Goal
    BY <1>2, <1>3, PublishType DEF Quiet
  <1>4. ASSUME NEW s \in MachineState, Loaded(w, s) PROVE Goal
    <2>1. machine' \in MachineState
      BY <1>4 DEF Loaded, MachineState, MaybeRig
    <2>2. timers' \subseteq [kind : {"settle", "window"}, left : Nat, epoch : Nat]
      BY <1>2, <1>4, Times DEF Loaded, Timer
    <2>3. queue' \in Seq(MaybeRig) /\ Len(queue') <= QUEUE
      <3>1. s.aim \in MaybeRig /\ queue' = Append(queue, s.aim) /\ Len(queue) + 2 <= QUEUE
        BY <1>4 DEF Loaded, CanSend, MaybeRig
      <3>2. QED
        BY <1>2, <3>1, Times
    <2>4. sinceLoad' \in 0 .. SETTLE /\ opened' \in 0 .. WINDOW
      BY <1>2, <1>4, Times DEF Loaded
    <2>5. Publish(w, machine', {}) /\ swapped' \in BOOLEAN
      BY <1>4 DEF Loaded
    <2>6. QED
      BY <2>1, <2>2, <2>3, <2>4, <2>5, PublishType
  <1>5. ASSUME NEW s \in MachineState, Turned(w, s) PROVE Goal
    <2>1. Dropped(s.aim) \in [do : {"Settled", "Dropped"}, index : Rig]
      BY <1>5 DEF Turned, Dropped
    <2>2. /\ Publish(w, Fresh, {Dropped(s.aim)})
          /\ machine' = Fresh /\ timers' = {}
          /\ UNCHANGED <<queue, sinceLoad, swapped, opened>>
      BY <1>5 DEF Turned
    <2>3. QED
      BY <1>2, <2>1, <2>2, FreshType, PublishType
  <1>6. ASSUME Windowed(w) PROVE Goal
    <2>1. machine' \in MachineState
      BY <1>2, <1>6 DEF Windowed, MachineState
    <2>2. timers' \subseteq [kind : {"settle", "window"}, left : Nat, epoch : Nat]
      BY <1>2, <1>6, Times DEF Windowed, Timer
    <2>3. /\ UNCHANGED <<queue, sinceLoad, swapped>> /\ opened' = 0
          /\ Publish(w, machine', {})
      BY <1>6 DEF Windowed
    <2>4. /\ mirror' \in [aim : MaybeRig, in_flight : BOOLEAN]
          /\ raised' \subseteq [do : {"Settled", "Dropped"}, index : Rig]
      BY <2>1, <2>3, PublishType
    <2>5. QED
      BY <1>2, <2>1, <2>2, <2>3, <2>4, Times
  <1>7. ASSUME Retired(w) PROVE Goal
    <2>1. machine' \in MachineState
      BY <1>2, <1>7 DEF Retired, MachineState, MaybeRig
    <2>2. /\ Settled(machine.aim) \in [do : {"Settled", "Dropped"}, index : Rig]
          /\ Dropped(machine.aim) \in [do : {"Settled", "Dropped"}, index : Rig]
      BY <1>7 DEF Retired, Settled, Dropped
    <2>3. /\ timers' \subseteq timers /\ UNCHANGED <<queue, sinceLoad, swapped, opened>>
          /\ \/ Publish(w, machine', {Settled(machine.aim)})
             \/ Publish(w, machine', {Dropped(machine.aim)})
      BY <1>7 DEF Retired
    <2>4. /\ mirror' \in [aim : MaybeRig, in_flight : BOOLEAN]
          /\ raised' \subseteq [do : {"Settled", "Dropped"}, index : Rig]
      BY <2>1, <2>2, <2>3, PublishType
    <2>5. QED
      BY <1>2, <2>1, <2>3, <2>4
  <1>8. ASSUME NEW s \in MachineState, Pumped(w, s) PROVE Goal
    BY <1>3, <1>4, <1>5, <1>8 DEF Pumped
  <1>9. /\ w.who \in Callers /\ w.index \in Rig
             => [machine EXCEPT !.aim = w.index] \in MachineState
        /\ [machine EXCEPT !.in_flight = FALSE] \in MachineState
    BY <1>2 DEF MachineState, MaybeRig
  <1>10. Goal
    <2> HIDE DEF Goal
    <2>1. QED
      BY <1>1, <1>2, <1>3, <1>6, <1>7, <1>8, <1>9 DEF Entered
  <1>11. QED
    BY <1>1, <1>10 DEF TypeOK

LEMMA InitType ==
  ASSUME Init
  PROVE  TypeOK
  <1>1. queue \in Seq(MaybeRig) /\ Len(queue) <= QUEUE
    BY EmptyQueue DEF Init
  <1>2. machine \in MachineState /\ mirror \in [aim : MaybeRig, in_flight : BOOLEAN]
    BY FreshType DEF Init
  <1>3. /\ sinceLoad \in 0 .. SETTLE /\ opened \in 0 .. WINDOW
        /\ downFor \in 0 .. COOLDOWN
    BY Times DEF Init
  <1>4. QED
    BY <1>1, <1>2, <1>3 DEF Init, TypeOK

LEMMA NextType ==
  ASSUME TypeOK, [Next]_vars
  PROVE  TypeOK'
  <1>1. ASSUME NEW c \in Callers, NEW i \in Rig, CallNavigate(c, i) PROVE TypeOK'
    BY <1>1 DEF TypeOK, CallNavigate, Entry
  <1>2. ASSUME NEW l \in Links, NEW i \in Rig, ReportPosition(l, i) PROVE TypeOK'
    BY <1>2 DEF TypeOK, ReportPosition, Entry
  <1>3. ASSUME NEW t \in timers, TimerFires(t) PROVE TypeOK'
    BY <1>3 DEF TypeOK, TimerFires, Entry
  <1>4. ASSUME NEW w \in waiting, Enter(w) PROVE TypeOK'
    BY <1>4, EnterType
  <1>5. CASE EnqueueOther
    <2>1. queue' \in Seq(MaybeRig) /\ Len(queue') <= QUEUE
      <3>1. None \in MaybeRig /\ queue' = Append(queue, None) /\ Len(queue) < QUEUE
        BY <1>5 DEF EnqueueOther, MaybeRig
      <3>2. QED
        BY <3>1, Times DEF TypeOK
    <2>2. QED
      BY <1>5, <2>1 DEF TypeOK, EnqueueOther
  <1>6. CASE WriteItem
    <2>1. queue' \in Seq(MaybeRig) /\ Len(queue') <= QUEUE
      BY <1>6, Times DEF TypeOK, WriteItem
    <2>2. QED
      BY <1>6, <2>1 DEF TypeOK, WriteItem
  <1>7. CASE LoseStream \/ RecycleLife \/ Close
    <2>1. queue' \in Seq(MaybeRig) /\ Len(queue') <= QUEUE
      BY <1>7, EmptyQueue DEF TypeOK, LoseStream, RecycleLife, Close, ShutQueue
    <2>2. QED
      BY <1>7, <2>1 DEF TypeOK, LoseStream, RecycleLife, Close, BeginTeardown,
                        ShutQueue
  <1>8. CASE BumpEpoch
    BY <1>8 DEF TypeOK, BumpEpoch, TeardownGoes
  <1>9. CASE AbortLinks
    <2>1. queue' \in Seq(MaybeRig) /\ Len(queue') <= QUEUE
      BY <1>9, EmptyQueue DEF AbortLinks, ShutQueue
    <2>2. QED
      BY <1>9, <2>1 DEF TypeOK, AbortLinks, TeardownGoes, ShutQueue
  <1>10. CASE Clear
    BY <1>10, FreshType DEF TypeOK, Clear, TeardownGoes
  <1>11. CASE EndLife
    BY <1>11, FreshType, Times DEF TypeOK, EndLife, TeardownGoes
  <1>12. CASE StartLife \/ SwapFails
    BY <1>12 DEF TypeOK, StartLife, SwapFails
  <1>13. CASE Tick
    <2>1. timers' \subseteq [kind : {"settle", "window"}, left : Nat, epoch : Nat]
      <3>1. timers' = {Aged(t) : t \in timers}
        BY <1>13 DEF Tick
      <3>2. ASSUME NEW t \in timers
            PROVE  Aged(t) \in [kind : {"settle", "window"}, left : Nat, epoch : Nat]
        BY DEF TypeOK, Aged
      <3>3. QED
        BY <3>1, <3>2
    <2>2. /\ sinceLoad' \in 0 .. SETTLE /\ opened' \in 0 .. WINDOW
          /\ downFor' \in 0 .. COOLDOWN
      BY <1>13, Times DEF TypeOK, Tick, Up
    <2>3. QED
      BY <1>13, <2>1, <2>2 DEF TypeOK, Tick
  <1>14. CASE UNCHANGED vars
    BY <1>14 DEF TypeOK, vars
  <1>15. QED
    BY <1>1, <1>2, <1>3, <1>4, <1>5, <1>6, <1>7, <1>8, <1>9, <1>10, <1>11, <1>12,
       <1>13, <1>14
       DEF Next, Arrive, TeardownStep

\* Every reachable state is of the declared type; in particular the stream's
\* queue never holds more than its capacity.
THEOREM TypeCorrect == Spec => []TypeOK
  <1>1. Init => TypeOK
    BY InitType
  <1>2. TypeOK /\ [Next]_vars => TypeOK'
    BY NextType
  <1>3. QED
    BY <1>1, <1>2, PTL DEF Spec

-----------------------------------------------------------------------------
(***************************************************************************)
(* What Enter does to the two flags and the timers of a life that is up.    *)
(***************************************************************************)
Idles(w) ==
  /\ w.who # "settle" /\ (w.who = "window" => ~machine.awaiting)
  /\ machine'.in_flight = machine.in_flight /\ machine'.awaiting = machine.awaiting
  /\ timers' = timers /\ UNCHANGED <<sinceLoad, swapped, queue>>

Rests(w) ==
  /\ w.who = "settle"
  /\ ~machine'.in_flight /\ ~machine'.awaiting
  /\ timers' = timers /\ UNCHANGED <<sinceLoad, swapped, queue>>

Departs(w) ==
  /\ ~machine.in_flight \/ w.who = "settle"
  /\ machine'.in_flight /\ ~machine'.awaiting
  /\ timers' = {Timer("settle", SETTLE, w.epoch)} /\ sinceLoad' = 0

Forgets(w) ==
  /\ ~machine.in_flight \/ w.who = "settle"
  /\ ~machine'.in_flight /\ ~machine'.awaiting
  /\ timers' = {} /\ UNCHANGED <<sinceLoad, swapped, queue>>

Opens(w) ==
  /\ w.who = "settle"
  /\ ~machine'.in_flight /\ machine'.awaiting
  /\ timers' = {t \in timers : t.kind # "window"}
                 \union {Timer("window", WINDOW, w.epoch)}
  /\ UNCHANGED <<sinceLoad, swapped, queue>>

Retires(w) ==
  /\ w.who # "settle"
  /\ machine'.in_flight = machine.in_flight /\ ~machine'.awaiting
  /\ timers' = {t \in timers : t.kind # "window"} /\ UNCHANGED <<sinceLoad, swapped, queue>>

Effect(w) ==
  Idles(w) \/ Rests(w) \/ Departs(w) \/ Forgets(w) \/ Opens(w) \/ Retires(w)

LEMMA PumpEffect ==
  ASSUME TypeOK, NEW w \in waiting, NEW s \in MachineState, Pumped(w, s),
         \/ /\ w.who # "settle" /\ w.who # "window"
            /\ s.in_flight = machine.in_flight /\ s.awaiting = machine.awaiting
         \/ w.who = "settle" /\ ~s.in_flight /\ ~s.awaiting
  PROVE  Effect(w)
  <1>1. CASE Quiet(w, s)
    BY <1>1 DEF Quiet, Effect, Idles, Rests
  <1>2. CASE Loaded(w, s)
    BY <1>2 DEF Loaded, Effect, Departs, MachineState
  <1>3. CASE Turned(w, s)
    BY <1>3 DEF Turned, Effect, Forgets, Fresh
  <1>4. QED
    BY <1>1, <1>2, <1>3 DEF Pumped

LEMMA EnterEffect ==
  ASSUME TypeOK, MachineShape, TimersMatch, open, NEW w \in waiting, Enter(w)
  PROVE  Effect(w)
  <1>1. Entered(w)
    BY EnterOutcome
  <1>2. /\ machine \in MachineState
        /\ {"settle", "window"} \intersect (Callers \union Links) = {}
    BY NavigatorAssumption DEF TypeOK
  <1>3. CASE w.who \in Callers /\ w.index \in Rig
               /\ Pumped(w, [machine EXCEPT !.aim = w.index])
    <2> DEFINE s == [machine EXCEPT !.aim = w.index]
    <2>1. s \in MachineState /\ w.who # "settle" /\ w.who # "window"
          /\ s.in_flight = machine.in_flight /\ s.awaiting = machine.awaiting
      BY <1>2, <1>3 DEF MachineState, MaybeRig
    <2>2. QED
      BY <1>3, <2>1, PumpEffect
  <1>4. CASE w.who \in Links /\ (Quiet(w, machine) \/ Retired(w))
    BY <1>2, <1>4 DEF Quiet, Retired, Effect, Idles, Retires, MachineState
  <1>5. CASE w.who = "settle" /\ Windowed(w)
    BY <1>2, <1>5 DEF Windowed, Effect, Opens, MachineState
  <1>6. CASE w.who = "settle" /\ Pumped(w, [machine EXCEPT !.in_flight = FALSE])
    <2> DEFINE s == [machine EXCEPT !.in_flight = FALSE]
    <2>1. machine.in_flight /\ ~machine.awaiting
      BY <1>6 DEF TimersMatch, MachineShape
    <2>2. s \in MachineState /\ ~s.in_flight /\ ~s.awaiting
      BY <1>2, <2>1 DEF MachineState
    <2>3. QED
      BY <1>6, <2>2, PumpEffect
  <1>7. CASE w.who = "window" /\ Retired(w)
    BY <1>2, <1>7 DEF Retired, Effect, Retires, MachineState
  <1>8. CASE /\ w.who = "window" /\ Quiet(w, machine)
             /\ ~(machine.awaiting /\ machine.aim # None)
    BY <1>2, <1>8 DEF Quiet, Effect, Idles, MachineShape
  <1>9. QED
    BY <1>1, <1>3, <1>4, <1>5, <1>6, <1>7, <1>8 DEF Entered

(***************************************************************************)
(* The conjuncts of the invariant, one lemma each.                          *)
(***************************************************************************)
Others == EnqueueOther \/ WriteItem \/ LoseStream \/ RecycleLife \/ Close
            \/ BumpEpoch \/ AbortLinks \/ SwapFails \/ UNCHANGED vars

\* The steps that leave machine, timers, waiting and sinceLoad alone and may
\* only shut the queue.
LEMMA OthersLeave ==
  ASSUME Others
  PROVE  /\ UNCHANGED <<machine, timers, waiting, sinceLoad, mirror, downFor>>
         /\ open' => open
  BY DEF Others, EnqueueOther, WriteItem, LoseStream, RecycleLife, Close,
         BumpEpoch, AbortLinks, SwapFails, BeginTeardown, TeardownGoes, ShutQueue,
         vars

LEMMA TickLeaves ==
  ASSUME TypeOK, Tick
  PROVE  /\ UNCHANGED <<machine, waiting, open, epoch, teardown, mirror, swapped>>
         /\ timers' = {Aged(t) : t \in timers}
         /\ \A t \in timers : /\ Aged(t).kind = t.kind /\ Aged(t).epoch = t.epoch
                              /\ Aged(t).left = (IF t.left > 0 THEN t.left - 1 ELSE 0)
  <1>1. ASSUME NEW t \in timers
        PROVE  /\ Aged(t).kind = t.kind /\ Aged(t).epoch = t.epoch
               /\ Aged(t).left = (IF t.left > 0 THEN t.left - 1 ELSE 0)
    BY DEF TypeOK, Aged
  <1>2. QED
    BY <1>1 DEF Tick

LEMMA ShapeKept ==
  ASSUME TypeOK, MachineShape, [Next]_vars
  PROVE  MachineShape'
  <1>0. machine \in MachineState
    BY DEF TypeOK
  <1>1. ASSUME NEW w \in waiting, Enter(w) PROVE MachineShape'
    <2>1. Entered(w)
      BY <1>1, EnterOutcome
    <2>2. ASSUME NEW s \in MachineState, Pumped(w, s),
                 s.in_flight \/ (s.sent = s.aim => s = machine \/ s.aim = None),
                 s.in_flight => ~s.awaiting,
                 s.aim = None => s.sent = None /\ ~s.awaiting
          PROVE  MachineShape'
      <3>1. CASE s.in_flight \/ s.aim = None \/ s.sent = s.aim
        <4>1. machine' = s
          BY <2>2, <3>1 DEF Pumped, Quiet
        <4>2. QED
          BY <2>2, <3>1, <4>1 DEF MachineShape
      <3>2. CASE Loaded(w, s)
        BY <3>2, NoneIsNoRig DEF Loaded, MachineShape, MachineState
      <3>3. CASE Turned(w, s)
        BY <3>3 DEF Turned, MachineShape, Fresh
      <3>4. QED
        BY <2>2, <3>1, <3>2, <3>3 DEF Pumped
    <2>3. CASE w.who \in Callers /\ w.index \in Rig
                 /\ Pumped(w, [machine EXCEPT !.aim = w.index])
      <3> DEFINE s == [machine EXCEPT !.aim = w.index]
      <3>1. /\ s \in MachineState /\ s.aim = w.index /\ s.in_flight = machine.in_flight
            /\ s.awaiting = machine.awaiting /\ s.sent = machine.sent
        BY <1>0, <2>3 DEF MachineState, MaybeRig
      <3>2. s.aim # None
        BY <2>3, <3>1, NoneIsNoRig
      <3>3. ASSUME ~s.in_flight, s.sent = s.aim PROVE s = machine
        <4>1. machine.aim = w.index
          BY <3>1, <3>2, <3>3 DEF MachineShape
        <4>2. QED
          BY <1>0, <4>1 DEF MachineState
      <3>4. Pumped(w, s)
        BY <2>3
      <3> HIDE DEF s
      <3>5. s.in_flight => ~s.awaiting
        BY <3>1 DEF MachineShape
      <3>6. QED
        BY <2>2, <3>1, <3>2, <3>3, <3>4, <3>5
    <2>4. CASE w.who = "settle" /\ ~(machine.aim # None /\ machine.aim = machine.sent)
                 /\ Pumped(w, [machine EXCEPT !.in_flight = FALSE])
      <3> DEFINE s == [machine EXCEPT !.in_flight = FALSE]
      <3>1. s \in MachineState /\ ~s.in_flight /\ s.aim = machine.aim
            /\ s.awaiting = machine.awaiting /\ s.sent = machine.sent
        BY <1>0 DEF MachineState
      <3>2. QED
        BY <2>2, <2>4, <3>1 DEF MachineShape
    <2>5. CASE Quiet(w, machine)
      BY <2>5 DEF Quiet, MachineShape
    <2>6. CASE Retired(w)
      BY <1>0, <2>6 DEF Retired, MachineShape, MachineState
    <2>7. CASE Windowed(w)
      BY <1>0, <2>7 DEF Windowed, MachineShape, MachineState
    <2>8. QED
      BY <2>1, <2>3, <2>4, <2>5, <2>6, <2>7 DEF Entered
  <1>2. CASE Clear
    BY <1>2 DEF Clear, Fresh, MachineShape
  <1>3. CASE Arrive \/ EndLife \/ StartLife
    BY <1>3 DEF Arrive, CallNavigate, ReportPosition, TimerFires, EndLife,
                StartLife, MachineShape
  <1>4. CASE Others \/ Tick
    BY <1>4, OthersLeave, TickLeaves DEF MachineShape
  <1>5. QED
    BY <1>1, <1>2, <1>3, <1>4 DEF Next, TeardownStep, Others

LEMMA TimersKept ==
  ASSUME TypeOK, MachineShape, TimersMatch, ClearedIsFresh, ~Stalls, [Next]_vars
  PROVE  TimersMatch'
  <1>1. ASSUME NEW w \in waiting, Enter(w), open PROVE TimersMatch'
    <2>1. Effect(w) /\ waiting' = waiting \ {w} /\ open'
      BY <1>1, EnterEffect, EnterOutcome
    <2>2. CASE Idles(w)
      BY <1>1, <2>1, <2>2 DEF Idles, TimersMatch
    <2>3. CASE Rests(w)
      BY <1>1, <2>1, <2>3 DEF Rests, TimersMatch, MachineShape
    <2>4. CASE Departs(w)
      <3>1. \A v \in waiting' : v.who # "settle"
        BY <1>1, <2>1, <2>4 DEF Departs, TimersMatch
      <3>2. QED
        BY <2>1, <2>4, <3>1 DEF Departs, TimersMatch, Timer
    <2>5. CASE Forgets(w)
      BY <1>1, <2>1, <2>5 DEF Forgets, TimersMatch
    <2>6. CASE Opens(w)
      BY <1>1, <2>1, <2>6 DEF Opens, TimersMatch, Timer
    <2>7. CASE Retires(w)
      BY <1>1, <2>1, <2>7 DEF Retires, TimersMatch, TypeOK
    <2>8. QED
      BY <2>1, <2>2, <2>3, <2>4, <2>5, <2>6, <2>7 DEF Effect
  <1>2. ASSUME NEW w \in waiting, Enter(w), ~open PROVE TimersMatch'
    BY <1>2, EnterOutcome DEF TimersMatch
  <1>3. ASSUME NEW c \in Callers, NEW i \in Rig, CallNavigate(c, i) PROVE TimersMatch'
    BY <1>3, NavigatorAssumption DEF CallNavigate, Entry, TimersMatch
  <1>4. ASSUME NEW l \in Links, NEW i \in Rig, ReportPosition(l, i) PROVE TimersMatch'
    BY <1>4, NavigatorAssumption DEF ReportPosition, Entry, TimersMatch
  <1>5. ASSUME NEW t \in timers, TimerFires(t) PROVE TimersMatch'
    BY <1>5 DEF TimerFires, Entry, TimersMatch
  <1>6. CASE Clear
    BY <1>6 DEF Clear, TeardownGoes, ClearedIsFresh, TimersMatch
  <1>7. CASE EndLife
    BY <1>7 DEF EndLife, TeardownGoes, TimersMatch
  <1>8. CASE StartLife
    BY <1>8 DEF StartLife, ClearedIsFresh, TimersMatch
  <1>9. CASE Tick
    <2>1. CASE open
      <3>1. \A s, t \in timers' : s.kind = t.kind => s = t
        BY <1>9, <2>1, TickLeaves DEF TimersMatch
      <3>2. QED
        BY <1>9, <2>1, <3>1, TickLeaves DEF TimersMatch
    <2>2. QED
      BY <1>9, <2>1, TickLeaves DEF TimersMatch
  <1>10. CASE Others
    BY <1>10, OthersLeave DEF TimersMatch
  <1>11. QED
    BY <1>1, <1>2, <1>3, <1>4, <1>5, <1>6, <1>7, <1>8, <1>9, <1>10
       DEF Next, Arrive, TeardownStep, Others

\* With the queue shut a cleared machine stays cleared, whoever comes late.
LEMMA LateEntersCleared ==
  ASSUME TypeOK, ~open, machine = Fresh, timers = {}, NEW w \in waiting, Enter(w)
  PROVE  /\ machine' = Fresh /\ timers' = {}
         /\ mirror' = mirror \/ mirror' = Navigation(Fresh)
  <1>1. Entered(w)
    BY EnterOutcome
  <1>2. \A s : Quiet(w, s) => /\ machine' = s /\ timers' = {}
                              /\ mirror' = mirror \/ mirror' = Navigation(s)
    BY DEF Quiet, Publish
  <1>3. \A s : ~Loaded(w, s)
    BY DEF Loaded, CanSend
  <1>4. \A s : Turned(w, s) => /\ machine' = Fresh /\ timers' = {}
                               /\ mirror' = mirror \/ mirror' = Navigation(Fresh)
    BY DEF Turned, Publish
  <1>5. ~Retired(w) /\ ~Windowed(w)
    BY NoneIsNoRig DEF Retired, Windowed, Fresh
  <1>6. ASSUME NEW i \in Rig, Pumped(w, [machine EXCEPT !.aim = i])
        PROVE  Turned(w, [machine EXCEPT !.aim = i])
    BY <1>3, <1>6, NoneIsNoRig DEF Pumped, Fresh
  <1>7. [machine EXCEPT !.in_flight = FALSE] = Fresh
    <2>1. machine \in MachineState /\ machine.in_flight = FALSE
      BY DEF Fresh, TypeOK
    <2>2. [machine EXCEPT !.in_flight = FALSE] = machine
      BY <2>1 DEF MachineState
    <2>3. QED
      BY <2>2
  <1>8. Pumped(w, Fresh) => Quiet(w, Fresh)
    BY DEF Pumped, Fresh
  <1>9. Quiet(w, Fresh) \/ \E s : Turned(w, s)
    BY <1>1, <1>5, <1>6, <1>7, <1>8 DEF Entered
  <1>10. QED
    BY <1>2, <1>4, <1>9

LEMMA ClearedKept ==
  ASSUME TypeOK, ClearedIsFresh, [Next]_vars
  PROVE  ClearedIsFresh'
  <1>1. ASSUME NEW w \in waiting, Enter(w) PROVE ClearedIsFresh'
    BY <1>1, EnterOutcome, LateEntersCleared DEF ClearedIsFresh
  <1>2. ASSUME NEW t \in timers, TimerFires(t) PROVE ClearedIsFresh'
    BY <1>2 DEF TimerFires, ClearedIsFresh
  <1>3. CASE Tick
    BY <1>3, TickLeaves DEF ClearedIsFresh
  <1>4. CASE \/ \E c \in Callers, i \in Rig : CallNavigate(c, i)
             \/ \E l \in Links, i \in Rig : ReportPosition(l, i)
             \/ EnqueueOther \/ WriteItem \/ StartLife \/ SwapFails \/ UNCHANGED vars
    BY <1>4 DEF CallNavigate, ReportPosition, EnqueueOther, WriteItem, StartLife,
                SwapFails, vars, ClearedIsFresh
  <1>5. CASE LoseStream \/ RecycleLife \/ Close \/ BumpEpoch
    BY <1>5 DEF LoseStream, RecycleLife, Close, BumpEpoch, BeginTeardown,
                TeardownGoes, ShutQueue, ClearedIsFresh
  <1>6. CASE AbortLinks
    BY <1>6 DEF AbortLinks, TeardownGoes, ShutQueue, ClearedIsFresh
  <1>7. CASE Clear \/ EndLife
    BY <1>7 DEF Clear, EndLife, TeardownGoes, ClearedIsFresh
  <1>8. QED
    BY <1>1, <1>2, <1>3, <1>4, <1>5, <1>6, <1>7 DEF Next, Arrive, TeardownStep

LEMMA PacedKept ==
  ASSUME TypeOK, MachineShape, TimersMatch, ClearedIsFresh, Paced, ~Stalls,
         [Next]_vars
  PROVE  Paced'
  <1>0. sinceLoad \in 0 .. SETTLE /\ downFor \in 0 .. COOLDOWN
        /\ \A t \in timers : t.left \in Nat
    BY DEF TypeOK
  <1>1. ASSUME NEW w \in waiting, Enter(w), open PROVE Paced'
    <2>1. /\ Effect(w) /\ waiting' = waiting \ {w}
          /\ open' = open /\ downFor' = downFor /\ teardown' = teardown
      BY <1>1, EnterEffect, EnterOutcome
    <2>2. CASE Departs(w)
      <3>1. \A v \in waiting' : v.who # "settle"
        BY <1>1, <2>1, <2>2 DEF Departs, TimersMatch
      <3>2. \A t \in timers' : t.left + sinceLoad' >= SETTLE
        BY <2>2, Times DEF Departs, Timer
      <3>3. QED
        BY <1>1, <2>1, <2>2, <3>1, <3>2 DEF Departs, Paced
    <2>3. CASE Idles(w) \/ Retires(w)
      BY <1>1, <2>1, <2>3 DEF Idles, Retires, Paced
    <2>4. CASE Rests(w) \/ Forgets(w)
      BY <1>1, <2>1, <2>4 DEF Rests, Forgets, Paced
    <2>5. CASE Opens(w)
      <3>1. \A t \in timers' : t.kind = "settle" => t \in timers
        BY <2>5 DEF Opens, Timer
      <3>2. QED
        BY <1>1, <2>1, <2>5, <3>1 DEF Opens, Paced
    <2>6. QED
      BY <2>1, <2>2, <2>3, <2>4, <2>5 DEF Effect
  <1>2. ASSUME NEW w \in waiting, Enter(w), ~open PROVE Paced'
    <2>1. /\ open' = open /\ downFor' = downFor /\ teardown' = teardown
      BY <1>2, EnterOutcome
    <2>2. sinceLoad' = sinceLoad
      <3>1. Entered(w)
        BY <1>2, EnterOutcome
      <3>2. \A s : ~Loaded(w, s)
        BY <1>2 DEF Loaded, CanSend
      <3>3. \A s : Pumped(w, s) => sinceLoad' = sinceLoad
        BY <3>2 DEF Pumped, Quiet, Turned
      <3>4. QED
        BY <3>1, <3>3 DEF Entered, Quiet, Retired, Windowed
    <2>3. QED
      BY <1>2, <2>1, <2>2 DEF Paced
  <1>3. ASSUME NEW c \in Callers, NEW i \in Rig, CallNavigate(c, i) PROVE Paced'
    BY <1>3, NavigatorAssumption DEF CallNavigate, Entry, Paced
  <1>4. ASSUME NEW l \in Links, NEW i \in Rig, ReportPosition(l, i) PROVE Paced'
    BY <1>4, NavigatorAssumption DEF ReportPosition, Entry, Paced
  <1>5. ASSUME NEW t \in timers, TimerFires(t) PROVE Paced'
    <2>1. open /\ t.kind = "settle" => sinceLoad >= SETTLE
      BY <1>0, <1>5, Times DEF TimerFires, Paced
    <2>2. QED
      BY <1>5, <2>1 DEF TimerFires, Entry, Paced
  <1>6. CASE EndLife
    BY <1>0, <1>6, Times DEF EndLife, TeardownGoes, ClearedIsFresh, Paced
  <1>7. CASE Clear
    BY <1>7 DEF Clear, TeardownGoes, ClearedIsFresh, Paced
  <1>8. CASE StartLife
    <2>1. sinceLoad >= SETTLE \/ swapped'
      BY <1>0, <1>8, Times DEF StartLife, ReadyToDial, Paced
    <2>2. QED
      BY <1>8, <2>1 DEF StartLife, ClearedIsFresh, Paced
  <1>9. CASE Tick
    <2>1. sinceLoad' >= sinceLoad /\ (sinceLoad' = sinceLoad + 1 \/ sinceLoad' = SETTLE)
      BY <1>0, <1>9, Times DEF Tick, Up
    <2>2. ASSUME NEW t \in timers, t.left + sinceLoad >= SETTLE
          PROVE  Aged(t).left + sinceLoad' >= SETTLE
      BY <1>0, <1>9, <2>1, <2>2, TickLeaves, Times
    <2>3. ~open' /\ teardown' = "none" => sinceLoad' >= SETTLE \/ sinceLoad' >= downFor'
      BY <1>0, <1>9, <2>1, Times DEF Tick, Up, Paced
    <2>4. CASE open
      <3>1. \A t \in timers' : t.kind = "settle" => t.left + sinceLoad' >= SETTLE
        BY <1>9, <2>2, <2>4, TickLeaves DEF Paced
      <3>2. sinceLoad >= SETTLE => sinceLoad' >= SETTLE
        BY <1>0, <2>1, Times
      <3>3. QED
        BY <1>9, <2>3, <2>4, <3>1, <3>2, TickLeaves DEF Paced
    <2>5. QED
      BY <1>9, <2>3, <2>4, TickLeaves DEF Paced
  <1>10. CASE LoseStream \/ RecycleLife \/ Close \/ BumpEpoch \/ AbortLinks
    BY <1>10 DEF LoseStream, RecycleLife, Close, BumpEpoch, AbortLinks,
                 BeginTeardown, TeardownGoes, ShutQueue, Paced
  <1>11. CASE EnqueueOther \/ WriteItem \/ SwapFails \/ UNCHANGED vars
    BY <1>11 DEF EnqueueOther, WriteItem, SwapFails, vars, Paced
  <1>12. QED
    BY <1>1, <1>2, <1>3, <1>4, <1>5, <1>6, <1>7, <1>8, <1>9, <1>10, <1>11
       DEF Next, Arrive, TeardownStep

LEMMA AttachedKept ==
  ASSUME TypeOK, MachineShape, TimersMatch, ClearedIsFresh, AttachedIsCurrent,
         ~Stalls, [Next]_vars
  PROVE  AttachedIsCurrent'
  <1>1. ASSUME NEW w \in waiting, Enter(w), Attached' PROVE AttachedIsCurrent'
    <2>1. /\ waiting' = waiting \ {w} /\ epoch' = epoch /\ Attached /\ open
      BY <1>1, EnterOutcome DEF Attached
    <2>2. Effect(w) /\ w.epoch = epoch
      BY <1>1, <2>1, EnterEffect DEF AttachedIsCurrent
    <2>3. CASE Idles(w)
      <3>1. machine.in_flight => Settling(epoch)'
        BY <2>1, <2>3 DEF Idles, AttachedIsCurrent, Settling
      <3>2. machine.awaiting => Opening(epoch)'
        BY <1>1, <2>1, <2>3 DEF Idles, AttachedIsCurrent, Opening
      <3>3. QED
        BY <2>1, <2>3, <3>1, <3>2 DEF Idles, AttachedIsCurrent
    <2>4. CASE Rests(w)
      BY <2>1, <2>4 DEF Rests, AttachedIsCurrent
    <2>5. CASE Departs(w)
      BY <2>1, <2>2, <2>5 DEF Departs, AttachedIsCurrent, Settling, Timer
    <2>6. CASE Forgets(w)
      BY <2>1, <2>6 DEF Forgets, AttachedIsCurrent
    <2>7. CASE Opens(w)
      <3> DEFINE t == Timer("window", WINDOW, w.epoch)
      <3>a. t \in timers' /\ t.kind = "window" /\ t.epoch = epoch'
        BY <2>1, <2>2, <2>7 DEF Opens, Timer
      <3> HIDE DEF t
      <3>1. Opening(epoch)'
        BY <3>a DEF Opening
      <3>2. QED
        BY <2>1, <2>2, <2>7, <3>1 DEF Opens, AttachedIsCurrent, Timer
    <2>8. CASE Retires(w)
      <3>1. machine.in_flight => Settling(epoch)'
        BY <2>1, <2>8 DEF Retires, AttachedIsCurrent, Settling
      <3>2. QED
        BY <2>1, <2>8, <3>1 DEF Retires, AttachedIsCurrent
    <2>9. QED
      BY <2>2, <2>3, <2>4, <2>5, <2>6, <2>7, <2>8 DEF Effect
  <1>2. ASSUME NEW c \in Callers, NEW i \in Rig, CallNavigate(c, i)
        PROVE  AttachedIsCurrent'
    BY <1>2 DEF CallNavigate, Entry, Attached, AttachedIsCurrent, Settling, Opening
  <1>3. ASSUME NEW l \in Links, NEW i \in Rig, ReportPosition(l, i)
        PROVE  AttachedIsCurrent'
    BY <1>3 DEF ReportPosition, Entry, Attached, AttachedIsCurrent, Settling, Opening
  <1>4. ASSUME NEW t \in timers, TimerFires(t) PROVE AttachedIsCurrent'
    <2>1. /\ UNCHANGED <<machine, open, teardown, epoch>>
          /\ timers' = timers \ {t}
          /\ waiting' = IF t.epoch = epoch
                          THEN waiting \union {Entry(t.kind, epoch, None)} ELSE waiting
      BY <1>4 DEF TimerFires
    <2>2. SUFFICES ASSUME Attached PROVE AttachedIsCurrent'
      BY <2>1 DEF AttachedIsCurrent, Attached
    <2>3. waiting' = waiting \union {Entry(t.kind, epoch, None)}
      BY <2>1, <2>2 DEF AttachedIsCurrent
    <2> DEFINE v == Entry(t.kind, epoch, None)
    <2>a. /\ v \in waiting' /\ v.who = t.kind /\ v.epoch = epoch
          /\ waiting \subseteq waiting' /\ epoch' = epoch
          /\ \A s \in timers : s = t \/ s \in timers'
      BY <2>1, <2>3 DEF Entry
    <2> HIDE DEF v
    <2>4. Settling(epoch) => Settling(epoch)'
      BY <2>a DEF Settling
    <2>5. Opening(epoch) => Opening(epoch)'
      BY <2>a DEF Opening
    <2>6. QED
      BY <2>1, <2>2, <2>3, <2>4, <2>5 DEF AttachedIsCurrent, Entry
  <1>5. CASE StartLife
    BY <1>5 DEF StartLife, ClearedIsFresh, Fresh, AttachedIsCurrent
  <1>6. CASE Tick
    <2>0. ASSUME NEW t \in timers
          PROVE  /\ Aged(t) \in timers'
                 /\ Aged(t).kind = t.kind /\ Aged(t).epoch = t.epoch
      BY <1>6, TickLeaves
    <2>a. UNCHANGED <<waiting, epoch>>
      BY <1>6, TickLeaves
    <2>1. Settling(epoch) => Settling(epoch)'
      BY <2>0, <2>a DEF Settling
    <2>2. Opening(epoch) => Opening(epoch)'
      BY <2>0, <2>a DEF Opening
    <2>3. \A t \in timers' : \E s \in timers : t.epoch = s.epoch
      BY <1>6, TickLeaves
    <2>4. QED
      BY <1>6, <2>1, <2>2, <2>3, TickLeaves DEF AttachedIsCurrent, Attached
  <1>7. CASE EnqueueOther \/ WriteItem \/ SwapFails \/ UNCHANGED vars
    BY <1>7 DEF EnqueueOther, WriteItem, SwapFails, vars, AttachedIsCurrent, Attached,
                Settling, Opening
  <1>8. CASE LoseStream \/ Close \/ BumpEpoch \/ AbortLinks \/ Clear
    BY <1>8 DEF LoseStream, Close, BumpEpoch, AbortLinks, Clear, BeginTeardown,
                TeardownGoes, ShutQueue, AttachedIsCurrent, Attached
  <1>9. CASE RecycleLife
    BY <1>9 DEF RecycleLife, BeginTeardown, AttachedIsCurrent, Attached, Settling,
                Opening
  <1>10. CASE EndLife
    BY <1>10 DEF EndLife, TeardownGoes, ClearedIsFresh, AttachedIsCurrent, Attached
  <1>11. QED
    BY <1>1, <1>2, <1>3, <1>4, <1>5, <1>6, <1>7, <1>8, <1>9, <1>10
       DEF Next, Arrive, TeardownStep, AttachedIsCurrent

LEMMA MirrorKept ==
  ASSUME TypeOK, MachineShape, TimersMatch, ClearedIsFresh, AttachedIsCurrent,
         MirrorAgrees, ~Stalls, [Next]_vars
  PROVE  MirrorAgrees'
  <1>1. ASSUME NEW w \in waiting, Enter(w), teardown = "none" PROVE MirrorAgrees'
    <2>1. UNCHANGED teardown /\ Entered(w)
      BY <1>1, EnterOutcome
    <2>2. CASE open
      <3>1. w.epoch = epoch
        BY <1>1, <2>2 DEF AttachedIsCurrent, Attached
      <3>2. \A s, E : Publish(w, s, E) => mirror' = Navigation(s)
        BY <3>1 DEF Publish
      <3>3. \A s : Pumped(w, s) => mirror' = Navigation(machine')
        BY <3>2 DEF Pumped, Quiet, Loaded, Turned
      <3>4. QED
        BY <2>1, <3>2, <3>3 DEF Entered, Quiet, Retired, Windowed, MirrorAgrees
    <2>3. CASE ~open
      BY <1>1, <2>3, LateEntersCleared DEF ClearedIsFresh, MirrorAgrees
    <2>4. QED
      BY <2>2, <2>3
  <1>2. ASSUME NEW w \in waiting, Enter(w), teardown # "none" PROVE MirrorAgrees'
    BY <1>2, EnterOutcome DEF MirrorAgrees
  <1>3. ASSUME NEW t \in timers, TimerFires(t) PROVE MirrorAgrees'
    BY <1>3 DEF TimerFires, MirrorAgrees
  <1>4. CASE EndLife
    BY <1>4 DEF EndLife, TeardownGoes, ClearedIsFresh, MirrorAgrees
  <1>5. CASE Tick
    BY <1>5, TickLeaves DEF MirrorAgrees
  <1>6. CASE \/ \E c \in Callers, i \in Rig : CallNavigate(c, i)
             \/ \E l \in Links, i \in Rig : ReportPosition(l, i)
             \/ EnqueueOther \/ WriteItem \/ StartLife \/ SwapFails \/ UNCHANGED vars
    BY <1>6 DEF CallNavigate, ReportPosition, EnqueueOther, WriteItem, StartLife,
                SwapFails, vars, MirrorAgrees
  <1>7. CASE LoseStream \/ RecycleLife \/ Close \/ BumpEpoch \/ AbortLinks \/ Clear
    BY <1>7 DEF LoseStream, RecycleLife, Close, BumpEpoch, AbortLinks, Clear,
                BeginTeardown, TeardownGoes, MirrorAgrees
  <1>8. QED
    BY <1>1, <1>2, <1>3, <1>4, <1>5, <1>6, <1>7 DEF Next, Arrive, TeardownStep

\* What has rung was given its time.
LEMMA WindowKept ==
  ASSUME TypeOK, MachineShape, TimersMatch, ClearedIsFresh, WindowTimed, [Next]_vars
  PROVE  WindowTimed'
  <1>0. /\ opened \in 0 .. WINDOW
        /\ \A t \in timers : t.left \in Nat /\ t.kind \in {"settle", "window"}
    BY DEF TypeOK
  \* Fewer timers, and fewer at the lock.
  <1>a. ASSUME timers' \subseteq timers, waiting' \subseteq waiting, opened' = opened
        PROVE  WindowTimed'
    <2>1. \A kind : Ripe(kind)' => Ripe(kind)
      BY <1>a DEF Ripe
    <2>2. QED
      BY <1>a, <2>1 DEF WindowTimed
  \* Somebody else comes to the lock.
  <1>b. ASSUME NEW v, v.who \notin {"settle", "window"}, waiting' = waiting \union {v},
               UNCHANGED <<timers, opened>>
        PROVE  WindowTimed'
    <2>1. \A kind \in {"settle", "window"} : Ripe(kind)' => Ripe(kind)
      BY <1>b DEF Ripe
    <2>2. QED
      BY <1>b, <2>1 DEF WindowTimed
  <1>1. ASSUME NEW w \in waiting, Enter(w) PROVE WindowTimed'
    <2>1. Entered(w) /\ waiting' \subseteq waiting
      BY <1>1, EnterOutcome
    <2>2. CASE \E s : Quiet(w, s) \/ Turned(w, s)
      BY <1>a, <2>1, <2>2 DEF Quiet, Turned
    <2>3. CASE Retired(w)
      BY <1>a, <2>1, <2>3 DEF Retired
    <2>4. CASE \E s : Loaded(w, s)
      <3>1. timers' = {Timer("settle", SETTLE, w.epoch)} /\ opened' = opened
        BY <2>4 DEF Loaded
      <3>2. \A t \in timers' : t.kind = "settle" /\ t.left # 0
        BY <3>1, Times DEF Timer
      <3>3. \A kind : Ripe(kind)' => Ripe(kind)
        BY <2>1, <3>2 DEF Ripe
      <3>4. QED
        BY <2>1, <3>1, <3>2, <3>3 DEF WindowTimed
    <2>5. CASE w.who = "settle" /\ Windowed(w)
      <3>1. \A v \in waiting : v.who # "window"
        BY <2>5 DEF WindowTimed, Ripe
      <3>2. \A t \in timers' : t.kind = "window" => t.left = WINDOW
        BY <2>5 DEF Windowed, Timer
      <3>3. opened' = 0
        BY <2>5 DEF Windowed
      <3>4. ~Ripe("window")'
        BY <2>1, <3>1, <3>2, Times DEF Ripe
      <3>5. QED
        BY <2>1, <3>1, <3>2, <3>3, <3>4, Times DEF WindowTimed
    <2>6. QED
      BY <2>1, <2>2, <2>3, <2>4, <2>5 DEF Entered, Pumped
  <1>2. ASSUME NEW c \in Callers, NEW i \in Rig, CallNavigate(c, i) PROVE WindowTimed'
    BY <1>b, <1>2, NavigatorAssumption DEF CallNavigate, Entry
  <1>3. ASSUME NEW l \in Links, NEW i \in Rig, ReportPosition(l, i) PROVE WindowTimed'
    BY <1>b, <1>3, NavigatorAssumption DEF ReportPosition, Entry
  <1>4. ASSUME NEW t \in timers, TimerFires(t) PROVE WindowTimed'
    <2>1. /\ timers' \subseteq timers /\ opened' = opened /\ t.left = 0
          /\ \A v \in waiting' : v \in waiting \/ v.who = t.kind
      BY <1>4 DEF TimerFires, Entry
    <2>2. \A kind : Ripe(kind)' => Ripe(kind)
      BY <2>1 DEF Ripe
    <2>3. t.kind = "window" => opened >= WINDOW
      BY <1>0, <2>1, Times DEF WindowTimed
    <2>4. QED
      BY <2>1, <2>2, <2>3 DEF WindowTimed
  <1>5. CASE Tick
    <2>1. /\ UNCHANGED waiting /\ timers' = {Aged(t) : t \in timers}
          /\ \A t \in timers :
               /\ Aged(t).kind = t.kind
               /\ Aged(t).left = (IF t.left > 0 THEN t.left - 1 ELSE 0)
      BY <1>5, TickLeaves
    <2>2. /\ opened' = (IF opened < WINDOW THEN opened + 1 ELSE opened)
          /\ teardown = "none" /\ \A w \in waiting : w.who \notin {"settle", "window"}
      BY <1>5 DEF Tick, Up
    <2>3. ASSUME NEW t \in timers, t.kind = "window"
          PROVE  Aged(t).left + opened' >= WINDOW
      <3>1. t.left + opened >= WINDOW /\ t.left \in Nat
        BY <1>0, <2>3 DEF WindowTimed
      <3>2. QED
        BY <1>0, <2>1, <2>2, <3>1, Times
    <2>4. ~(Ripe("settle")' /\ Ripe("window")')
      <3>1. CASE open
        BY <2>1, <2>2, <3>1 DEF Ripe, TimersMatch, MachineShape
      <3>2. CASE ~open
        <4>1. timers = {}
          BY <2>2, <3>2 DEF ClearedIsFresh
        <4>2. QED
          BY <2>1, <2>2, <4>1 DEF Ripe
      <3>3. QED
        BY <3>1, <3>2
    <2>5. QED
      BY <2>1, <2>2, <2>3, <2>4 DEF WindowTimed
  <1>6. CASE Clear
    BY <1>a, <1>6 DEF Clear, TeardownGoes
  <1>7. CASE \/ EnqueueOther \/ WriteItem \/ LoseStream \/ RecycleLife \/ Close
             \/ BumpEpoch \/ AbortLinks \/ EndLife \/ StartLife \/ SwapFails
             \/ UNCHANGED vars
    BY <1>a, <1>7 DEF EnqueueOther, WriteItem, LoseStream, RecycleLife, Close, BumpEpoch,
                      AbortLinks, EndLife, StartLife, SwapFails, BeginTeardown,
                      TeardownGoes, vars
  <1>8. QED
    BY <1>1, <1>2, <1>3, <1>4, <1>5, <1>6, <1>7 DEF Next, Arrive, TeardownStep

(***************************************************************************)
(* The theorems.                                                            *)
(***************************************************************************)

\* IInv holds of every reachable state: what the machine remembers, the timers
\* asleep, whoever waits at the lock and the epoch always fit together.
THEOREM Inductive ==
  ASSUME ~Stalls
  PROVE  Spec => []IInv
  <1>1. Init => IInv
    <2> SUFFICES ASSUME Init PROVE IInv
      OBVIOUS
    <2>1. TypeOK
      BY InitType
    <2>2. ~Fresh.in_flight /\ ~Fresh.awaiting /\ Fresh.aim = None /\ Fresh.sent = None
      BY DEF Fresh
    <2>3. MachineShape
      BY <2>2 DEF Init, MachineShape
    <2>4. TimersMatch /\ ClearedIsFresh
      BY DEF Init, TimersMatch, ClearedIsFresh
    <2>5. Paced
      BY Times DEF Init, Paced
    <2>6. AttachedIsCurrent /\ MirrorAgrees
      BY <2>2 DEF Init, AttachedIsCurrent, MirrorAgrees
    <2>7. WindowTimed
      BY DEF Init, WindowTimed, Ripe
    <2>8. QED
      BY <2>1, <2>3, <2>4, <2>5, <2>6, <2>7 DEF IInv
  <1>2. IInv /\ [Next]_vars => IInv'
    <2> SUFFICES ASSUME IInv, [Next]_vars PROVE IInv'
      OBVIOUS
    <2>1. /\ TypeOK /\ MachineShape /\ TimersMatch /\ ClearedIsFresh
          /\ Paced /\ AttachedIsCurrent /\ MirrorAgrees /\ WindowTimed
      BY DEF IInv
    <2>2. TypeOK' /\ MachineShape' /\ TimersMatch' /\ ClearedIsFresh'
      BY <2>1, NextType, ShapeKept, TimersKept, ClearedKept
    <2>3. Paced' /\ AttachedIsCurrent' /\ MirrorAgrees' /\ WindowTimed'
      BY <2>1, PacedKept, AttachedKept, MirrorKept, WindowKept
    <2>4. QED
      BY <2>2, <2>3 DEF IInv
  <1>3. QED
    BY <1>1, <1>2, PTL DEF Spec

\* With a life up, a move in flight always has a live settle timer and an aim
\* awaiting confirmation a live window timer: navigate() is never left waiting
\* for a timer that nobody runs.
THEOREM Unwedged ==
  ASSUME ~Stalls
  PROVE  Spec => []NeverWedged
  <1>1. IInv => NeverWedged
    BY DEF IInv, AttachedIsCurrent, Attached, NeverWedged
  <1>2. QED
    BY <1>1, Inductive, PTL

\* Between two teardowns DeviceState.navigation is what the machine says.
THEOREM MirrorCorrect ==
  ASSUME ~Stalls
  PROVE  Spec => []MirrorAgrees
  <1>1. IInv => MirrorAgrees
    BY DEF IInv
  <1>2. QED
    BY <1>1, Inductive, PTL

\* Two rig loads are never queued closer than RIG_LOAD_SETTLE_MS, in one life or
\* across a lost stream and its redial; only the first load of a life that a swap
\* began may be.
THEOREM LoadsKeepTheSettle ==
  ASSUME ~Stalls
  PROVE  Spec => LoadsPaced
  <1>1. IInv /\ [Next]_vars => [LoadQueued => sinceLoad >= SETTLE \/ swapped]_vars
    <2> SUFFICES ASSUME IInv, [Next]_vars, LoadQueued
                 PROVE  sinceLoad >= SETTLE \/ swapped
      OBVIOUS
    <2>0. /\ TypeOK /\ MachineShape /\ TimersMatch /\ Paced
          /\ queue \in Seq(MaybeRig)
      BY DEF IInv, TypeOK
    <2>1. ASSUME NEW w \in waiting, Enter(w)
          PROVE  sinceLoad >= SETTLE \/ swapped
      <3>1. Entered(w)
        BY <2>0, <2>1, EnterOutcome
      <3>2. queue' # queue
        BY <2>0 DEF LoadQueued
      <3>3. \E s : Loaded(w, s)
        BY <3>1, <3>2 DEF Entered, Pumped, Quiet, Turned, Retired, Windowed
      <3>4. open
        BY <3>3 DEF Loaded, CanSend
      <3>5. Effect(w)
        BY <2>0, <2>1, <3>4, EnterEffect
      <3>6. CASE Departs(w)
        BY <2>0, <3>4, <3>6 DEF Departs, Paced
      <3>7. CASE Idles(w) \/ Retires(w) \/ Rests(w) \/ Forgets(w) \/ Opens(w)
        BY <3>2, <3>7 DEF Idles, Retires, Rests, Forgets, Opens
      <3>8. QED
        BY <3>5, <3>6, <3>7 DEF Effect
    <2>2. CASE EnqueueOther
      <3>1. None \in MaybeRig /\ queue' = Append(queue, None)
        BY <2>2 DEF EnqueueOther, MaybeRig
      <3>2. queue'[Len(queue')] = None
        BY <2>0, <3>1
      <3>3. QED
        BY <3>2 DEF LoadQueued
    <2>3. ASSUME queue' = queue PROVE FALSE
      BY <2>0, <2>3 DEF LoadQueued
    <2>4. ASSUME queue' = <<>> PROVE FALSE
      BY <2>0, <2>4 DEF LoadQueued
    <2>5. CASE WriteItem
      <3>1. Len(queue') = Len(queue) - 1
        BY <2>0, <2>5 DEF WriteItem
      <3>2. QED
        BY <2>0, <3>1 DEF LoadQueued
    <2>6. CASE Arrive \/ RecycleLife \/ BumpEpoch \/ Clear \/ EndLife \/ StartLife
                 \/ SwapFails \/ Tick \/ UNCHANGED vars
      BY <2>3, <2>6 DEF Arrive, CallNavigate, ReportPosition, TimerFires,
         RecycleLife, BumpEpoch, Clear, EndLife, StartLife, SwapFails, Tick, vars
    <2>7. CASE LoseStream \/ Close \/ AbortLinks
      BY <2>4, <2>7 DEF LoseStream, Close, AbortLinks, ShutQueue
    <2>8. QED
      BY <2>1, <2>2, <2>5, <2>6, <2>7 DEF Next, TeardownStep
  <1>2. QED
    BY <1>1, Inductive, PTL DEF Spec, LoadsPaced
\* Only an entry point under the lock, or a teardown, touches the machine: the rest
\* of the steps raise nothing.
LEMMA OnlyEnters ==
  ASSUME Next
  PROVE  \/ \E w \in waiting : Enter(w)
         \/ raised' = {} /\ (machine' = machine \/ teardown # "none")
  BY DEF Next, Arrive, CallNavigate, ReportPosition, TimerFires, EnqueueOther, WriteItem,
         LoseStream, RecycleLife, Close, BeginTeardown, TeardownStep, BumpEpoch, AbortLinks,
         Clear, EndLife, TeardownGoes, StartLife, SwapFails, Tick

\* While a life is up no aim goes away in silence: the client that asked for a rig is
\* told that it settled or that it was dropped.
THEOREM AimsAreTold ==
  ASSUME ~Stalls
  PROVE  Spec => NothingForgotten
  <1>1. IInv /\ [Next]_vars =>
          [machine.aim # None /\ machine'.aim = None /\ teardown = "none" /\ open
             => raised' # {}]_vars
    <2> SUFFICES ASSUME IInv, Next, machine.aim # None, machine'.aim = None,
                        teardown = "none", open
                 PROVE  raised' # {}
      OBVIOUS
    <2>1. TypeOK /\ AttachedIsCurrent /\ machine \in MachineState
      BY DEF IInv, TypeOK
    <2>2. PICK w \in waiting : Enter(w)
      BY OnlyEnters
    <2>3. Entered(w) /\ w.epoch = epoch
      BY <2>1, <2>2, EnterOutcome DEF AttachedIsCurrent, Attached
    <2>4. \A s, E : Publish(w, s, E) => raised' = E
      BY <2>3 DEF Publish
    <2>5. ASSUME NEW s \in MachineState, s.aim # None, Pumped(w, s) PROVE raised' # {}
      <3>1. ~Quiet(w, s)
        BY <2>5 DEF Quiet
      <3>2. ~Loaded(w, s)
        BY <2>5 DEF Loaded, MachineState
      <3>3. Turned(w, s) => raised' = {Dropped(s.aim)}
        BY <2>4 DEF Turned
      <3>4. QED
        BY <2>5, <3>1, <3>2, <3>3 DEF Pumped
    <2>6. CASE w.who \in Callers /\ w.index \in Rig /\ Pumped(w, [machine EXCEPT !.aim = w.index])
      BY <2>1, <2>5, <2>6, NoneIsNoRig DEF MachineState, MaybeRig
    <2>7. CASE Pumped(w, [machine EXCEPT !.in_flight = FALSE])
      BY <2>1, <2>5, <2>7 DEF MachineState
    <2>8. ~Quiet(w, machine)
      BY DEF Quiet
    <2>9. ~Windowed(w)
      BY <2>1 DEF Windowed, MachineState
    <2>10. Retired(w) => raised' # {}
      BY <2>4 DEF Retired
    <2>11. QED
      BY <2>3, <2>6, <2>7, <2>8, <2>9, <2>10 DEF Entered
  <1>2. QED
    BY <1>1, Inductive, PTL DEF Spec, NothingForgotten

\* An aim whose move has settled is given the whole PENDING_WINDOW_MS to be confirmed.
THEOREM WindowIsKept ==
  ASSUME ~Stalls
  PROVE  Spec => WindowHonoured
  <1>1. IInv /\ [Next]_vars =>
          [machine.awaiting /\ Dropped(machine.aim) \in raised' => opened >= WINDOW]_vars
    <2> SUFFICES ASSUME IInv, Next, machine.awaiting, Dropped(machine.aim) \in raised'
                 PROVE  opened >= WINDOW
      OBVIOUS
    <2>1. /\ TypeOK /\ WindowTimed /\ machine \in MachineState
          /\ machine.sent = machine.aim /\ machine.aim # None
      BY DEF IInv, TypeOK, MachineShape
    <2>2. PICK w \in waiting : Enter(w)
      BY OnlyEnters
    <2>3. Entered(w)
      BY <2>1, <2>2, EnterOutcome
    <2>4. \A s, E : Publish(w, s, E) => raised' \subseteq E
      BY DEF Publish
    <2>5. \A s : ~Quiet(w, s) /\ ~Loaded(w, s)
      BY <2>4 DEF Quiet, Loaded
    <2>6. ~Windowed(w)
      BY <2>4 DEF Windowed
    <2>7. CASE w.who \in Callers /\ Pumped(w, [machine EXCEPT !.aim = w.index])
      <3> DEFINE s == [machine EXCEPT !.aim = w.index]
      <3>1. s.aim = w.index /\ s.sent = machine.sent
        BY <2>1 DEF MachineState
      <3>2. s.sent # s.aim /\ Turned(w, s)
        BY <2>5, <2>7 DEF Pumped
      <3>3. raised' \subseteq {Dropped(s.aim)}
        BY <2>4, <3>2 DEF Turned
      <3>4. Dropped(machine.aim).index = machine.aim /\ Dropped(s.aim).index = s.aim
        BY DEF Dropped
      <3>5. QED
        BY <2>1, <3>1, <3>2, <3>3, <3>4
    <2>8. CASE Retired(w)
      <3>1. Settled(machine.aim) # Dropped(machine.aim)
        <4>1. Settled(machine.aim).do = "Settled" /\ Dropped(machine.aim).do = "Dropped"
          BY DEF Settled, Dropped
        <4>2. QED
          BY <4>1
      <3>2. w.who = "window"
        BY <2>4, <2>8, <3>1 DEF Retired
      <3>3. QED
        BY <2>1, <3>2 DEF WindowTimed
    <2>9. QED
      BY <2>1, <2>3, <2>5, <2>6, <2>7, <2>8 DEF Entered
  <1>2. QED
    BY <1>1, Inductive, PTL DEF Spec, WindowHonoured

=============================================================================
