-------------------------- MODULE LifecycleProofs ---------------------------
(***************************************************************************)
(* Proofs about the lives of a model, for every number of faults, of control *)
(* tasks and of clients.  On any runtime: the types, and that a life is      *)
(* ended only by what happened to it.  On one thread: that the link is       *)
(* claimed by one task at a time, that it is not redialed inside the reopen  *)
(* gap, and that what subscribers see of the tree is what Connection         *)
(* promises them.  There, where no client reopens the link: that a life      *)
(* leaves no task behind, and that there is never a third socket.            *)
(***************************************************************************)
EXTENDS Lifecycle, FiniteSetTheorems, FunctionTheorems, SequenceTheorems,
        WellFoundedInduction, TLAPS

\* A set of naturals has a first.
LEMMA FirstOf ==
  ASSUME NEW T \in SUBSET Nat, T # {}
  PROVE  \E x \in T : \A y \in T : x <= y
<1>1. \E x \in T : \A y \in T : ~ (<<y, x>> \in OpToRel(<, Nat))
  BY NatLessThanWellFounded, WFMin
<1>2. \A x, y \in Nat : ~ (<<y, x>> \in OpToRel(<, Nat)) => x <= y
  BY DEF OpToRel
<1>. QED BY <1>1, <1>2

-----------------------------------------------------------------------------
(***************************************************************************)
(* The types, one for each variable.                                        *)
(***************************************************************************)

TreeType    == [conn : ConnectionStates, stream : ChannelStates, control : ChannelStates]
LifeType    == [stream : Epochs \union {Nobody}, control : Controls \union {Nobody},
                loop : Epochs \union {Nobody}, clock : Epochs \union {Nobody}]
StreamsType == [Epochs -> {"none", "up", "cut", "gone"}]
ControlType == [epoch : Epochs \union {Nobody},
                at : ControlAwaits \union ControlRuns \union {"gone"},
                say : {"nothing", "Open", "Unavailable", "Lost"}, cut : BOOLEAN,
                opened : {"pending", "ok", "err"}]
LoopsType   == [Epochs -> [at : {"none", "on", "storing", "gone"},
                           task : Controls \union {Nobody}]]
ClocksType  == [Epochs -> {"none", "on", "gone"}]
EndsType    == Seq([how : {"Lost", "Aged"}, epoch : Epochs])
SupType     == [at : SupAwaits \union SupRuns \union {"gone"},
                mode : {"first", "swap", "retry"}, epoch : Epochs,
                task : Controls \union {Nobody}, cut : BOOLEAN, opts : Options]
CloserType  == [at : {"idle", "bump", "join", "say", "done"}, how : {"close", "drop"},
                stream : Epochs \union {Nobody}, control : Controls \union {Nobody}]

\* What each variable has to be.
LEMMA TypeParts ==
  TypeOK <=>
    /\ epoch \in Epochs /\ closed \in BOOLEAN /\ tree \in TreeType /\ life \in LifeType
    /\ streams \in StreamsType /\ controls \in [Controls -> ControlType]
    /\ loops \in LoopsType /\ clocks \in ClocksType
    /\ ends \in EndsType /\ Len(ends) <= 2 * MaxFaults
    /\ sup \in SupType /\ closer \in CloserType
    /\ clients \in [Clients -> Controls \union {Nobody}]
    /\ attempted \in {"never", "recent", "before"} /\ faults \in 0 .. MaxFaults
BY DEF TypeOK, TreeType, LifeType, StreamsType, ControlType, LoopsType, ClocksType, EndsType,
       SupType, CloserType

LEMMA Numbers ==
  /\ MaxFaults \in Nat /\ Epochs \subseteq Nat \ {0} /\ Controls \subseteq Nat \ {0}
  /\ Nobody \notin Epochs /\ Nobody \notin Controls /\ 1 \in Epochs /\ Nobody = 0
<1>1. MaxFaults \in Nat /\ MaxControls \in Nat \ {0}
  BY LifecycleAssumption
<1>2. Epochs \subseteq Nat \ {0} /\ Controls \subseteq Nat \ {0}
  BY <1>1 DEF Epochs, Controls
<1>. QED BY <1>1, <1>2 DEF Epochs, Nobody

\* There is a first among the free places.
LEMMA NewTaskFree ==
  ASSUME Free # {}
  PROVE  NewTask \in Controls /\ controls[NewTask].at = "gone" /\ NewTask \notin Referred
<1>1. Free \in SUBSET Nat
  BY Numbers DEF Free
<1>2. \E c \in Free : \A d \in Free : c <= d
  BY <1>1, FirstOf
<1>3. NewTask \in Free
  BY <1>2 DEF NewTask
<1>. QED BY <1>3 DEF Free

\* A move of a channel stays in the tree's type, and does what it says.
LEMMA Moved ==
  ASSUME tree \in TreeType, NEW state \in ChannelStates
  PROVE  /\ MoveChannel(tree, "control", state) \in TreeType
         /\ MoveChannel(tree, "control", state).control = state
         /\ MoveChannel(tree, "control", state).stream = tree.stream
         /\ MoveChannel(tree, "stream", state) \in TreeType
         /\ MoveChannel(tree, "stream", state).stream = state
         /\ MoveChannel(tree, "stream", state).control = tree.control
<1>1. \A t \in TreeType : Derived(t) \in ConnectionStates
  BY DEF Derived, ConnectionStates
<1>2. [tree EXCEPT !["control"] = state] \in TreeType /\ [tree EXCEPT !["stream"] = state] \in TreeType
  BY DEF TreeType
<1>. QED BY <1>1, <1>2 DEF MoveChannel, TreeType

-----------------------------------------------------------------------------
(***************************************************************************)
(* What the steps do to the tasks.                                          *)
(***************************************************************************)

LEMMA Aborted ==
  ASSUME TypeOK, AbortLinks
  PROVE  /\ streams' \in StreamsType /\ controls' \in [Controls -> ControlType]
         /\ loops' \in LoopsType /\ clocks' \in ClocksType /\ life' \in LifeType
         /\ life' = NoLife
         /\ \A e \in Epochs : streams'[e] = streams[e] \/ (streams[e] = "up" /\ streams'[e] = "cut")
         /\ \A e \in Epochs :
              /\ loops'[e].task = loops[e].task
              /\ loops'[e].at = loops[e].at \/ (loops[e].at = "on" /\ loops'[e].at = "gone")
         /\ \A e \in Epochs : clocks'[e] = IF e = life.clock THEN "gone" ELSE clocks[e]
         /\ \A c \in Controls :
              /\ controls'[c].epoch = controls[c].epoch /\ controls'[c].at = controls[c].at
              /\ controls'[c].say = controls[c].say /\ controls'[c].opened = controls[c].opened
              /\ controls'[c].cut = (controls[c].cut \/ (c = life.control /\ controls[c].at # "gone"))
<1>1. /\ streams \in StreamsType /\ controls \in [Controls -> ControlType]
      /\ loops \in LoopsType /\ clocks \in ClocksType /\ life \in LifeType
  BY TypeParts
<1>2. streams' \in StreamsType
      /\ \A e \in Epochs : streams'[e] = streams[e] \/ (streams[e] = "up" /\ streams'[e] = "cut")
  BY <1>1 DEF AbortLinks, CutStream, StreamsType
<1>3. /\ controls' \in [Controls -> ControlType]
      /\ \A c \in Controls :
           /\ controls'[c].epoch = controls[c].epoch /\ controls'[c].at = controls[c].at
           /\ controls'[c].say = controls[c].say /\ controls'[c].opened = controls[c].opened
           /\ controls'[c].cut = (controls[c].cut \/ (c = life.control /\ controls[c].at # "gone"))
  <2>1. ASSUME NEW c \in Controls
        PROVE  /\ controls'[c] \in ControlType
               /\ controls'[c].epoch = controls[c].epoch /\ controls'[c].at = controls[c].at
               /\ controls'[c].say = controls[c].say /\ controls'[c].opened = controls[c].opened
               /\ controls'[c].cut = (controls[c].cut \/ (c = life.control /\ controls[c].at # "gone"))
    <3>1. controls'[c] = IF c = life.control /\ controls[c].at # "gone"
                         THEN [controls[c] EXCEPT !.cut = TRUE] ELSE controls[c]
      BY DEF AbortLinks, CutControl
    <3>2. controls[c] \in ControlType
      BY <1>1
    <3>3. CASE c = life.control /\ controls[c].at # "gone"
      BY <3>1, <3>2, <3>3 DEF ControlType
    <3>4. CASE ~(c = life.control /\ controls[c].at # "gone")
      BY <3>1, <3>2, <3>4 DEF ControlType
    <3>. QED BY <3>3, <3>4
  <2>2. controls' = [c \in Controls |-> controls'[c]]
    BY DEF AbortLinks, CutControl
  <2>. QED BY <2>1, <2>2
<1>4. /\ loops' \in LoopsType
      /\ \A e \in Epochs :
           /\ loops'[e].task = loops[e].task
           /\ loops'[e].at = loops[e].at \/ (loops[e].at = "on" /\ loops'[e].at = "gone")
  <2>1. ASSUME NEW e \in Epochs
        PROVE  /\ loops'[e] \in [at : {"none", "on", "storing", "gone"}, task : Controls \union {Nobody}]
               /\ loops'[e].task = loops[e].task
               /\ loops'[e].at = loops[e].at \/ (loops[e].at = "on" /\ loops'[e].at = "gone")
    <3>1. loops'[e] = IF e = life.loop /\ loops[e].at = "on"
                      THEN [loops[e] EXCEPT !.at = "gone"] ELSE loops[e]
      BY DEF AbortLinks
    <3>2. loops[e] \in [at : {"none", "on", "storing", "gone"}, task : Controls \union {Nobody}]
      BY <1>1 DEF LoopsType
    <3>. QED BY <3>1, <3>2
  <2>2. loops' = [e \in Epochs |-> loops'[e]]
    BY DEF AbortLinks
  <2>. QED BY <2>1, <2>2 DEF LoopsType
<1>5. clocks' \in ClocksType
      /\ \A e \in Epochs : clocks'[e] = IF e = life.clock THEN "gone" ELSE clocks[e]
  BY <1>1 DEF AbortLinks, ClocksType
<1>6. life' = NoLife /\ life' \in LifeType
  BY DEF AbortLinks, NoLife, LifeType
<1>. QED BY <1>2, <1>3, <1>4, <1>5, <1>6

\* A control task is put in a free place.
LEMMA Spawned ==
  ASSUME TypeOK, NEW e \in Epochs, SpawnControl(NewTask, e)
  PROVE  /\ NewTask \in Controls /\ NewTask \notin Referred /\ controls[NewTask].at = "gone"
         /\ controls' \in [Controls -> ControlType]
         /\ \A c \in Controls \ {NewTask} : controls'[c] = controls[c]
         /\ controls'[NewTask] = [epoch |-> e, at |-> "spawned", say |-> "nothing",
                                  cut |-> FALSE, opened |-> "pending"]
<1>1. NewTask \in Controls /\ controls[NewTask].at = "gone" /\ NewTask \notin Referred
  BY NewTaskFree DEF SpawnControl
<1> DEFINE n == NewTask
           r == [epoch |-> e, at |-> "spawned", say |-> "nothing", cut |-> FALSE,
                 opened |-> "pending"]
<1>2. controls' = [controls EXCEPT ![n] = r] /\ r \in ControlType
  <2>1. r \in ControlType
    <3>1. "spawned" \in ControlAwaits \union ControlRuns \union {"gone"}
      BY DEF ControlAwaits
    <3>. QED BY <3>1 DEF ControlType
  <2>2. [NoControl EXCEPT !.epoch = e, !.at = "spawned"] = r
    <3> DEFINE q == [NoControl EXCEPT !.epoch = e, !.at = "spawned"]
    <3>1. NoControl \in ControlType
      BY DEF NoControl, ControlType
    <3>2. "spawned" \in ControlAwaits \union ControlRuns \union {"gone"}
      BY DEF ControlAwaits
    <3>3. /\ NoControl.say = "nothing" /\ NoControl.cut = FALSE
          /\ NoControl.opened = "pending"
      BY DEF NoControl
    <3>4. /\ q \in ControlType /\ q.epoch = e /\ q.at = "spawned"
          /\ q.say = NoControl.say /\ q.cut = NoControl.cut /\ q.opened = NoControl.opened
      BY <3>1, <3>2 DEF ControlType
    <3> HIDE DEF q
    <3>5. q = [epoch |-> q.epoch, at |-> q.at, say |-> q.say, cut |-> q.cut, opened |-> q.opened]
      BY <3>4 DEF ControlType
    <3>. QED BY <3>3, <3>4, <3>5 DEF q
  <2>3. controls' = [controls EXCEPT ![n] = [NoControl EXCEPT !.epoch = e, !.at = "spawned"]]
    BY DEF SpawnControl
  <2> HIDE DEF n, r
  <2>. QED BY <2>1, <2>2, <2>3
<1>3. controls \in [Controls -> ControlType]
  BY TypeParts
<1> HIDE DEF n, r
<1>4. /\ controls' \in [Controls -> ControlType] /\ controls'[n] = r
      /\ \A c \in Controls \ {n} : controls'[c] = controls[c]
  BY <1>1, <1>2, <1>3 DEF n
<1>. QED BY <1>1, <1>4 DEF n, r

\* One control task moves.
Failing(r) == r.say = "Unavailable" \/ r.opened = "err"

LEMMA ControlMoves ==
  ASSUME TypeOK, Ahead, NEW c \in Controls, RunControl(c) \/ ControlEnds(c)
  PROVE  /\ controls' \in [Controls -> ControlType]
         /\ \A d \in Controls \ {c} : controls'[d] = controls[d]
         /\ \/ controls'[c].at = "gone" /\ controls'[c].epoch = Nobody /\ controls'[c].say = "nothing"
            \/ /\ controls'[c].epoch = controls[c].epoch
               /\ controls'[c].cut = controls[c].cut
               /\ controls'[c].at \in {"saying", "writing"} <=> controls'[c].say # "nothing"
         /\ UNCHANGED <<epoch, streams, loops, clocks, closed, life, ends, sup, closer, clients>>
         /\ tree' \in TreeType /\ attempted' \in {"never", "recent", "before"}
         /\ faults' \in 0 .. MaxFaults /\ faults' >= faults
         /\ Failing(controls'[c]) /\ ~Failing(controls[c]) => faults' = faults + 1
<1>1. /\ controls \in [Controls -> ControlType] /\ tree \in TreeType
      /\ attempted \in {"never", "recent", "before"} /\ faults \in 0 .. MaxFaults
  BY TypeParts
<1>2. controls[c].at \in {"saying", "writing"} <=> controls[c].say # "nothing"
  BY DEF Ahead
<1> DEFINE k == controls[c]
<1>3. k \in ControlType
  BY <1>1
<1>f. Finished("ok") \in ControlType /\ Finished("err") \in ControlType
      /\ \A o \in {"ok", "err"} : /\ Finished(o).at = "gone" /\ Finished(o).epoch = Nobody
                                 /\ Finished(o).say = "nothing" /\ Finished(o).opened = o
  BY DEF Finished, NoControl, ControlType
<1> DEFINE Goes(r) ==
             /\ r \in ControlType
             /\ \/ r.at = "gone" /\ r.epoch = Nobody /\ r.say = "nothing"
                \/ /\ r.epoch = k.epoch /\ r.cut = k.cut
                   /\ r.at \in {"saying", "writing"} <=> r.say # "nothing"
             /\ Failing(r) /\ ~Failing(k) => faults' = faults + 1
<1>4. ASSUME NEW r, controls' = [controls EXCEPT ![c] = r], Goes(r),
             UNCHANGED <<epoch, streams, loops, clocks, closed, life, ends, sup, closer, clients>>,
             tree' \in TreeType, attempted' \in {"never", "recent", "before"},
             faults' = faults \/ Fault
      PROVE  /\ controls' \in [Controls -> ControlType]
             /\ \A d \in Controls \ {c} : controls'[d] = controls[d]
             /\ controls'[c] = r /\ faults' \in 0 .. MaxFaults /\ faults' >= faults
  <2>1. faults' \in 0 .. MaxFaults /\ faults' >= faults
    BY <1>1, <1>4, Numbers DEF Fault
  <2>. QED BY <1>1, <1>4, <2>1
<1> DEFINE Frame ==
             /\ UNCHANGED <<epoch, streams, loops, clocks, closed, life, ends, sup, closer, clients>>
             /\ tree' \in TreeType /\ attempted' \in {"never", "recent", "before"}
             /\ faults' = faults \/ Fault
<1> HIDE DEF Goes, Frame
<1>s. ASSUME k.say # "nothing", AfterSaying(c), Frame
      PROVE  Frame /\ \E r : controls' = [controls EXCEPT ![c] = r] /\ Goes(r)
  <2>1. k.say \in {"Open", "Unavailable", "Lost"}
    BY <1>3, <1>s DEF ControlType
  <2>2. CASE k.say = "Open"
    <3>1. controls' = [controls EXCEPT ![c] = [k EXCEPT !.at = "live", !.say = "nothing", !.opened = "ok"]]
      BY <1>s, <2>2 DEF AfterSaying
    <3>2. Goes([k EXCEPT !.at = "live", !.say = "nothing", !.opened = "ok"])
      BY <1>3 DEF Goes, ControlType, ControlAwaits, Failing
    <3>. QED BY <1>s, <3>1, <3>2
  <2>3. CASE k.say = "Unavailable"
    <3>1. controls' = [controls EXCEPT ![c] = Finished("err")]
      BY <1>s, <2>3 DEF AfterSaying
    <3>2. Goes(Finished("err"))
      BY <1>f, <2>3 DEF Goes, Failing
    <3>. QED BY <1>s, <3>1, <3>2
  <2>4. CASE k.say = "Lost"
    <3>1. controls' = [controls EXCEPT ![c] = Finished("ok")]
      BY <1>s, <2>4 DEF AfterSaying
    <3>2. Goes(Finished("ok"))
      BY <1>f DEF Goes, Failing
    <3>. QED BY <1>s, <3>1, <3>2
  <2>. QED BY <2>1, <2>2, <2>3, <2>4
<1>g. ASSUME NEW to \in {"claiming", "waiting", "dialing"}, k.at \notin {"saying", "writing"}, Frame,
             ControlGoes(c, to)
      PROVE  Frame /\ \E r : controls' = [controls EXCEPT ![c] = r] /\ Goes(r)
  <2>1. controls' = [controls EXCEPT ![c] = [k EXCEPT !.at = to]]
    BY <1>g DEF ControlGoes
  <2>2. Goes([k EXCEPT !.at = to])
    BY <1>2, <1>3, <1>g DEF Goes, ControlType, ControlAwaits, ControlRuns, Failing
  <2>. QED BY <1>g, <2>1, <2>2
<1>y. ASSUME NEW what \in {"Open", "Unavailable", "Lost"}, Frame, ControlSays(c, what),
             what = "Unavailable" => faults' = faults + 1
      PROVE  Frame /\ \E r : controls' = [controls EXCEPT ![c] = r] /\ Goes(r)
  <2>1. controls' = [controls EXCEPT ![c] = [k EXCEPT !.at = "saying", !.say = what]]
    BY <1>y DEF ControlSays
  <2>2. Goes([k EXCEPT !.at = "saying", !.say = what])
    BY <1>3, <1>y DEF Goes, ControlType, ControlRuns, Failing
  <2>. QED BY <1>y, <2>1, <2>2
<1>d. ASSUME Frame, controls' = [controls EXCEPT ![c] = Finished("ok")]
      PROVE  Frame /\ \E r : controls' = [controls EXCEPT ![c] = r] /\ Goes(r)
  <2>1. Goes(Finished("ok"))
    BY <1>f DEF Goes, Failing
  <2>. QED BY <1>d, <2>1
<1>5. Frame /\ \E r : controls' = [controls EXCEPT ![c] = r] /\ Goes(r)
  <2>1. CASE ControlStarts(c)
    <3>1. Frame /\ k.at = "spawned"
      BY <1>1, <2>1 DEF ControlStarts, ControlWakes, ControlStep, Frame
    <3>2. ControlGoes(c, "claiming") \/ controls' = [controls EXCEPT ![c] = Finished("ok")]
      BY <2>1 DEF ControlStarts
    <3>. QED BY <1>g, <1>d, <3>1, <3>2
  <2>2. CASE ControlClaims(c)
    <3>1. MoveChannel(tree, "control", "Connecting") \in TreeType
      BY <1>1, Moved DEF ChannelStates
    <3>2. Frame /\ k.at = "claiming"
      BY <1>1, <2>2, <3>1 DEF ControlClaims, ControlStep, Frame
    <3>3. ControlGoes(c, "waiting") \/ controls' = [controls EXCEPT ![c] = Finished("ok")]
      BY <2>2 DEF ControlClaims
    <3>. QED BY <1>g, <1>d, <3>2, <3>3
  <2>3. CASE ControlDials(c)
    <3>1. Frame /\ k.at = "waiting"
      BY <1>1, <2>3 DEF ControlDials, ControlWakes, ControlStep, Frame
    <3>2. ControlGoes(c, "dialing")
      BY <2>3 DEF ControlDials
    <3>. QED BY <1>g, <3>1, <3>2
  <2>4. CASE ControlRefused(c)
    <3>1. Frame /\ faults' = faults + 1
      BY <1>1, <2>4 DEF ControlRefused, ControlWakes, ControlStep, Frame, Fault
    <3>2. ControlSays(c, "Unavailable")
      BY <2>4 DEF ControlRefused
    <3>. QED BY <1>y, <3>1, <3>2
  <2>5. CASE ControlOpens(c)
    <3>1. Frame
      BY <1>1, <2>5 DEF ControlOpens, ControlWakes, ControlStep, Frame
    <3>2. ControlSays(c, "Open")
      BY <2>5 DEF ControlOpens
    <3>. QED BY <1>y, <3>1, <3>2
  <2>6. CASE ControlEnds(c)
    <3>1. Frame /\ faults' = faults + 1
      BY <1>1, <2>6 DEF ControlEnds, ControlWakes, ControlStep, Frame, Fault
    <3>2. ControlSays(c, "Lost")
      BY <2>6 DEF ControlEnds
    <3>. QED BY <1>y, <3>1, <3>2
  <2>7. CASE ControlChecks(c)
    <3>1. Frame /\ k.at = "saying" /\ k.say # "nothing"
      BY <1>1, <1>2, <2>7 DEF ControlChecks, ControlStep, Frame
    <3>2. CASE StillCurrent(c)
      <4>1. controls' = [controls EXCEPT ![c] = [k EXCEPT !.at = "writing"]]
        BY <2>7, <3>2 DEF ControlChecks, ControlGoes
      <4>2. Goes([k EXCEPT !.at = "writing"])
        BY <1>3, <3>1 DEF Goes, ControlType, ControlRuns, Failing
      <4>. QED BY <3>1, <4>1, <4>2
    <3>3. CASE ~StillCurrent(c)
      BY <1>s, <2>7, <3>1, <3>3 DEF ControlChecks
    <3>. QED BY <3>2, <3>3
  <2>8. CASE ControlWrites(c)
    <3>1. k.at = "writing" /\ k.say # "nothing" /\ AfterSaying(c)
      BY <1>2, <2>8 DEF ControlWrites, ControlStep
    <3>2. k.say \in ChannelStates
      BY <1>3, <3>1 DEF ControlType, ChannelStates
    <3>3. MoveChannel(tree, "control", k.say) \in TreeType
      BY <1>1, <3>2, Moved
    <3>4. Frame
      BY <1>1, <2>8, <3>3 DEF ControlWrites, ControlStep, Frame
    <3>. QED BY <1>s, <3>1, <3>4
  <2>9. CASE ControlUnwinds(c)
    <3>1. Frame /\ controls' = [controls EXCEPT ![c] = Finished("ok")]
      BY <1>1, <2>9 DEF ControlUnwinds, ControlStep, Frame
    <3>. QED BY <1>d, <3>1
  <2>. QED BY <2>1, <2>2, <2>3, <2>4, <2>5, <2>6, <2>7, <2>8, <2>9 DEF RunControl
<1>6. PICK r : controls' = [controls EXCEPT ![c] = r] /\ Goes(r)
  BY <1>5
<1>7. /\ controls' \in [Controls -> ControlType]
      /\ \A d \in Controls \ {c} : controls'[d] = controls[d]
      /\ controls'[c] = r /\ faults' \in 0 .. MaxFaults /\ faults' >= faults
  BY <1>4, <1>5, <1>6 DEF Frame
<1>. QED BY <1>5, <1>6, <1>7 DEF Goes, Frame

-----------------------------------------------------------------------------
(***************************************************************************)
(* The types are kept.                                                      *)
(***************************************************************************)

\* The epoch does not turn more often than there are faults, and closes.
LEMMA TurnsInBounds ==
  ASSUME TypeOK, Turns, closer.at \notin {"join", "say", "done"} \/ Pending,
         Pending \/ closer.at = "bump"
  PROVE  epoch + 1 \in Epochs
<1>1. epoch \in Nat \ {0} /\ faults \in 0 .. MaxFaults /\ MaxFaults \in Nat
  BY Numbers, TypeParts
<1>2. CASE Pending
  BY <1>1, <1>2 DEF Turns, Epochs
<1>3. CASE ~Pending
  BY <1>1, <1>3 DEF Turns, Epochs
<1>. QED BY <1>2, <1>3

\* A step of the supervisor's that only moves it on.
LEMMA SupTyped ==
  ASSUME TypeOK, NEW to \in SupAwaits \union SupRuns \union {"gone"}, NEW from, SupGoes(from, to)
  PROVE  /\ sup' \in SupType /\ sup'.at = to /\ sup.at = from
         /\ sup'.mode = sup.mode /\ sup'.epoch = sup.epoch /\ sup'.task = sup.task
         /\ sup'.cut = sup.cut /\ sup'.opts = sup.opts
<1>1. sup \in SupType /\ sup' = [sup EXCEPT !.at = to] /\ sup.at = from
  BY TypeParts DEF SupGoes
<1>. QED BY <1>1 DEF SupType

\* One that moves it on and sets what it is about.
LEMMA SupSetTyped ==
  ASSUME TypeOK, NEW to \in SupAwaits \union SupRuns \union {"gone"},
         NEW mode \in {"first", "swap", "retry"}, NEW e \in Epochs,
         NEW task \in Controls \union {Nobody},
         sup' = [sup EXCEPT !.at = to, !.mode = mode, !.epoch = e, !.task = task]
  PROVE  /\ sup' \in SupType /\ sup'.at = to /\ sup'.mode = mode /\ sup'.epoch = e
         /\ sup'.task = task /\ sup'.cut = sup.cut /\ sup'.opts = sup.opts
<1>1. sup \in SupType
  BY TypeParts
<1>. QED BY <1>1 DEF SupType

\* The supervisor's fields, whatever the step.
LEMMA SupFields ==
  ASSUME TypeOK
  PROVE  /\ sup.at \in SupAwaits \union SupRuns \union {"gone"}
         /\ sup.mode \in {"first", "swap", "retry"} /\ sup.epoch \in Epochs
         /\ sup.task \in Controls \union {Nobody} /\ sup.cut \in BOOLEAN
         /\ sup.opts \in Options
         /\ sup = [at |-> sup.at, mode |-> sup.mode, epoch |-> sup.epoch, task |-> sup.task,
                   cut |-> sup.cut, opts |-> sup.opts]
<1>1. sup \in SupType
  BY TypeParts
<1>. QED BY <1>1 DEF SupType
LEMMA TypePartsNext ==
  TypeOK' <=>
    /\ epoch' \in Epochs /\ closed' \in BOOLEAN /\ tree' \in TreeType /\ life' \in LifeType
    /\ streams' \in StreamsType /\ controls' \in [Controls -> ControlType]
    /\ loops' \in LoopsType /\ clocks' \in ClocksType
    /\ ends' \in EndsType /\ Len(ends') <= 2 * MaxFaults
    /\ sup' \in SupType /\ closer' \in CloserType
    /\ clients' \in [Clients -> Controls \union {Nobody}]
    /\ attempted' \in {"never", "recent", "before"} /\ faults' \in 0 .. MaxFaults
BY DEF TypeOK, TreeType, LifeType, StreamsType, ControlType, LoopsType, ClocksType, EndsType,
       SupType, CloserType

-----------------------------------------------------------------------------
(***************************************************************************)
(* GInv is kept by the steps of the supervisor.                             *)
(***************************************************************************)

\* Where the supervisor's own epoch, and the current one, are still unused.
Unused(s) ==
  /\ s.epoch <= epoch
  /\ s.at \in {"abort", "say", "backoff", "connecting", "dial", "shake", "spawn",
               "failed", "counting", "undoSay"} => Fresh(epoch)
  /\ s.at \in {"dial", "shake", "spawn"} => Fresh(s.epoch)
  /\ s.at \in {"opened", "control", "await", "keep", "loop", "clock"} =>
       clocks[s.epoch] = "none"

Undoing == {"undo", "undoAwait", "undoBump"}

\* A step that moves the supervisor on, and may write the tree or take a report.
SupOnly ==
  /\ UNCHANGED <<epoch, closed, streams, controls, loops, clocks, closer, clients, attempted>>
  /\ sup.at # "gone" /\ sup' \in SupType /\ sup'.cut = sup.cut
  /\ sup'.mode = "first" => sup.mode = "first"
  /\ Unused(sup')
  /\ sup'.at # "await" /\ (sup'.at \in Undoing => Pending)
  /\ life' \in LifeType /\ life'.clock = life.clock /\ tree' \in TreeType
  /\ ends' = ends \/ (ends # <<>> /\ ends' = Tail(ends))
  /\ faults' = faults \/ Fault

LEMMA TakenFromFront ==
  ASSUME ends \in EndsType, ends' = ends \/ (ends # <<>> /\ ends' = Tail(ends))
  PROVE  /\ ends' \in EndsType /\ Len(ends') <= Len(ends) /\ Len(ends') \in Nat
         /\ \A i \in 1 .. Len(ends') : \E j \in 1 .. Len(ends) : ends'[i] = ends[j]
<1>1. CASE ends' = ends
  BY <1>1 DEF EndsType
<1>2. CASE ends # <<>> /\ ends' = Tail(ends)
  <2>1. /\ Len(ends') = Len(ends) - 1 /\ ends' \in EndsType /\ Len(ends) \in Nat
        /\ \A i \in 1 .. Len(ends') : ends'[i] = ends[i + 1]
    BY <1>2, HeadTailProperties DEF EndsType
  <2>2. \A i \in 1 .. Len(ends') : i + 1 \in 1 .. Len(ends) /\ ends'[i] = ends[i + 1]
    BY <2>1
  <2>. QED BY <2>1, <2>2
<1>. QED BY <1>1, <1>2

LEMMA EndTyped ==
  ASSUME TypeOK, NEW i \in 1 .. Len(ends)
  PROVE  ends[i].epoch \in Epochs /\ ends[i].how \in {"Lost", "Aged"}
<1>1. ends \in EndsType
  BY TypeParts
<1>2. ends[i] \in [how : {"Lost", "Aged"}, epoch : Epochs]
  BY <1>1, ElementOfSeq DEF EndsType
<1>. QED BY <1>2

\* The numbers among the variables.
LEMMA NatParts ==
  ASSUME TypeOK
  PROVE  /\ epoch \in Nat /\ faults \in Nat /\ sup.epoch \in Nat
         /\ \A c \in Controls : controls[c].epoch \in Nat
<1>1. /\ faults \in 0 .. MaxFaults /\ epoch \in Epochs /\ sup \in SupType
      /\ controls \in [Controls -> ControlType]
  BY TypeParts
<1>2. sup.epoch \in Epochs /\ \A c \in Controls : controls[c].epoch \in Epochs \union {Nobody}
  BY <1>1 DEF SupType, ControlType
<1>3. \A e \in Epochs \union {Nobody} : e \in Nat
  BY Numbers
<1>4. faults \in Nat
  BY <1>1, Numbers
<1>. QED BY <1>1, <1>2, <1>3, <1>4

LEMMA BoundMoves ==
  ASSUME NEW e \in Int, NEW x \in Int, NEW y \in Int, NEW a \in Int, NEW b \in Int,
         NEW m \in Int, NEW n \in Int,
         e + x <= 1 + m + a, a <= b, m <= n, y <= x \/ (n = m + 1 /\ 0 <= x /\ y <= 1)
  PROVE  e + y <= 1 + n + b
OBVIOUS

LEMMA TurnsStay ==
  ASSUME TypeOK, Turns, epoch' = epoch, faults' \in Nat, faults' >= faults,
         Len(ends') <= faults',
         closer.at \in {"join", "say", "done"} => closer'.at \in {"join", "say", "done"},
         (Pending' => Pending) \/ faults' = faults + 1
  PROVE  Turns'
<1>1. epoch \in Nat /\ faults \in Nat
  <2>1. epoch \in Epochs /\ faults \in 0 .. MaxFaults
    BY TypeParts
  <2>. QED BY <2>1, Numbers
<1> DEFINE j  == IF closer.at \in {"join", "say", "done"} THEN 1 ELSE 0
           jn == IF closer'.at \in {"join", "say", "done"} THEN 1 ELSE 0
           p  == IF Pending THEN 1 ELSE 0
           pn == IF Pending' THEN 1 ELSE 0
<1>2. j \in {0, 1} /\ jn \in {0, 1} /\ j <= jn /\ p \in {0, 1} /\ pn \in {0, 1}
  OBVIOUS
<1>3. pn <= p \/ faults' = faults + 1
  <2>1. CASE Pending' => Pending
    BY <2>1
  <2>. QED BY <2>1
<1>4. epoch + p <= 1 + faults + j
  BY DEF Turns
<1>5. Turns' <=> Len(ends') <= faults' /\ epoch' + pn <= 1 + faults' + jn
  BY DEF Turns
<1> HIDE DEF j, jn, p, pn
<1>6. epoch' + pn <= 1 + faults' + jn
  <2>1. /\ j \in Int /\ jn \in Int /\ j <= jn /\ p \in Int /\ pn \in Int
        /\ 0 <= p /\ pn <= 1
    BY <1>2
  <2>2. epoch' = epoch /\ faults' >= faults /\ faults' \in Nat
    OBVIOUS
  <2>3. epoch \in Int /\ faults \in Int /\ faults' \in Int /\ faults <= faults'
    BY <1>1, <2>2
  <2>4. epoch + pn <= 1 + faults' + jn
    <3>1. CASE pn <= p
      BY <1>4, <2>1, <2>3, <3>1, BoundMoves
    <3>2. CASE faults' = faults + 1
      BY <1>4, <2>1, <2>3, <3>2, BoundMoves
    <3>. QED BY <1>3, <3>1, <3>2
  <2>. QED BY <2>2, <2>4
<1>. QED BY <1>5, <1>6

LEMMA SupMovesOn ==
  ASSUME GInv, SupOnly
  PROVE  GInv'
<1>0. TypeOK /\ Ahead /\ Reported /\ Turns
  BY DEF GInv
<1>1. /\ ends \in EndsType /\ ends' \in EndsType /\ Len(ends') <= Len(ends) /\ Len(ends') \in Nat
      /\ Len(ends) \in Nat
      /\ \A i \in 1 .. Len(ends') : \E j \in 1 .. Len(ends) : ends'[i] = ends[j]
  <2>1. ends \in EndsType
    BY <1>0, TypeParts
  <2>2. Len(ends) \in Nat
    BY <2>1 DEF EndsType
  <2>. QED BY <2>1, <2>2, TakenFromFront DEF SupOnly
<1>2. faults' \in 0 .. MaxFaults /\ faults' >= faults /\ faults \in Nat /\ MaxFaults \in Nat
  BY <1>0, TypeParts, Numbers DEF SupOnly, Fault
<1>3. Len(ends) <= faults
  BY <1>0 DEF Turns
<1>4. TypeOK'
  <2>1. Len(ends') <= 2 * MaxFaults
    BY <1>1, <1>2, <1>3
  <2>. QED BY <1>0, <1>1, <1>2, <2>1, TypeParts, TypePartsNext DEF SupOnly
<1>5. Ahead'
  BY <1>0 DEF Ahead, SupOnly, Unused, Fresh
<1>6. Reported'
  BY <1>0, <1>1 DEF Reported, SupOnly
<1>7. Pending' => Pending
  <2>1. ASSUME NEW i \in 1 .. Len(ends'), ends'[i].epoch = epoch'
        PROVE  \E j \in 1 .. Len(ends) : ends[j].epoch = epoch
    BY <1>1, <2>1 DEF SupOnly
  <2>. QED BY <2>1 DEF Pending, SupOnly, Undoing
<1>8. Turns'
  <2>1. Len(ends') <= faults' /\ faults' \in Nat
    BY <1>1, <1>2, <1>3
  <2>2. epoch' = epoch /\ closer' = closer
    BY DEF SupOnly
  <2>. QED BY <1>0, <1>2, <1>7, <2>1, <2>2, TurnsStay
<1>. QED BY <1>4, <1>5, <1>6, <1>8 DEF GInv
\* The supervisor's steps that only move it on.
SupWalks ==
  \/ RecvStale \/ SayRecycled \/ SayLost \/ BackoffElapses \/ SayConnecting \/ DialGoes
  \/ DialFails \/ HandshakeDone \/ SayUnavailable \/ SayFailure \/ SayOpened
  \/ ControlOpened \/ ControlFailed \/ KeepControl \/ UndoJoined \/ UndoSay \/ SupUnwinds

\* What a walking step needs from where the supervisor was.
SupHere ==
  /\ sup \in SupType /\ tree \in TreeType /\ life \in LifeType /\ Unused(sup)
  /\ Reconnect \in BOOLEAN /\ Reopen \in BOOLEAN /\ epoch \in Epochs

LEMMA SupIsHere == ASSUME GInv PROVE SupHere
<1>1. TypeOK /\ Ahead
  BY DEF GInv
<1>. QED BY <1>1, TypeParts, LifecycleAssumption DEF SupHere, Ahead, Unused

\* Where a step may go.
LEMMA SupPlaces ==
  /\ {"recv", "backoff", "dial", "shake", "await", "undoAwait", "abort", "say",
      "connecting", "spawn", "opened", "control", "keep", "loop", "clock", "undo",
      "undoBump", "undoSay", "failed", "counting", "gone"}
       = SupAwaits \union SupRuns \union {"gone"}
  /\ AfterFailure \in {"backoff", "gone"} /\ FailureSays \in ConnectionStates
BY DEF SupAwaits, SupRuns, AfterFailure, FailureSays, ConnectionStates

LEMMA EndedTyped ==
  ASSUME NEW stream \in ChannelStates, NEW conn \in ConnectionStates
  PROVE  Ended(stream, conn) \in TreeType
BY DEF Ended, TreeType, ChannelStates

LEMMA SupWalksOn ==
  ASSUME GInv, SupWalks
  PROVE  SupOnly
<1>1. SupHere
  BY SupIsHere
<1>t. TypeOK
  BY DEF GInv
<1> DEFINE At(to) == /\ sup' \in SupType /\ sup'.at = to /\ sup'.cut = sup.cut
                     /\ sup'.mode = sup.mode /\ sup'.epoch = sup.epoch
<1>g. ASSUME NEW from, NEW to \in SupAwaits \union SupRuns \union {"gone"}, SupGoes(from, to)
      PROVE  At(to) /\ sup.at = from
  BY <1>t, <1>g, SupTyped
<1>2. CASE RecvStale
  <2>1. At("recv") /\ sup.at = "recv"
    BY <1>g, <1>2, SupPlaces DEF RecvStale, SupWakes
  <2>. QED BY <1>1, <1>2, <2>1 DEF RecvStale, SupHere, SupOnly, Unused, Undoing, Pending, core, tasks
<1>3. CASE SayRecycled
  <2>1. At("connecting") /\ sup.at = "say"
    BY <1>g, <1>3, SupPlaces DEF SayRecycled, SupWakes
  <2>2. tree' \in TreeType
    BY <1>3, EndedTyped DEF SayRecycled, ConnectionStates, ChannelStates
  <2>. QED BY <1>1, <1>3, <2>1, <2>2 DEF SayRecycled, SupHere, SupOnly, Unused, Undoing, core, tasks
<1>4. CASE BackoffElapses
  <2>1. At("connecting") /\ sup.at = "backoff"
    BY <1>g, <1>4, SupPlaces DEF BackoffElapses, SupWakes
  <2>. QED BY <1>1, <1>4, <2>1 DEF BackoffElapses, SupHere, SupOnly, Unused, Undoing, Pending, core, tasks
<1>5. CASE DialGoes
  <2>1. At("shake") /\ sup.at = "dial"
    BY <1>g, <1>5, SupPlaces DEF DialGoes, SupWakes
  <2>. QED BY <1>1, <1>5, <2>1 DEF DialGoes, SupHere, SupOnly, Unused, Undoing, Pending, core, tasks
<1>6. CASE HandshakeDone
  <2>1. At("spawn") /\ sup.at = "shake"
    BY <1>g, <1>6, SupPlaces DEF HandshakeDone, SupWakes
  <2>. QED BY <1>1, <1>6, <2>1 DEF HandshakeDone, SupHere, SupOnly, Unused, Undoing, Pending, core, tasks
<1>7. CASE ControlOpened
  <2>1. At("keep") /\ sup.at = "await"
    BY <1>g, <1>7, SupPlaces DEF ControlOpened, SupWakes
  <2>. QED BY <1>1, <1>7, <2>1 DEF ControlOpened, SupWakes, SupHere, SupOnly, Unused, Undoing, core, tasks
<1>8. CASE UndoJoined
  <2>1. At("undoBump") /\ sup.at = "undoAwait"
    BY <1>g, <1>8, SupPlaces DEF UndoJoined, SupWakes
  <2>. QED BY <1>1, <1>8, <2>1 DEF UndoJoined, SupHere, SupOnly, Unused, Undoing, Pending, core, tasks
<1>9. CASE SupUnwinds
  <2>1. At("gone") /\ sup.at # "gone"
    <3>1. sup' = [sup EXCEPT !.at = "gone", !.task = Nobody] /\ sup.at \in SupAwaits
      BY <1>9 DEF SupUnwinds
    <3>. QED BY <1>1, <3>1 DEF SupHere, SupType, SupAwaits
  <2>. QED BY <1>1, <1>9, <2>1 DEF SupUnwinds, SupHere, SupOnly, Unused, Undoing, core, tasks
<1>10. CASE SayLost
  <2>1. At(AfterFailure) /\ sup.at = "say" /\ AfterFailure \in {"backoff", "gone"}
    BY <1>g, <1>10, SupPlaces DEF SayLost
  <2>2. tree' \in TreeType
    BY <1>10, EndedTyped, SupPlaces DEF SayLost, ChannelStates
  <2>. QED BY <1>1, <1>10, <2>1, <2>2 DEF SayLost, SupHere, SupOnly, Unused, Undoing, core, tasks
<1>11. CASE SayConnecting
  <2>1. /\ sup' \in SupType /\ sup'.at = "dial" /\ sup'.cut = sup.cut
        /\ sup'.mode = sup.mode /\ sup'.epoch = epoch /\ sup.at = "connecting"
    <3>1. sup' = [sup EXCEPT !.at = "dial", !.epoch = epoch] /\ sup.at = "connecting"
      BY <1>11 DEF SayConnecting
    <3>. QED BY <1>1, <3>1 DEF SupHere, SupType, SupAwaits
  <2>2. tree' \in TreeType
    <3>1. tree' = MoveChannel(tree, "stream", "Connecting")
      BY <1>11 DEF SayConnecting, SetChannel
    <3>. QED BY <1>1, <3>1, Moved DEF ChannelStates, SupHere
  <2>. QED BY <1>1, <1>11, <2>1, <2>2, Numbers DEF SayConnecting, SupHere, SupOnly, Unused, Undoing, core, tasks
<1>12. CASE DialFails
  <2>1. At("failed") /\ sup.at \in {"dial", "shake"} /\ (faults' = faults \/ Fault)
    BY <1>g, <1>12, SupPlaces DEF DialFails, SupWakes
  <2>. QED BY <1>1, <1>12, <2>1 DEF DialFails, SupHere, SupOnly, Unused, Undoing, core, tasks
<1>13. CASE SayUnavailable
  <2>1. At("counting") /\ sup.at = "failed"
    BY <1>g, <1>13, SupPlaces DEF SayUnavailable
  <2>2. tree' \in TreeType
    <3>1. tree' = MoveChannel(tree, "stream", "Unavailable") \/ tree' = tree
      BY <1>13 DEF SayUnavailable, SetChannel
    <3>. QED BY <1>1, <3>1, Moved DEF ChannelStates, SupHere
  <2>. QED BY <1>1, <1>13, <2>1, <2>2 DEF SayUnavailable, SupHere, SupOnly, Unused, Undoing, core, tasks
<1>18. CASE SayFailure
  <2>1. /\ sup' \in SupType /\ sup'.at \in {"backoff", "gone"} /\ sup'.cut = sup.cut
        /\ sup'.mode = "retry" /\ sup'.epoch = sup.epoch /\ sup.at = "counting"
    <3>1. sup' = [sup EXCEPT !.at = AfterFailure, !.mode = "retry"] /\ sup.at = "counting"
      BY <1>18 DEF SayFailure
    <3>2. AfterFailure \in {"backoff", "gone"}
      BY SupPlaces
    <3>. QED BY <1>1, <3>1, <3>2 DEF SupHere, SupType, SupAwaits
  <2>2. tree' \in TreeType
    BY <1>1, <1>18, SupPlaces DEF SayFailure, SupHere, TreeType
  <2>. QED BY <1>1, <1>18, <2>1, <2>2 DEF SayFailure, SupHere, SupOnly, Unused, Undoing, core, tasks
<1>14. CASE SayOpened
  <2>1. \E to \in {"clock", "control"} : At(to) /\ sup.at = "opened"
    <3>1. CASE sup.opts.policy = "Off"
      BY <1>g, <1>14, <3>1, SupPlaces DEF SayOpened
    <3>2. CASE sup.opts.policy # "Off"
      BY <1>g, <1>14, <3>2, SupPlaces DEF SayOpened
    <3>. QED BY <3>1, <3>2
  <2>2. tree' \in TreeType
    <3> DEFINE t == [tree EXCEPT !.stream = "Open"]
    <3>1. t \in TreeType
      BY <1>1 DEF SupHere, TreeType, ChannelStates
    <3>2. Derived(t) \in ConnectionStates
      BY DEF Derived, ConnectionStates
    <3>3. tree' = IF sup.epoch = epoch THEN [t EXCEPT !.conn = Derived(t)] ELSE tree
      BY <1>14 DEF SayOpened
    <3> HIDE DEF t
    <3>4. [t EXCEPT !.conn = Derived(t)] \in TreeType
      BY <3>1, <3>2 DEF TreeType
    <3>. QED BY <1>1, <3>3, <3>4 DEF SupHere
  <2>. QED BY <1>1, <1>14, <2>1, <2>2 DEF SayOpened, SupHere, SupOnly, Unused, Undoing, core, tasks
<1>15. CASE ControlFailed
  <2>1. At("undo") /\ sup.at = "await" /\ ~sup.cut
    BY <1>g, <1>15, SupPlaces DEF ControlFailed, SupWakes
  <2>2. Pending
    BY <1>15, <2>1 DEF Pending, ControlFailed
  <2>. QED BY <1>1, <1>15, <2>1, <2>2 DEF ControlFailed, SupHere, SupOnly, Unused, core, tasks
<1>16. CASE KeepControl
  <2>1. /\ sup' \in SupType /\ sup'.at \in {"loop", "clock"} /\ sup'.cut = sup.cut
        /\ sup'.mode = sup.mode /\ sup'.epoch = sup.epoch /\ sup.at = "keep"
    <3>1. sup' = [sup EXCEPT !.at = IF Reopen THEN "loop" ELSE "clock", !.task = Nobody] /\ sup.at = "keep"
      BY <1>16 DEF KeepControl
    <3>. QED BY <1>1, <3>1 DEF SupHere, SupType, SupRuns
  <2>2. life' \in LifeType /\ life'.clock = life.clock
    BY <1>1, <1>16 DEF KeepControl, SupHere, SupType, LifeType
  <2>. QED BY <1>1, <1>16, <2>1, <2>2 DEF KeepControl, SupHere, SupOnly, Unused, Undoing, core, tasks
<1>17. CASE UndoSay
  <2>1. \E to \in {"gone", "failed"} : At(to) /\ sup.at = "undoSay"
    <3>1. CASE sup.mode = "first"
      BY <1>g, <1>17, <3>1, SupPlaces DEF UndoSay
    <3>2. CASE sup.mode # "first"
      BY <1>g, <1>17, <3>2, SupPlaces DEF UndoSay
    <3>. QED BY <3>1, <3>2
  <2>2. tree' \in TreeType
    BY <1>17, EndedTyped DEF UndoSay, ChannelStates, ConnectionStates
  <2>. QED BY <1>1, <1>17, <2>1, <2>2 DEF UndoSay, SupHere, SupOnly, Unused, Undoing, core, tasks
<1>. QED BY <1>2, <1>3, <1>4, <1>5, <1>6, <1>7, <1>8, <1>9, <1>10, <1>11, <1>12, <1>13, <1>14,
            <1>15, <1>16, <1>17, <1>18 DEF SupWalks
\* What aborts the tasks of a life.
Aborts ==
  /\ AbortLinks /\ UNCHANGED <<epoch, tree, ends, clients, attempted, faults>>
  /\ sup' \in SupType /\ Unused(sup') /\ (sup'.cut => closed')
  /\ closed' => (sup'.cut \/ sup'.at = "gone") /\ sup'.mode # "first"
  /\ closer' \in CloserType /\ closed' \in BOOLEAN /\ closed' = (closer'.at # "idle")
  /\ closer.at \in {"join", "say", "done"} => closer'.at \in {"join", "say", "done"}
  /\ sup'.at \in Undoing => Pending
  /\ sup'.at = "await" => sup'.cut /\ sup'.task # Nobody

LEMMA AbortsKeep ==
  ASSUME GInv, Aborts
  PROVE  GInv'
<1>0. TypeOK /\ Ahead /\ Reported /\ Turns /\ AbortLinks
  BY DEF GInv, Aborts
<1>1. /\ streams' \in StreamsType /\ controls' \in [Controls -> ControlType]
      /\ loops' \in LoopsType /\ clocks' \in ClocksType /\ life' \in LifeType
      /\ life' = NoLife
      /\ \A e \in Epochs : streams'[e] = streams[e] \/ (streams[e] = "up" /\ streams'[e] = "cut")
      /\ \A e \in Epochs :
           /\ loops'[e].task = loops[e].task
           /\ loops'[e].at = loops[e].at \/ (loops[e].at = "on" /\ loops'[e].at = "gone")
      /\ \A e \in Epochs : clocks'[e] = IF e = life.clock THEN "gone" ELSE clocks[e]
      /\ \A c \in Controls :
           /\ controls'[c].epoch = controls[c].epoch /\ controls'[c].at = controls[c].at
           /\ controls'[c].say = controls[c].say /\ controls'[c].opened = controls[c].opened
  BY <1>0, Aborted
<1>2. TypeOK'
  BY <1>0, <1>1, TypeParts, TypePartsNext DEF Aborts
<1>3. \A e \in Epochs : Fresh(e) => streams'[e] = "none" /\ clocks'[e] = "none"
  <2>1. ASSUME NEW e \in Epochs, Fresh(e) PROVE e # life.clock
    BY <1>0, <2>1, Numbers DEF Ahead, Fresh
  <2>. QED BY <1>1, <2>1 DEF Fresh
<1>4. \A e \in Epochs : clocks[e] = "none" => clocks'[e] = "none"
  <2>1. ASSUME NEW e \in Epochs, clocks[e] = "none" PROVE e # life.clock
    BY <1>0, <2>1, Numbers DEF Ahead
  <2>. QED BY <1>1, <2>1
<1>5. Ahead'
  <2>1. epoch \in Epochs /\ sup'.epoch \in Epochs /\ epoch' = epoch
    BY <1>0, TypeParts DEF Aborts, SupType
  <2>2. \A e \in Epochs : e > epoch' =>
          streams'[e] = "none" /\ clocks'[e] = "none" /\ loops'[e].at = "none"
    BY <1>0, <1>1, <1>3, <2>1 DEF Ahead
  <2>3. \A c \in Controls :
          /\ controls'[c].epoch <= epoch'
          /\ controls'[c].at \in {"saying", "writing"} <=> controls'[c].say # "nothing"
    BY <1>0, <1>1, <2>1 DEF Ahead
  <2>4. life'.clock = Nobody
    BY <1>1 DEF NoLife
  <2>5. /\ sup'.at \in {"abort", "say", "backoff", "connecting", "dial", "shake", "spawn",
                        "failed", "counting", "undoSay"} => streams'[epoch'] = "none" /\ clocks'[epoch'] = "none"
        /\ sup'.at \in {"dial", "shake", "spawn"} =>
             streams'[sup'.epoch] = "none" /\ clocks'[sup'.epoch] = "none"
        /\ sup'.at \in {"opened", "control", "await", "keep", "loop", "clock"} =>
             clocks'[sup'.epoch] = "none"
    BY <1>3, <1>4, <2>1 DEF Aborts, Unused
  <2>. QED BY <2>1, <2>2, <2>3, <2>4, <2>5 DEF Ahead, Aborts, Fresh, Unused
<1>6. Reported'
  <2>1. \A i \in 1 .. Len(ends) : ends[i].epoch \in Epochs
    BY <1>0, EndTyped
  <2>. QED BY <1>0, <1>1, <2>1 DEF Reported, Aborts
<1>7. Pending' => Pending
  BY DEF Pending, Aborts, Undoing
<1>8. Turns'
  <2>1. faults \in 0 .. MaxFaults
    BY <1>0, TypeParts
  <2>2. faults' \in Nat /\ faults' >= faults /\ epoch' = epoch
    BY <2>1, Numbers DEF Aborts
  <2>3. Len(ends') <= faults'
    BY <1>0 DEF Turns, Aborts
  <2>. QED BY <1>0, <1>7, <2>2, <2>3, TurnsStay DEF Aborts
<1>. QED BY <1>2, <1>5, <1>6, <1>8 DEF GInv

LEMMA SupAborts ==
  ASSUME GInv, AbortLife \/ UndoAbort
  PROVE  Aborts
<1>1. SupHere /\ TypeOK /\ Ahead
  BY SupIsHere DEF GInv
<1>2. closer \in CloserType /\ closed \in BOOLEAN
  BY <1>1, TypeParts
<1>3. CASE AbortLife
  <2>1. /\ sup' \in SupType /\ sup'.at = "say" /\ sup'.mode = sup.mode /\ sup'.epoch = sup.epoch
        /\ sup'.cut = sup.cut /\ sup.at = "abort"
    BY <1>1, <1>3, SupTyped, SupPlaces DEF AbortLife
  <2>. QED BY <1>1, <1>2, <1>3, <2>1 DEF AbortLife, Aborts, SupHere, Ahead, Unused, Undoing, core
<1>4. CASE UndoAbort
  <2>1. sup' = [sup EXCEPT !.at = "undoAwait", !.task = Nobody] /\ sup.at = "undo"
    BY <1>4 DEF UndoAbort
  <2>2. /\ sup' \in SupType /\ sup'.at = "undoAwait" /\ sup'.mode = sup.mode
        /\ sup'.epoch = sup.epoch /\ sup'.cut = sup.cut
    BY <1>1, <2>1 DEF SupHere, SupType, SupAwaits
  <2>3. Pending
    BY <2>1 DEF Pending
  <2>. QED BY <1>1, <1>2, <1>4, <2>1, <2>2, <2>3 DEF UndoAbort, Aborts, SupHere, Ahead, Unused, core
<1>. QED BY <1>3, <1>4

\* The epoch turns.
LEMMA EpochTurns ==
  ASSUME GInv, epoch' = epoch + 1, epoch' \in Epochs,
         UNCHANGED <<tree, closed, streams, controls, loops, clocks, life, clients, attempted, faults>>,
         ends' = ends \/ (ends # <<>> /\ ends' = Tail(ends)),
         \/ /\ Pending /\ closer' = closer
            /\ sup' \in SupType /\ sup'.at \in {"abort", "undoSay"} /\ sup'.cut = sup.cut
            /\ sup'.epoch = sup.epoch /\ (sup'.mode = "first" => sup.mode = "first")
            /\ sup.at # "gone"
         \/ /\ sup' = sup /\ closer' \in CloserType /\ closer.at = "bump"
            /\ closer'.at \in {"join", "say"}
  PROVE  GInv'
<1>0. TypeOK /\ Ahead /\ Reported /\ Turns
  BY DEF GInv
<1>1. /\ ends \in EndsType /\ ends' \in EndsType /\ Len(ends') <= Len(ends) /\ Len(ends') \in Nat
      /\ Len(ends) \in Nat
      /\ \A i \in 1 .. Len(ends') : \E j \in 1 .. Len(ends) : ends'[i] = ends[j]
  <2>1. ends \in EndsType
    BY <1>0, TypeParts
  <2>2. Len(ends) \in Nat
    BY <2>1 DEF EndsType
  <2>. QED BY <2>1, <2>2, TakenFromFront
<1>2. epoch \in Nat /\ faults \in Nat /\ sup.epoch \in Nat /\ epoch' \in Nat
  BY <1>0, NatParts
<1>3. \A i \in 1 .. Len(ends') : ends'[i].epoch <= epoch /\ ends'[i].epoch \in Epochs
  BY <1>0, <1>1, EndTyped DEF Reported
<1>4. TypeOK'
  <2>1. Len(ends') <= 2 * MaxFaults
    BY <1>0, <1>1, Numbers DEF TypeOK
  <2>2. closer' \in CloserType /\ sup' \in SupType
    BY <1>0, TypeParts
  <2>. QED BY <1>0, <1>1, <2>1, <2>2, TypeParts, TypePartsNext
<1>5. Ahead'
  <2>1. \A e \in Epochs : e > epoch' => Fresh(e) /\ loops[e].at = "none"
    BY <1>0, <1>2, Numbers DEF Ahead
  <2>2. Fresh(epoch')
    BY <1>0, <1>2 DEF Ahead
  <2>3. \A c \in Controls : controls[c].epoch <= epoch'
    <3>1. ASSUME NEW c \in Controls PROVE controls[c].epoch <= epoch'
      <4>1. controls[c].epoch \in Nat
        BY <1>0, NatParts
      <4>. QED BY <1>0, <1>2, <4>1 DEF Ahead
    <3>. QED BY <3>1
  <2>4. sup'.epoch <= epoch'
    BY <1>0, <1>2 DEF Ahead
  <2>. QED BY <1>0, <2>1, <2>2, <2>3, <2>4 DEF Ahead, Fresh
<1>6. Reported'
  <2>1. ASSUME NEW i \in 1 .. Len(ends') PROVE ends'[i].epoch <= epoch'
    <3>1. ends'[i].epoch <= epoch /\ ends'[i].epoch \in Nat
      BY <1>3, Numbers
    <3>. QED BY <1>2, <3>1
  <2>. QED BY <1>0, <1>1, <2>1 DEF Reported
<1>7. ASSUME NEW i \in 1 .. Len(ends'), ends'[i].epoch = epoch' PROVE FALSE
  <2>1. ends'[i].epoch <= epoch /\ ends'[i].epoch = epoch + 1
    BY <1>3, <1>7
  <2>. QED BY <1>2, <2>1
<1>8. Len(ends') <= faults'
  BY <1>0, <1>1, <1>2 DEF Turns
<1> DEFINE j  == IF closer.at \in {"join", "say", "done"} THEN 1 ELSE 0
           jn == IF closer'.at \in {"join", "say", "done"} THEN 1 ELSE 0
           q  == IF Pending THEN 1 ELSE 0
           qn == IF Pending' THEN 1 ELSE 0
<1>9. epoch + q <= 1 + faults + j /\ (Turns' <=> Len(ends') <= faults' /\ epoch' + qn <= 1 + faults' + jn)
  BY <1>0 DEF Turns
<1>10. \/ q = 1 /\ qn = 0 /\ jn = j
       \/ j = 0 /\ jn = 1 /\ qn <= q
  <2>1. CASE Pending /\ closer' = closer /\ sup'.at \in {"abort", "undoSay"}
    <3>1. ~Pending'
      BY <1>7, <2>1 DEF Pending
    <3>. QED BY <2>1, <3>1
  <2>2. CASE sup' = sup /\ closer.at = "bump" /\ closer'.at \in {"join", "say"}
    <3>1. Pending' => Pending
      BY <1>7, <2>2 DEF Pending
    <3>. QED BY <2>2, <3>1
  <2>. QED BY <2>1, <2>2
<1>11. j \in Int /\ jn \in Int /\ q \in Int /\ qn \in Int
  OBVIOUS
<1> HIDE DEF j, jn, q, qn
<1>12. epoch' + qn <= 1 + faults' + jn
  <2>1. epoch + q <= 1 + faults + j /\ epoch' = epoch + 1 /\ faults' = faults
    BY <1>9
  <2>2. epoch \in Int /\ faults \in Int
    BY <1>2
  <2>3. CASE q = 1 /\ qn = 0 /\ jn = j
    BY <1>11, <2>1, <2>2, <2>3
  <2>4. CASE j = 0 /\ jn = 1 /\ qn <= q
    BY <1>11, <2>1, <2>2, <2>4
  <2>. QED BY <1>10, <2>3, <2>4
<1>13. Turns'
  BY <1>8, <1>9, <1>12
<1>. QED BY <1>4, <1>5, <1>6, <1>13 DEF GInv
LEMMA EpochSteps ==
  ASSUME GInv, RecvEnd \/ UndoBump \/ CloseBumps
  PROVE  GInv'
<1>0. TypeOK /\ Turns /\ SupHere
  BY SupIsHere DEF GInv
<1>1. CASE RecvEnd
  <2>1. sup' \in SupType /\ sup'.at = "abort" /\ sup'.cut = sup.cut /\ sup'.epoch = sup.epoch
        /\ sup'.mode # "first" /\ sup.at = "recv"
    <3> DEFINE m == IF Head(ends).how = "Aged" THEN "swap" ELSE "retry"
    <3>1. sup' = [sup EXCEPT !.at = "abort", !.mode = m] /\ sup.at = "recv"
      BY <1>1 DEF RecvEnd
    <3>2. m \in {"swap", "retry"}
      OBVIOUS
    <3> HIDE DEF m
    <3>. QED BY <1>0, <3>1, <3>2 DEF SupHere, SupType, SupRuns
  <2>2. Pending
    <3>1. ends \in EndsType /\ ends # <<>> /\ Head(ends).epoch = epoch
      BY <1>0, <1>1, TypeParts DEF RecvEnd, EndsTheCurrent
    <3>2. 1 \in 1 .. Len(ends) /\ Head(ends) = ends[1]
      BY <3>1 DEF EndsType
    <3>. QED BY <3>1, <3>2 DEF Pending
  <2>3. epoch + 1 \in Epochs
    BY <1>0, <2>2, TurnsInBounds
  <2>. QED BY <1>1, <2>1, <2>2, <2>3, EpochTurns DEF RecvEnd, tasks
<1>2. CASE UndoBump
  <2>1. sup' \in SupType /\ sup'.at = "undoSay" /\ sup'.cut = sup.cut /\ sup'.epoch = sup.epoch
        /\ sup'.mode = sup.mode /\ sup.at = "undoBump"
    BY <1>0, <1>2, SupTyped, SupPlaces DEF UndoBump
  <2>2. Pending
    BY <2>1 DEF Pending
  <2>3. epoch + 1 \in Epochs
    BY <1>0, <2>2, TurnsInBounds
  <2>. QED BY <1>2, <2>1, <2>2, <2>3, EpochTurns DEF UndoBump, tasks
<1>3. CASE CloseBumps
  <2>1. closer' \in CloserType /\ closer'.at \in {"join", "say"} /\ closer.at = "bump"
    <3> DEFINE to == IF closer.how = "close" THEN "join" ELSE "say"
    <3>1. closer' = [closer EXCEPT !.at = to] /\ closer.at = "bump"
      BY <1>3 DEF CloseBumps
    <3>2. to \in {"join", "say"} /\ closer \in CloserType
      BY <1>0, TypeParts
    <3> HIDE DEF to
    <3>. QED BY <3>1, <3>2 DEF CloserType
  <2>2. epoch + 1 \in Epochs
    BY <1>0, <2>1, TurnsInBounds
  <2>. QED BY <1>3, <2>1, <2>2, EpochTurns DEF CloseBumps, tasks
<1>. QED BY <1>1, <1>2, <1>3

\* A step that writes to the tasks of a life, or to what refers to them, and leaves the
\* epoch and the tree alone.  What is over stays over, and what is new is of this epoch.
Touches ==
  /\ UNCHANGED <<epoch, closed, closer>> /\ tree' \in TreeType
  /\ sup.at # "gone" \/ sup' = sup
  /\ sup' \in SupType /\ sup'.cut = sup.cut /\ (sup'.mode = "first" => sup.mode = "first")
  /\ sup'.epoch = sup.epoch
  /\ streams' \in StreamsType /\ controls' \in [Controls -> ControlType] /\ loops' \in LoopsType
  /\ clocks' \in ClocksType /\ life' \in LifeType
  /\ clients' \in [Clients -> Controls \union {Nobody}]
  /\ attempted' \in {"never", "recent", "before"} /\ faults' \in 0 .. MaxFaults /\ faults' >= faults
  /\ \A e \in Epochs : streams[e] = "gone" => streams'[e] = "gone"
  /\ \A e \in Epochs : clocks[e] = "gone" => clocks'[e] = "gone"
  /\ \A e \in Epochs : e > epoch => (Fresh(e) => Fresh(e)') /\ (loops[e].at = "none" => loops'[e].at = "none")
  /\ \A c \in Controls : controls'[c].epoch <= epoch
  /\ \A c \in Controls :
       controls'[c].at \in {"saying", "writing"} <=> controls'[c].say # "nothing"
  /\ life'.clock # Nobody => clocks'[life'.clock] # "none"
  /\ sup'.at \in {"abort", "say", "backoff", "connecting", "dial", "shake", "spawn",
                  "failed", "counting", "undoSay"} => Fresh(epoch)'
  /\ sup'.at \in {"dial", "shake", "spawn"} => Fresh(sup.epoch)'
  /\ sup'.at \in {"opened", "control", "await", "keep", "loop", "clock"} =>
       clocks'[sup.epoch] = "none"
  /\ sup'.at = "await" => sup'.task # Nobody
  /\ (Pending' => Pending) \/ faults' = faults + 1
  /\ \/ ends' = ends
     \/ /\ faults' = faults + 1
        /\ \E e \in Epochs :
             \/ ends' = Append(ends, [how |-> "Lost", epoch |-> e]) /\ streams'[e] = "gone" /\ e <= epoch
             \/ ends' = Append(ends, [how |-> "Aged", epoch |-> e]) /\ clocks'[e] = "gone" /\ e <= epoch

LEMMA TouchesKeep ==
  ASSUME GInv, Touches
  PROVE  GInv'
<1>0. TypeOK /\ Ahead /\ Reported /\ Turns
  BY DEF GInv
<1>n. /\ epoch \in Nat /\ faults \in Nat /\ faults' \in Nat /\ MaxFaults \in Nat
      /\ faults' <= MaxFaults /\ Len(ends) <= faults /\ ends \in EndsType
  <2>1. faults' \in 0 .. MaxFaults /\ ends \in EndsType
    BY <1>0, TypeParts DEF Touches
  <2>2. Len(ends) <= faults
    BY <1>0 DEF Turns
  <2>. QED BY <1>0, <2>1, <2>2, NatParts, Numbers
<1> DEFINE Goal ==
             /\ ends' \in EndsType /\ Len(ends') <= faults' /\ Len(ends') \in Nat
             /\ \A i \in 1 .. Len(ends') :
                  /\ ends'[i].epoch <= epoch
                  /\ ends'[i].how = "Lost" => streams'[ends'[i].epoch] = "gone"
                  /\ ends'[i].how = "Aged" => clocks'[ends'[i].epoch] = "gone"
<1>1. Goal
  <2>1. \A i \in 1 .. Len(ends) :
          /\ ends[i].epoch <= epoch
          /\ ends[i].how = "Lost" => streams'[ends[i].epoch] = "gone"
          /\ ends[i].how = "Aged" => clocks'[ends[i].epoch] = "gone"
    BY <1>0, EndTyped DEF Reported, Touches
  <2>2. CASE ends' = ends
    <3>1. Len(ends) \in Nat /\ Len(ends) <= faults'
      BY <1>n DEF EndsType, Touches
    <3>. QED BY <1>n, <2>1, <2>2, <3>1
  <2>3. ASSUME NEW e \in Epochs, NEW how \in {"Lost", "Aged"}, faults' = faults + 1,
               ends' = Append(ends, [how |-> how, epoch |-> e]), e <= epoch,
               how = "Lost" => streams'[e] = "gone", how = "Aged" => clocks'[e] = "gone"
        PROVE  Goal
    <3> DEFINE r == [how |-> how, epoch |-> e]
    <3>1. r \in [how : {"Lost", "Aged"}, epoch : Epochs] /\ r.how = how /\ r.epoch = e
      OBVIOUS
    <3>2. ends' = Append(ends, r)
      BY <2>3
    <3> HIDE DEF r
    <3>3. /\ Len(ends') = Len(ends) + 1 /\ ends' \in EndsType /\ Len(ends) \in Nat
          /\ \A i \in 1 .. Len(ends) : ends'[i] = ends[i]
          /\ ends'[Len(ends) + 1] = r
      BY <1>n, <3>1, <3>2, AppendProperties DEF EndsType
    <3>4. Len(ends') <= faults' /\ Len(ends') \in Nat
      BY <1>n, <2>3, <3>3
    <3>5. ASSUME NEW i \in 1 .. Len(ends')
          PROVE  /\ ends'[i].epoch <= epoch
                 /\ ends'[i].how = "Lost" => streams'[ends'[i].epoch] = "gone"
                 /\ ends'[i].how = "Aged" => clocks'[ends'[i].epoch] = "gone"
      <4>1. i \in 1 .. Len(ends) \/ i = Len(ends) + 1
        BY <3>3
      <4>2. CASE i \in 1 .. Len(ends)
        BY <2>1, <3>3, <4>2
      <4>3. CASE i = Len(ends) + 1
        BY <2>3, <3>1, <3>3, <4>3
      <4>. QED BY <4>1, <4>2, <4>3
    <3>. QED BY <3>3, <3>4, <3>5
  <2>. QED BY <2>2, <2>3 DEF Touches
<1>2. TypeOK'
  <2>1. Len(ends') <= 2 * MaxFaults
    BY <1>n, <1>1
  <2>. QED BY <1>0, <1>1, <2>1, TypeParts, TypePartsNext DEF Touches
<1>3. Ahead'
  BY <1>0 DEF Ahead, Touches, Fresh
<1>4. Reported'
  BY <1>1 DEF Reported, Touches
<1>5. Turns'
  <2>1. epoch' = epoch /\ closer' = closer /\ ((Pending' => Pending) \/ faults' = faults + 1)
        /\ faults' >= faults
    BY DEF Touches
  <2>. QED BY <1>0, <1>n, <1>1, <2>1, TurnsStay
<1>. QED BY <1>2, <1>3, <1>4, <1>5 DEF GInv
\* The supervisor starts a task of the new life.
LEMMA SupTouches ==
  ASSUME GInv, SpawnStream \/ StartControl \/ StartLoop \/ StartClock
  PROVE  Touches
<1>0. TypeOK /\ SupHere /\ Ahead /\ epoch \in Nat /\ sup.epoch \in Nat /\ faults \in Nat
  BY SupIsHere, NatParts DEF GInv
<1>1. /\ streams \in StreamsType /\ controls \in [Controls -> ControlType] /\ loops \in LoopsType
      /\ clocks \in ClocksType /\ life \in LifeType /\ tree \in TreeType
      /\ clients \in [Clients -> Controls \union {Nobody}]
      /\ attempted \in {"never", "recent", "before"} /\ faults \in 0 .. MaxFaults
      /\ sup.epoch \in Epochs /\ epoch \in Epochs /\ sup.task \in Controls \union {Nobody}
  BY <1>0, TypeParts, SupFields
<1>2. /\ \A e \in Epochs : e > epoch => e # sup.epoch
      /\ faults <= faults
  BY <1>0 DEF Ahead
<1>3. CASE SpawnStream
  <2>1. /\ sup' \in SupType /\ sup'.at = "opened" /\ sup'.cut = sup.cut /\ sup'.epoch = sup.epoch
        /\ sup'.mode = sup.mode /\ sup.at = "spawn"
    BY <1>0, <1>3, SupTyped, SupPlaces DEF SpawnStream
  <2>2. /\ streams' \in StreamsType /\ streams[sup.epoch] = "none" /\ clocks[sup.epoch] = "none"
        /\ \A e \in Epochs : e # sup.epoch => streams'[e] = streams[e]
    BY <1>0, <1>1, <1>3, <2>1 DEF SpawnStream, StreamsType, Ahead, Fresh
  <2>3. life' \in LifeType /\ life'.clock = life.clock
    BY <1>1, <1>3 DEF SpawnStream, LifeType
  <2>4. Pending' => Pending
    BY <1>3, <2>1 DEF SpawnStream, Pending, core
  <2>. QED BY <1>0, <1>1, <1>2, <1>3, <2>1, <2>2, <2>3, <2>4 DEF SpawnStream, Touches, Ahead, Fresh, core
<1>4. CASE StartControl
  <2>1. /\ sup' \in SupType /\ sup'.at \in {"await", "keep"} /\ sup'.cut = sup.cut
        /\ sup'.epoch = sup.epoch /\ sup'.mode = sup.mode /\ sup'.task = NewTask /\ sup.at = "control"
    <3> DEFINE to == IF sup.opts.policy = "Required" THEN "await" ELSE "keep"
    <3>1. sup' = [sup EXCEPT !.at = to, !.task = NewTask] /\ sup.at = "control"
      BY <1>4 DEF StartControl
    <3>2. to \in {"await", "keep"} /\ NewTask \in Controls
      BY <1>4, NewTaskFree DEF StartControl, SpawnControl
    <3> HIDE DEF to
    <3>. QED BY <1>0, <3>1, <3>2 DEF SupHere, SupType, SupRuns, SupAwaits
  <2>2. /\ NewTask \in Controls
        /\ controls' \in [Controls -> ControlType]
        /\ \A c \in Controls \ {NewTask} : controls'[c] = controls[c]
        /\ controls'[NewTask] = [epoch |-> sup.epoch, at |-> "spawned", say |-> "nothing",
                                 cut |-> FALSE, opened |-> "pending"]
    BY <1>0, <1>1, <1>4, Spawned DEF StartControl
  <2>3. /\ controls'[NewTask].epoch = sup.epoch /\ controls'[NewTask].at = "spawned"
        /\ controls'[NewTask].say = "nothing" /\ controls'[NewTask].opened = "pending"
    BY <2>2
  <2>4. \A c \in Controls : /\ controls'[c].epoch <= epoch
                            /\ controls'[c].at \in {"saying", "writing"} <=> controls'[c].say # "nothing"
    BY <1>0, <2>2, <2>3 DEF Ahead
  <2>5. NewTask # Nobody
    BY <2>2, Numbers
  <2>6. Pending' => Pending
    BY <1>4, <2>1, <2>3 DEF StartControl, Pending, core
  <2>. QED BY <1>0, <1>1, <1>2, <1>4, <2>1, <2>2, <2>4, <2>5, <2>6
           DEF StartControl, Touches, Ahead, Fresh, core
<1>5. CASE StartLoop
  <2>1. /\ sup' \in SupType /\ sup'.at = "clock" /\ sup'.cut = sup.cut /\ sup'.epoch = sup.epoch
        /\ sup'.mode = sup.mode /\ sup.at = "loop"
    BY <1>0, <1>5, SupTyped, SupPlaces DEF StartLoop
  <2>2. loops' \in LoopsType /\ \A e \in Epochs : e # sup.epoch => loops'[e] = loops[e]
    BY <1>1, <1>5 DEF StartLoop, LoopsType
  <2>3. life' \in LifeType /\ life'.clock = life.clock
    BY <1>1, <1>5 DEF StartLoop, LifeType
  <2>4. Pending' => Pending
    BY <1>5, <2>1 DEF StartLoop, Pending, core
  <2>. QED BY <1>0, <1>1, <1>2, <1>5, <2>1, <2>2, <2>3, <2>4 DEF StartLoop, Touches, Ahead, Fresh, core
<1>6. CASE StartClock
  <2>1. /\ sup' \in SupType /\ sup'.at = "recv" /\ sup'.cut = sup.cut /\ sup'.epoch = sup.epoch
        /\ sup'.mode = "retry" /\ sup.at = "clock"
    <3>1. sup' = [sup EXCEPT !.at = "recv", !.mode = "retry"] /\ sup.at = "clock"
      BY <1>6 DEF StartClock
    <3>. QED BY <1>0, <3>1 DEF SupHere, SupType, SupAwaits
  <2>2. clocks[sup.epoch] = "none"
    BY <1>0, <2>1 DEF Ahead
  <2>3. /\ clocks' \in ClocksType /\ \A e \in Epochs : e # sup.epoch => clocks'[e] = clocks[e]
        /\ life' \in LifeType /\ (life'.clock # Nobody => clocks'[life'.clock] # "none")
    <3>1. CASE clocks' = [clocks EXCEPT ![sup.epoch] = "on"] /\ life' = [life EXCEPT !.clock = sup.epoch]
      BY <1>1, <3>1 DEF ClocksType, LifeType
    <3>2. CASE UNCHANGED <<clocks, life>>
      BY <1>0, <1>1, <3>2 DEF Ahead
    <3>. QED BY <1>6, <3>1, <3>2 DEF StartClock
  <2>4. Pending' => Pending
    BY <1>6, <2>1 DEF StartClock, Pending, core
  <2>. QED BY <1>0, <1>1, <1>2, <1>6, <2>1, <2>2, <2>3, <2>4 DEF StartClock, Touches, Ahead, Fresh, core
<1>. QED BY <1>3, <1>4, <1>5, <1>6

\* The stream task and the clock of a life.
LEMMA LifeTouches ==
  ASSUME GInv, NEW e \in Epochs, StreamEnds(e) \/ StreamUnwinds(e) \/ Ages(e)
  PROVE  Touches
<1>0. TypeOK /\ Ahead /\ epoch \in Nat /\ faults \in Nat /\ e \in Nat /\ MaxFaults \in Nat
  BY NatParts, Numbers DEF GInv
<1>1. /\ streams \in StreamsType /\ controls \in [Controls -> ControlType] /\ loops \in LoopsType
      /\ clocks \in ClocksType /\ life \in LifeType /\ tree \in TreeType
      /\ clients \in [Clients -> Controls \union {Nobody}] /\ sup \in SupType
      /\ attempted \in {"never", "recent", "before"} /\ faults \in 0 .. MaxFaults
      /\ sup.epoch \in Epochs /\ epoch \in Epochs
  BY <1>0, TypeParts, SupFields
<1>2. ASSUME ~Fresh(e)
      PROVE  e <= epoch
  BY <1>0, <1>2 DEF Ahead
<1>3. CASE StreamEnds(e) \/ StreamUnwinds(e)
  <2>1. /\ streams' = [streams EXCEPT ![e] = "gone"] /\ streams[e] # "none"
        /\ UNCHANGED <<core, controls, loops, clocks, closed, life, sup, closer, clients, attempted>>
    BY <1>3 DEF StreamEnds, StreamUnwinds
  <2>2. e <= epoch
    BY <1>2, <2>1 DEF Fresh
  <2>3. /\ streams' \in StreamsType /\ streams'[e] = "gone"
        /\ \A f \in Epochs : f # e => streams'[f] = streams[f]
    BY <1>1, <2>1 DEF StreamsType
  <2>4. faults' \in 0 .. MaxFaults /\ faults' >= faults
    BY <1>0, <1>1, <1>3 DEF StreamEnds, StreamUnwinds, Fault
  <2>5. \A f \in Epochs : Fresh(f) => f # e /\ Fresh(f)'
    BY <2>1, <2>3 DEF Fresh
  <2>6. \/ /\ faults' = faults + 1 /\ ends' = Append(ends, [how |-> "Lost", epoch |-> e])
           /\ streams'[e] = "gone" /\ e <= epoch
        \/ ends' = ends /\ (Pending' => Pending)
    BY <1>3, <2>1, <2>2, <2>3 DEF StreamEnds, StreamUnwinds, Fault, Pending, core
  <2>. QED BY <1>0, <1>1, <2>1, <2>3, <2>4, <2>5, <2>6 DEF Touches, Ahead, core
<1>4. CASE Ages(e)
  <2>1. /\ clocks' = [clocks EXCEPT ![e] = "gone"] /\ clocks[e] = "on"
        /\ UNCHANGED <<core, controls, loops, streams, closed, life, sup, closer, clients, attempted>>
    BY <1>4 DEF Ages
  <2>2. e <= epoch
    BY <1>2, <2>1 DEF Fresh
  <2>3. /\ clocks' \in ClocksType /\ clocks'[e] = "gone"
        /\ \A f \in Epochs : f # e => clocks'[f] = clocks[f]
    BY <1>1, <2>1 DEF ClocksType
  <2>4. faults' \in 0 .. MaxFaults /\ faults' >= faults /\ faults' = faults + 1
    BY <1>0, <1>1, <1>4 DEF Ages, Fault
  <2>5. \A f \in Epochs : Fresh(f) => f # e /\ Fresh(f)'
    BY <2>1, <2>3 DEF Fresh
  <2>6. \/ ends' = Append(ends, [how |-> "Aged", epoch |-> e]) /\ clocks'[e] = "gone" /\ e <= epoch
        \/ ends' = ends
    BY <1>4, <2>2, <2>3 DEF Ages
  <2>7. \A f \in Epochs : clocks[f] = "none" => clocks'[f] = "none"
    BY <2>1, <2>3
  <2>8. life'.clock # Nobody => clocks'[life'.clock] # "none"
    <3>1. life.clock \in Epochs \union {Nobody}
      BY <1>1 DEF LifeType
    <3>. QED BY <1>0, <2>1, <2>3, <3>1 DEF Ahead
  <2>. QED BY <1>0, <1>1, <2>1, <2>3, <2>4, <2>5, <2>6, <2>7, <2>8 DEF Touches, Ahead, core
<1>. QED BY <1>3, <1>4
\* The control tasks, and the clock of the reopen gap.
LEMMA ControlTouches ==
  ASSUME GInv, NEW c \in Controls, RunControl(c) \/ ControlEnds(c)
  PROVE  Touches
<1>0. TypeOK /\ Ahead /\ epoch \in Nat /\ faults \in Nat
  BY NatParts DEF GInv
<1>1. /\ streams \in StreamsType /\ controls \in [Controls -> ControlType] /\ loops \in LoopsType
      /\ clocks \in ClocksType /\ life \in LifeType /\ sup \in SupType
      /\ clients \in [Clients -> Controls \union {Nobody}]
  BY <1>0, TypeParts
<1>2. /\ controls' \in [Controls -> ControlType]
      /\ \A d \in Controls \ {c} : controls'[d] = controls[d]
      /\ \/ controls'[c].at = "gone" /\ controls'[c].epoch = Nobody /\ controls'[c].say = "nothing"
         \/ /\ controls'[c].epoch = controls[c].epoch
            /\ controls'[c].at \in {"saying", "writing"} <=> controls'[c].say # "nothing"
      /\ UNCHANGED <<epoch, streams, loops, clocks, closed, life, ends, sup, closer, clients>>
      /\ tree' \in TreeType /\ attempted' \in {"never", "recent", "before"}
      /\ faults' \in 0 .. MaxFaults /\ faults' >= faults
      /\ Failing(controls'[c]) /\ ~Failing(controls[c]) => faults' = faults + 1
  BY <1>0, ControlMoves
<1>3. \A d \in Controls : /\ controls'[d].epoch <= epoch
                          /\ controls'[d].at \in {"saying", "writing"} <=> controls'[d].say # "nothing"
  <2>1. Nobody <= epoch
    BY <1>0 DEF Nobody
  <2>. QED BY <1>0, <1>2, <2>1 DEF Ahead
<1>4. (Pending' => Pending) \/ faults' = faults + 1
  <2>1. sup.at = "await" => sup.task \in Controls
    BY <1>0, <1>1, SupFields DEF Ahead
  <2>2. sup.at = "await" /\ Failing(controls'[sup.task]) => Failing(controls[sup.task]) \/ faults' = faults + 1
    BY <1>2, <2>1
  <2>. QED BY <1>2, <2>2 DEF Pending, Failing
<1>. QED BY <1>0, <1>1, <1>2, <1>3, <1>4 DEF Touches, Ahead, Fresh

\* A control task spawned by the loop of a life or by a client.
LEMMA SpawnTouches ==
  ASSUME GInv, SpawnControl(NewTask, epoch)
  PROVE  /\ NewTask \in Controls /\ controls' \in [Controls -> ControlType]
         /\ \A d \in Controls : /\ controls'[d].epoch <= epoch
                                /\ controls'[d].at \in {"saying", "writing"} <=> controls'[d].say # "nothing"
         /\ sup.task \in Controls => controls'[sup.task] = controls[sup.task]
<1>0. TypeOK /\ Ahead /\ epoch \in Nat /\ epoch \in Epochs
  BY NatParts, TypeParts DEF GInv
<1>1. /\ NewTask \in Controls /\ NewTask \notin Referred /\ controls[NewTask].at = "gone"
      /\ controls' \in [Controls -> ControlType]
      /\ \A c \in Controls \ {NewTask} : controls'[c] = controls[c]
      /\ controls'[NewTask] = [epoch |-> epoch, at |-> "spawned", say |-> "nothing",
                               cut |-> FALSE, opened |-> "pending"]
  BY <1>0, Spawned
<1>2. /\ controls'[NewTask].epoch = epoch /\ controls'[NewTask].at = "spawned"
      /\ controls'[NewTask].say = "nothing"
  BY <1>1
<1>3. NewTask # sup.task
  BY <1>1 DEF Referred
<1>4. epoch <= epoch
  BY <1>0
<1>. QED BY <1>0, <1>1, <1>2, <1>3, <1>4 DEF Ahead

LEMMA ReopenTouches ==
  ASSUME GInv, \/ \E e \in Epochs : RunLoop(e)
               \/ GapPasses
               \/ \E x \in Clients : ClientReopens(x) \/ ClientKeeps(x)
  PROVE  Touches
<1>0. TypeOK /\ Ahead /\ epoch \in Nat /\ faults \in Nat
  BY NatParts DEF GInv
<1>1. /\ streams \in StreamsType /\ controls \in [Controls -> ControlType] /\ loops \in LoopsType
      /\ clocks \in ClocksType /\ life \in LifeType /\ tree \in TreeType /\ epoch \in Epochs
      /\ clients \in [Clients -> Controls \union {Nobody}] /\ sup \in SupType
      /\ attempted \in {"never", "recent", "before"} /\ faults \in 0 .. MaxFaults
      /\ faults <= faults
  BY <1>0, TypeParts
<1>2. sup.at = "await" => sup.task \in Controls
  BY <1>0, SupFields DEF Ahead
<1> DEFINE Rest == UNCHANGED <<epoch, tree, streams, clocks, closed, ends, sup, closer, faults>>
<1>k. ASSUME Rest, UNCHANGED controls, loops' \in LoopsType, life' \in LifeType,
             life'.clock = life.clock,
             \A e \in Epochs : loops[e].at = "none" => loops'[e].at = "none",
             clients' \in [Clients -> Controls \union {Nobody}],
             attempted' \in {"never", "recent", "before"}
      PROVE  Touches
  <2>1. Pending' => Pending
    BY <1>k DEF Pending
  <2>. QED BY <1>0, <1>1, <1>k, <2>1 DEF Touches, Ahead, Fresh
<1>s. ASSUME Rest, SpawnControl(NewTask, epoch), loops' \in LoopsType, UNCHANGED <<life, attempted>>,
             \A e \in Epochs : loops[e].at = "none" => loops'[e].at = "none",
             clients' \in [Clients -> Controls \union {Nobody}]
      PROVE  Touches
  <2>1. /\ NewTask \in Controls /\ controls' \in [Controls -> ControlType]
        /\ \A d \in Controls : /\ controls'[d].epoch <= epoch
                               /\ controls'[d].at \in {"saying", "writing"} <=> controls'[d].say # "nothing"
        /\ sup.task \in Controls => controls'[sup.task] = controls[sup.task]
    BY <1>s, SpawnTouches
  <2>2. Pending' => Pending
    BY <1>2, <1>s, <2>1 DEF Pending
  <2>. QED BY <1>0, <1>1, <1>s, <2>1, <2>2 DEF Touches, Ahead, Fresh
<1>3. ASSUME NEW e \in Epochs, LoopTicks(e) PROVE Touches
  <2>1. CASE epoch = e /\ tree.stream = "Open"
    <3>1. /\ SpawnControl(NewTask, epoch) /\ loops[e].at = "on"
          /\ loops' = [loops EXCEPT ![e] = [at |-> "storing", task |-> NewTask]]
          /\ UNCHANGED <<core, streams, clocks, closed, life, ends, sup, closer, clients, attempted, faults>>
      BY <1>3, <2>1 DEF LoopTicks
    <3>2. NewTask \in Controls
      BY <3>1, SpawnTouches
    <3>3. loops' \in LoopsType /\ \A f \in Epochs : loops[f].at = "none" => loops'[f].at = "none"
      BY <1>1, <3>1, <3>2 DEF LoopsType
    <3>. QED BY <1>1, <1>s, <3>1, <3>3 DEF core
  <2>2. CASE ~(epoch = e /\ tree.stream = "Open")
    <3>1. /\ loops' = [loops EXCEPT ![e].at = "gone"] /\ loops[e].at = "on" /\ UNCHANGED controls
          /\ UNCHANGED <<core, streams, clocks, closed, life, ends, sup, closer, clients, attempted, faults>>
      BY <1>3, <2>2 DEF LoopTicks
    <3>2. loops' \in LoopsType /\ \A f \in Epochs : loops[f].at = "none" => loops'[f].at = "none"
      BY <1>1, <3>1 DEF LoopsType
    <3>. QED BY <1>1, <1>k, <3>1, <3>2 DEF core
  <2>. QED BY <2>1, <2>2
<1>4. ASSUME NEW e \in Epochs, LoopKeeps(e) PROVE Touches
  <2>1. /\ loops' = [loops EXCEPT ![e] = [at |-> "on", task |-> Nobody]] /\ loops[e].at = "storing"
        /\ life' = [life EXCEPT !.control = loops[e].task]
        /\ UNCHANGED <<core, streams, controls, clocks, closed, ends, sup, closer, clients, attempted, faults>>
    BY <1>4 DEF LoopKeeps
  <2>2. loops' \in LoopsType /\ \A f \in Epochs : loops[f].at = "none" => loops'[f].at = "none"
    BY <1>1, <2>1 DEF LoopsType
  <2>3. life' \in LifeType /\ life'.clock = life.clock
    <3>1. loops[e].task \in Controls \union {Nobody}
      BY <1>1 DEF LoopsType
    <3>. QED BY <1>1, <2>1, <3>1 DEF LifeType
  <2>. QED BY <1>1, <1>k, <2>1, <2>2, <2>3 DEF core
<1>5. CASE GapPasses
  <2>1. /\ attempted' = "before"
        /\ UNCHANGED <<core, tasks, closed, life, ends, sup, closer, clients, faults>>
    BY <1>5 DEF GapPasses
  <2>. QED BY <1>1, <1>k, <2>1 DEF core, tasks
<1>6. ASSUME NEW x \in Clients, ClientReopens(x) PROVE Touches
  <2>1. /\ SpawnControl(NewTask, epoch) /\ clients' = [clients EXCEPT ![x] = NewTask]
        /\ UNCHANGED <<core, streams, loops, clocks, closed, life, ends, sup, closer, attempted, faults>>
    BY <1>6 DEF ClientReopens
  <2>2. NewTask \in Controls
    BY <2>1, SpawnTouches
  <2>3. clients' \in [Clients -> Controls \union {Nobody}]
    BY <1>1, <2>1, <2>2
  <2>. QED BY <1>1, <1>s, <2>1, <2>3 DEF core
<1>7. ASSUME NEW x \in Clients, ClientKeeps(x) PROVE Touches
  <2>1. /\ life' = [life EXCEPT !.control = clients[x]] /\ clients' = [clients EXCEPT ![x] = Nobody]
        /\ UNCHANGED <<core, tasks, closed, ends, sup, closer, attempted, faults>>
    BY <1>7 DEF ClientKeeps
  <2>2. clients' \in [Clients -> Controls \union {Nobody}] /\ clients[x] \in Controls \union {Nobody}
    BY <1>1, <2>1
  <2>3. life' \in LifeType /\ life'.clock = life.clock
    BY <1>1, <2>1, <2>2 DEF LifeType
  <2>. QED BY <1>1, <1>k, <2>1, <2>2, <2>3 DEF core, tasks
<1>. QED BY <1>3, <1>4, <1>5, <1>6, <1>7 DEF RunLoop

\* close().
LEMMA CloseKeeps ==
  ASSUME GInv, (\E how \in {"close", "drop"} : CloseTakes(how)) \/ CloseStep
  PROVE  GInv'
<1>0. TypeOK /\ Ahead /\ Reported /\ Turns
  BY DEF GInv
<1>1. sup \in SupType /\ closer \in CloserType /\ life \in LifeType /\ tree \in TreeType
      /\ faults \in Nat
  BY <1>0, TypeParts, NatParts
<1>2. ASSUME NEW how \in {"close", "drop"}, CloseTakes(how) PROVE GInv'
  <2>1. /\ closed' = TRUE /\ ~closed /\ AbortLinks /\ sup.mode # "first"
        /\ sup' = [sup EXCEPT !.cut = sup.at # "gone"]
        /\ closer' = [at |-> "bump", how |-> how, stream |-> life.stream, control |-> life.control]
        /\ UNCHANGED <<core, ends, clients, attempted, faults>>
    BY <1>2 DEF CloseTakes, FirstClose
  <2>2. closer' \in CloserType /\ closer'.at = "bump" /\ closer.at = "idle"
    <3>1. life.stream \in Epochs \union {Nobody} /\ life.control \in Controls \union {Nobody}
      BY <1>1 DEF LifeType
    <3>2. closer.at = "idle"
      BY <1>0, <1>1, <2>1 DEF Ahead, CloserType
    <3>. QED BY <2>1, <3>1, <3>2 DEF CloserType
  <2>3. /\ sup' \in SupType /\ sup'.at = sup.at /\ sup'.mode = sup.mode /\ sup'.epoch = sup.epoch
        /\ sup'.task = sup.task
    BY <1>1, <2>1 DEF SupType
  <2>4. sup'.cut = (sup.at # "gone")
    BY <1>1, <2>1 DEF SupType
  <2>5. Unused(sup')
    BY <1>0, <2>3 DEF Unused, Ahead
  <2>6. sup'.at \in Undoing => Pending
    BY <2>3 DEF Undoing, Pending
  <2>7. Aborts
    BY <1>0, <1>1, <2>1, <2>2, <2>3, <2>4, <2>5, <2>6 DEF Aborts, Ahead, core
  <2>. QED BY <2>7, AbortsKeep
<1>3. CASE CloseBumps
  BY <1>3, EpochSteps
<1>4. CASE CloseJoins \/ CloseSays
  <2>1. /\ closer' \in CloserType /\ closer'.at \in {"say", "done"} /\ closer.at \in {"join", "say"}
        /\ tree' \in TreeType
        /\ UNCHANGED <<epoch, tasks, closed, life, ends, sup, clients, attempted, faults>>
    <3>1. CASE CloseJoins
      BY <1>1, <3>1 DEF CloseJoins, CloserType, core
    <3>2. CASE CloseSays
      <4>1. tree' \in TreeType
        BY <3>2, EndedTyped DEF CloseSays, ChannelStates, ConnectionStates
      <4>. QED BY <1>1, <3>2, <4>1 DEF CloseSays, CloserType
    <3>. QED BY <1>4, <3>1, <3>2
  <2>2. TypeOK'
    BY <1>0, <2>1, TypeParts, TypePartsNext DEF tasks
  <2>3. Ahead'
    BY <1>0, <2>1 DEF Ahead, Fresh, tasks
  <2>4. Reported'
    BY <1>0, <2>1 DEF Reported, tasks
  <2>5. Turns'
    <3>1. Pending' => Pending
      BY <2>1 DEF Pending, tasks
    <3>2. Len(ends') <= faults' /\ faults' >= faults
      BY <1>0, <1>1, <2>1 DEF Turns
    <3>. QED BY <1>0, <1>1, <2>1, <3>1, <3>2, TurnsStay
  <2>. QED BY <2>2, <2>3, <2>4, <2>5 DEF GInv
<1>. QED BY <1>2, <1>3, <1>4 DEF CloseStep
LEMMA Kept ==
  ASSUME GInv, [Next]_vars
  PROVE  GInv'
<1>1. CASE Supervise
  <2>1. CASE SupWalks
    BY <2>1, SupWalksOn, SupMovesOn
  <2>2. CASE AbortLife \/ UndoAbort
    BY <2>2, SupAborts, AbortsKeep
  <2>3. CASE RecvEnd \/ UndoBump
    BY <2>3, EpochSteps
  <2>4. CASE SpawnStream \/ StartControl \/ StartLoop \/ StartClock
    BY <2>4, SupTouches, TouchesKeep
  <2>. QED BY <1>1, <2>1, <2>2, <2>3, <2>4 DEF Supervise, SupWalks
<1>2. ASSUME NEW e \in Epochs, StreamEnds(e) \/ StreamUnwinds(e) \/ Ages(e) PROVE GInv'
  BY <1>2, LifeTouches, TouchesKeep
<1>3. ASSUME NEW c \in Controls, RunControl(c) \/ ControlEnds(c) PROVE GInv'
  BY <1>3, ControlTouches, TouchesKeep
<1>4. CASE \/ \E e \in Epochs : RunLoop(e)
           \/ GapPasses
           \/ \E x \in Clients : ClientReopens(x) \/ ClientKeeps(x)
  BY <1>4, ReopenTouches, TouchesKeep
<1>5. CASE (\E how \in {"close", "drop"} : CloseTakes(how)) \/ CloseStep
  BY <1>5, CloseKeeps
<1>6. CASE UNCHANGED vars
  BY <1>6 DEF vars, GInv, TypeOK, Ahead, Fresh, Reported, Turns, Pending
<1>. QED BY <1>1, <1>2, <1>3, <1>4, <1>5, <1>6 DEF Next

LEMMA Begins == ASSUME Init PROVE GInv
<1>1. /\ sup.at = "spawn" /\ sup.mode = "first" /\ sup.epoch = 1 /\ sup.task = Nobody
      /\ sup.cut = FALSE /\ sup \in SupType
  BY Numbers DEF Init, SupType, SupRuns
<1>2. TypeOK
  <2>1. tree \in TreeType /\ life \in LifeType /\ closer \in CloserType
    BY DEF Init, NoLife, TreeType, LifeType, CloserType, ConnectionStates, ChannelStates
  <2>2. NoControl \in ControlType
    BY DEF NoControl, ControlType
  <2>3. /\ streams \in StreamsType /\ controls \in [Controls -> ControlType] /\ loops \in LoopsType
        /\ clocks \in ClocksType /\ clients \in [Clients -> Controls \union {Nobody}]
    BY <2>2 DEF Init, StreamsType, LoopsType, ClocksType
  <2>4. ends \in EndsType /\ Len(ends) = 0 /\ faults \in 0 .. MaxFaults /\ Len(ends) <= 2 * MaxFaults
    BY Numbers DEF Init, EndsType
  <2>. QED BY <1>1, <2>1, <2>3, <2>4, Numbers, TypeParts DEF Init
<1>3. Ahead
  <2>1. \A c \in Controls : controls[c].epoch = 0 /\ controls[c].at = "gone" /\ controls[c].say = "nothing"
    BY DEF Init, NoControl, Nobody
  <2>2. \A e \in Epochs : Fresh(e) /\ loops[e].at = "none"
    BY DEF Init, Fresh
  <2>3. epoch = 1 /\ closed = FALSE /\ closer.at = "idle" /\ life.clock = Nobody
    BY DEF Init, NoLife
  <2>4. Fresh(epoch) /\ Fresh(sup.epoch)
    BY <1>1, <2>2, <2>3, Numbers
  <2>5. \A c \in Controls : controls[c].epoch <= epoch
    BY <2>1, <2>3
  <2>6. ~closed /\ ~sup.cut /\ closed = (closer.at # "idle") /\ sup.epoch <= epoch
    <3>1. ~closed /\ ~sup.cut
      BY <1>1, <2>3
    <3>2. closed = (closer.at # "idle")
      BY <2>3
    <3>3. sup.epoch <= epoch
      BY <1>1, <2>3
    <3>. QED BY <3>1, <3>2, <3>3
  <2>7. \A c \in Controls :
          controls[c].at \in {"saying", "writing"} <=> controls[c].say # "nothing"
    BY <2>1
  <2>. QED BY <1>1, <2>2, <2>3, <2>4, <2>5, <2>6, <2>7 DEF Ahead
<1>4. Reported
  BY DEF Init, Reported
<1>5. Turns
  <2>1. ~Pending
    BY <1>1 DEF Pending, Init
  <2>. QED BY <2>1 DEF Init, Turns
<1>. QED BY <1>2, <1>3, <1>4, <1>5 DEF GInv

\* On any runtime, however the tasks interleave, GInv holds at every step.
THEOREM Inductive == Spec => []GInv
<1>1. Init => GInv
  BY Begins
<1>2. GInv /\ [Next]_vars => GInv'
  BY Kept
<1>. QED BY <1>1, <1>2, PTL DEF Spec

\* Every variable keeps its type; above all the epoch, which turns once for a
\* fault and once more for close(), never more often, however many are reported.
THEOREM TypeCorrect == Spec => []TypeOK
<1>1. GInv => TypeOK
  BY DEF GInv
<1>. QED BY <1>1, Inductive, PTL

\* Only a report takes the supervisor from waiting for one to ending a life.
LEMMA OnlyRecvEnd ==
  ASSUME TypeOK, Next, sup.at = "recv", sup'.at = "abort"
  PROVE  RecvEnd
<1>1. sup \in SupType
  BY TypeParts
<1>2. CASE Supervise
  BY <1>1, <1>2 DEF Supervise, SupType, SupGoes, SupWakes, RecvStale, AbortLife, SayRecycled,
     SayLost, BackoffElapses, SayConnecting, DialGoes, DialFails, HandshakeDone, SayUnavailable,
     SayFailure, SpawnStream, SayOpened, StartControl, ControlOpened, ControlFailed, KeepControl, StartLoop,
     StartClock, UndoAbort, UndoJoined, UndoBump, UndoSay, SupUnwinds
<1>3. ASSUME sup' = sup PROVE FALSE
  BY <1>3
<1>4. ASSUME NEW how \in {"close", "drop"}, CloseTakes(how) PROVE FALSE
  BY <1>1, <1>4 DEF CloseTakes, SupType
<1>5. ASSUME NEW c \in Controls, RunControl(c) \/ ControlEnds(c) PROVE sup' = sup
  BY <1>5 DEF RunControl, ControlEnds, ControlStarts, ControlClaims, ControlDials, ControlRefused,
     ControlOpens, ControlChecks, ControlWrites, ControlUnwinds, ControlWakes, ControlStep
<1>6. ASSUME NEW e \in Epochs, StreamEnds(e) \/ StreamUnwinds(e) \/ Ages(e) \/ RunLoop(e)
      PROVE  sup' = sup
  BY <1>6 DEF StreamEnds, StreamUnwinds, Ages, RunLoop, LoopTicks, LoopKeeps
<1>7. ASSUME NEW x \in Clients, ClientReopens(x) \/ ClientKeeps(x) PROVE sup' = sup
  BY <1>7 DEF ClientReopens, ClientKeeps
<1>8. ASSUME GapPasses \/ CloseStep PROVE sup' = sup
  BY <1>8 DEF GapPasses, CloseStep, CloseBumps, CloseJoins, CloseSays
<1>. QED BY <1>2, <1>3, <1>4, <1>5, <1>6, <1>7, <1>8 DEF Next

\* A life is ended only by what happened to that life: the report the supervisor
\* takes for the current epoch is of its own stream, or of its own clock.
THEOREM EndsOwn == Spec => EndsItsOwnLife
<1>1. ASSUME GInv, Next, sup.at = "recv", sup'.at = "abort"
      PROVE  streams[epoch] = "gone" \/ clocks[epoch] = "gone"
  <2>1. TypeOK /\ Reported /\ RecvEnd
    BY <1>1, OnlyRecvEnd DEF GInv
  <2>2. ends \in EndsType /\ ends # <<>> /\ Head(ends).epoch = epoch
    BY <2>1, TypeParts DEF RecvEnd, EndsTheCurrent
  <2>3. 1 \in 1 .. Len(ends) /\ Head(ends) = ends[1]
    BY <2>2 DEF EndsType
  <2>4. ends[1].how \in {"Lost", "Aged"}
    BY <2>1, <2>3, EndTyped
  <2>. QED BY <2>1, <2>2, <2>3, <2>4 DEF Reported
<1>2. GInv /\ [Next]_vars =>
        [sup.at = "recv" /\ sup'.at = "abort" =>
           streams[epoch] = "gone" \/ clocks[epoch] = "gone"]_vars
  BY <1>1
<1>. QED BY <1>2, Inductive, PTL DEF Spec, EndsItsOwnLife
-----------------------------------------------------------------------------
(***************************************************************************)
(* On one thread.  Who runs, runs alone, up to its next await.              *)
(***************************************************************************)

LEMMA Apart ==
  ASSUME NEW c, NEW d
  PROVE  /\ <<"close">> # <<"supervise">>
         /\ <<"control", c>> # <<"supervise">> /\ <<"control", c>> # <<"close">>
         /\ <<"loop", c>> # <<"supervise">> /\ <<"loop", c>> # <<"close">>
         /\ <<"loop", c>> # <<"control", d>>
         /\ <<"control", c>> = <<"control", d>> => c = d
         /\ <<"loop", c>> = <<"loop", d>> => c = d
         /\ <<"stream", c>> # <<"supervise">> /\ <<"stream", c>> # <<"close">>
         /\ <<"stream", c>> # <<"control", d>> /\ <<"stream", c>> # <<"loop", d>>
         /\ <<"age", c>> # <<"supervise">> /\ <<"age", c>> # <<"close">>
         /\ <<"age", c>> # <<"control", d>> /\ <<"age", c>> # <<"loop", d>>
         /\ <<"client", c>> # <<"supervise">> /\ <<"client", c>> # <<"close">>
         /\ <<"client", c>> # <<"control", d>> /\ <<"client", c>> # <<"loop", d>>
OBVIOUS

\* Nobody is between two awaits, but for the one who moves.
Idle(sups, closes, cs, es) ==
  /\ sups \/ sup.at \notin SupRuns
  /\ closes \/ closer.at \notin {"bump", "say"}
  /\ \A c \in Controls \ cs : controls[c].at \notin ControlRuns
  /\ \A e \in Epochs \ es : loops[e].at # "storing"

LEMMA IsRunning ==
  /\ sup.at \in SupRuns => <<"supervise">> \in Running
  /\ closer.at \in {"bump", "say"} => <<"close">> \in Running
  /\ \A c \in Controls : controls[c].at \in ControlRuns => <<"control", c>> \in Running
  /\ \A e \in Epochs : loops[e].at = "storing" => <<"loop", e>> \in Running
BY DEF Running

LEMMA Alone ==
  ASSUME ~Threads
  PROVE  /\ MayRun(<<"supervise">>) => Idle(TRUE, FALSE, {}, {})
         /\ MayRun(<<"close">>) => Idle(FALSE, TRUE, {}, {})
         /\ \A c \in Controls : MayRun(<<"control", c>>) => Idle(FALSE, FALSE, {c}, {})
         /\ \A e \in Epochs : MayRun(<<"loop", e>>) => Idle(FALSE, FALSE, {}, {e})
         /\ \A e : MayRun(<<"stream", e>>) \/ MayRun(<<"age", e>>) \/ MayRun(<<"client", e>>) =>
                     Idle(FALSE, FALSE, {}, {})
         /\ Quiet => Idle(FALSE, FALSE, {}, {})
<1>1. \A who : MayRun(who) => \A w \in Running : w = who
  BY DEF MayRun
<1>2. ASSUME MayRun(<<"supervise">>) PROVE Idle(TRUE, FALSE, {}, {})
  <2>1. \A w \in Running : w = <<"supervise">>
    BY <1>1, <1>2
  <2>2. closer.at \notin {"bump", "say"}
    BY <2>1, Apart, IsRunning
  <2>3. \A c \in Controls : controls[c].at \notin ControlRuns
    BY <2>1, Apart, IsRunning
  <2>4. \A e \in Epochs : loops[e].at # "storing"
    BY <2>1, Apart, IsRunning
  <2>. QED BY <2>2, <2>3, <2>4 DEF Idle
<1>3. ASSUME MayRun(<<"close">>) PROVE Idle(FALSE, TRUE, {}, {})
  <2>1. \A w \in Running : w = <<"close">>
    BY <1>1, <1>3
  <2>2. sup.at \notin SupRuns
    BY <2>1, Apart, IsRunning
  <2>3. \A c \in Controls : controls[c].at \notin ControlRuns
    BY <2>1, Apart, IsRunning
  <2>4. \A e \in Epochs : loops[e].at # "storing"
    BY <2>1, Apart, IsRunning
  <2>. QED BY <2>2, <2>3, <2>4 DEF Idle
<1>4. ASSUME NEW c \in Controls, MayRun(<<"control", c>>) PROVE Idle(FALSE, FALSE, {c}, {})
  <2>1. \A w \in Running : w = <<"control", c>>
    BY <1>1, <1>4
  <2>2. closer.at \notin {"bump", "say"} /\ sup.at \notin SupRuns
    BY <2>1, Apart, IsRunning
  <2>3. \A d \in Controls \ {c} : controls[d].at \notin ControlRuns
    BY <2>1, Apart, IsRunning
  <2>4. \A e \in Epochs : loops[e].at # "storing"
    BY <2>1, Apart, IsRunning
  <2>. QED BY <2>2, <2>3, <2>4 DEF Idle
<1>5. ASSUME NEW e \in Epochs, MayRun(<<"loop", e>>) PROVE Idle(FALSE, FALSE, {}, {e})
  <2>1. \A w \in Running : w = <<"loop", e>>
    BY <1>1, <1>5
  <2>2. closer.at \notin {"bump", "say"} /\ sup.at \notin SupRuns
    BY <2>1, Apart, IsRunning
  <2>3. \A c \in Controls : controls[c].at \notin ControlRuns
    BY <2>1, Apart, IsRunning
  <2>4. \A d \in Epochs \ {e} : loops[d].at # "storing"
    BY <2>1, Apart, IsRunning
  <2>. QED BY <2>2, <2>3, <2>4 DEF Idle
<1>6. ASSUME NEW e, NEW who \in {<<"stream", e>>, <<"age", e>>, <<"client", e>>}, MayRun(who)
      PROVE  Idle(FALSE, FALSE, {}, {})
  <2>1. \A w \in Running : w = who
    BY <1>1, <1>6
  <2>2. who # <<"supervise">> /\ who # <<"close">>
    BY Apart
  <2>3. \A d : who # <<"control", d>> /\ who # <<"loop", d>>
    BY Apart
  <2>. QED BY <2>1, <2>2, <2>3, IsRunning DEF Idle
<1>7. Quiet => Idle(FALSE, FALSE, {}, {})
  <2>1. Quiet => Running = {}
    BY DEF Quiet
  <2>. QED BY <2>1, IsRunning DEF Idle
<1>. QED BY <1>2, <1>3, <1>4, <1>5, <1>6, <1>7
-----------------------------------------------------------------------------
(***************************************************************************)
(* CInv is kept by the steps of the supervisor.                             *)
(***************************************************************************)

\* In the middle of its run, the supervisor has not been closed.
LEMMA SupTurn ==
  ASSUME CInv, sup.at \in SupRuns
  PROVE  ~closed /\ closer.at = "idle"
<1>1. SupRuns \cap (SupAwaits \union {"gone"}) = {}
  BY DEF SupRuns, SupAwaits
<1>2. ~closed
  BY <1>1 DEF CInv, Phases
<1>3. closed = (closer.at # "idle")
  BY DEF CInv, GInv, Ahead
<1>. QED BY <1>2, <1>3

\* Nor has one that wakes.
LEMMA SupAwake ==
  ASSUME GInv, ~sup.cut, sup.at # "gone"
  PROVE  ~closed /\ closer.at = "idle"
BY DEF GInv, Ahead

LEMMA NoneOurs ==
  ASSUME CInv, tree.stream # "Open" \/ sup.at \in {"control", "abort", "say", "undoSay"}
  PROVE  \A c \in Controls : ~Ours(c)
BY DEF CInv, Tasks

SupCalm ==
  /\ UNCHANGED <<epoch, tree, closed, controls, closer, attempted>>
  /\ sup'.opts = sup.opts
  /\ ~closed \/ loops' = loops
  /\ sup'.at \notin {"control", "abort", "say", "undoSay", "await"} /\ sup.at \notin {"abort", "say"}
  /\ sup'.at \in Undoing => \/ sup.at \in Undoing
                            \/ sup.at = "await" /\ controls[sup.task].opened = "err"

LEMMA CalmKeeps ==
  ASSUME CInv, SupCalm
  PROVE  Summary' /\ Tasks' /\ Claims'
<1>1. Ahead /\ Summary /\ Tasks /\ Claims
  BY DEF CInv, GInv
<1>2. Summary'
  BY <1>1 DEF Summary, SupCalm
<1>3. \A c \in Controls : (Ours(c)' <=> Ours(c)) /\ (New(c)' <=> New(c)) /\ (Holder(c)' <=> Holder(c))
  BY DEF Ours, New, Holder, SupCalm
<1>4. Tasks'
  <2>1. closer.at \in {"join", "say", "done"} => loops'[epoch].at = "none"
    BY <1>1 DEF Tasks, Ahead, SupCalm
  <2>. QED BY <1>1, <1>3, <2>1 DEF Tasks, SupCalm
<1>5. Claims'
  BY <1>1, <1>3 DEF Claims, SupCalm, Undoing
<1>. QED BY <1>2, <1>4, <1>5

LEMMA CalmSteps ==
  ASSUME CInv, \/ RecvStale \/ BackoffElapses \/ DialGoes \/ DialFails \/ HandshakeDone
               \/ ControlOpened \/ ControlFailed \/ UndoJoined \/ KeepControl \/ SupUnwinds
               \/ SpawnStream \/ StartLoop \/ StartClock
  PROVE  SupCalm /\ Phases'
<1>0. GInv /\ TypeOK /\ Phases /\ SupHere
  BY SupIsHere DEF CInv, GInv
<1> DEFINE At(to) == /\ sup' \in SupType /\ sup'.at = to /\ sup'.cut = sup.cut
                     /\ sup'.mode = sup.mode /\ sup'.epoch = sup.epoch /\ sup'.task = sup.task
                     /\ sup'.opts = sup.opts
<1>g. ASSUME NEW from, NEW to \in SupAwaits \union SupRuns \union {"gone"}, SupGoes(from, to)
      PROVE  At(to) /\ sup.at = from
  BY <1>0, <1>g, SupTyped
<1>e. \A i \in 1 .. Len(ends) : ends[i].how = "Aged" => sup.opts.recycle
  BY <1>0 DEF Phases
<1>c. \A e \in Epochs : clocks[e] = "on" => sup.opts.recycle
  BY <1>0 DEF Phases
<1>1. CASE RecvStale
  <2>1. At("recv") /\ sup.at = "recv" /\ ~sup.cut
    BY <1>g, <1>1, SupPlaces DEF RecvStale, SupWakes
  <2>2. ~closed
    BY <1>0, <2>1, SupAwake
  <2>3. SupCalm
    BY <1>1, <2>1, <2>2 DEF RecvStale, SupCalm, Undoing, core, tasks
  <2>4. \A i \in 1 .. Len(ends') : ends'[i].how = "Aged" => sup.opts.recycle
    <3>1. ends \in EndsType /\ ends # <<>> /\ ends' = Tail(ends)
      BY <1>0, <1>1, TypeParts DEF RecvStale
    <3>. QED BY <1>e, <3>1, TakenFromFront
  <2>. QED BY <1>0, <1>c, <1>1, <2>1, <2>2, <2>3, <2>4 DEF RecvStale, Phases, core, tasks, Up
<1>2. CASE BackoffElapses
  <2>1. At("connecting") /\ sup.at = "backoff" /\ ~sup.cut
    BY <1>g, <1>2, SupPlaces DEF BackoffElapses, SupWakes
  <2>2. ~closed
    BY <1>0, <2>1, SupAwake
  <2>3. SupCalm
    BY <1>2, <2>1, <2>2 DEF BackoffElapses, SupCalm, Undoing, core, tasks
  <2>. QED BY <1>0, <1>2, <2>1, <2>2, <2>3 DEF BackoffElapses, Phases, core, tasks, Up
<1>3. CASE DialGoes
  <2>1. At("shake") /\ sup.at = "dial" /\ ~sup.cut
    BY <1>g, <1>3, SupPlaces DEF DialGoes, SupWakes
  <2>2. ~closed
    BY <1>0, <2>1, SupAwake
  <2>3. SupCalm
    BY <1>3, <2>1, <2>2 DEF DialGoes, SupCalm, Undoing, core, tasks
  <2>. QED BY <1>0, <1>3, <2>1, <2>2, <2>3 DEF DialGoes, Phases, core, tasks, Up
<1>4. CASE HandshakeDone
  <2>1. At("spawn") /\ sup.at = "shake" /\ ~sup.cut
    BY <1>g, <1>4, SupPlaces DEF HandshakeDone, SupWakes
  <2>2. ~closed
    BY <1>0, <2>1, SupAwake
  <2>3. SupCalm
    BY <1>4, <2>1, <2>2 DEF HandshakeDone, SupCalm, Undoing, core, tasks
  <2>. QED BY <1>0, <1>4, <2>1, <2>2, <2>3 DEF HandshakeDone, Phases, core, tasks, Up
<1>5. CASE ControlOpened
  <2>1. At("keep") /\ sup.at = "await" /\ ~sup.cut
    BY <1>g, <1>5, SupPlaces DEF ControlOpened, SupWakes
  <2>2. ~closed
    BY <1>0, <2>1, SupAwake
  <2>3. SupCalm
    BY <1>5, <2>1, <2>2 DEF ControlOpened, SupCalm, Undoing, core, tasks
  <2>. QED BY <1>0, <1>5, <2>1, <2>2, <2>3 DEF ControlOpened, Phases, core, tasks, Up
<1>6. CASE UndoJoined
  <2>1. At("undoBump") /\ sup.at = "undoAwait" /\ ~sup.cut
    BY <1>g, <1>6, SupPlaces DEF UndoJoined, SupWakes
  <2>2. ~closed
    BY <1>0, <2>1, SupAwake
  <2>3. SupCalm
    BY <1>6, <2>1, <2>2 DEF UndoJoined, SupCalm, Undoing, core, tasks
  <2>. QED BY <1>0, <1>6, <2>1, <2>2, <2>3 DEF UndoJoined, Phases, core, tasks, Up
<1>7. CASE ControlFailed
  <2>1. At("undo") /\ sup.at = "await" /\ ~sup.cut
    BY <1>g, <1>7, SupPlaces DEF ControlFailed, SupWakes
  <2>2. ~closed
    BY <1>0, <2>1, SupAwake
  <2>3. SupCalm
    BY <1>7, <2>1, <2>2 DEF ControlFailed, SupCalm, Undoing, core, tasks
  <2>. QED BY <1>0, <1>7, <2>1, <2>2, <2>3 DEF ControlFailed, Phases, core, tasks, Up
<1>8. CASE DialFails
  <2>1. At("failed") /\ sup.at \in {"dial", "shake"} /\ ~sup.cut
    BY <1>g, <1>8, SupPlaces DEF DialFails, SupWakes
  <2>2. ~closed
    BY <1>0, <2>1, SupAwake
  <2>3. SupCalm
    BY <1>8, <2>1, <2>2 DEF DialFails, SupCalm, Undoing, core, tasks
  <2>. QED BY <1>0, <1>8, <2>1, <2>2, <2>3 DEF DialFails, Phases, core, tasks, Up
<1>9. CASE SpawnStream
  <2>1. At("opened") /\ sup.at = "spawn"
    BY <1>g, <1>9, SupPlaces DEF SpawnStream
  <2>2. ~closed
    BY <2>1, SupTurn DEF SupRuns
  <2>3. SupCalm
    BY <1>9, <2>1, <2>2 DEF SpawnStream, SupCalm, Undoing, core, tasks
  <2>. QED BY <1>0, <1>9, <2>1, <2>2, <2>3 DEF SpawnStream, Phases, core, tasks, Up
<1>10. CASE StartLoop
  <2>1. At("clock") /\ sup.at = "loop"
    BY <1>g, <1>10, SupPlaces DEF StartLoop
  <2>2. ~closed
    BY <2>1, SupTurn DEF SupRuns
  <2>3. SupCalm
    BY <1>10, <2>1, <2>2 DEF StartLoop, SupCalm, Undoing, core, tasks
  <2>. QED BY <1>0, <1>10, <2>1, <2>2, <2>3 DEF StartLoop, Phases, core, tasks, Up
<1>11. CASE KeepControl
  <2>1. /\ sup' \in SupType /\ sup'.at \in {"loop", "clock"} /\ sup'.cut = sup.cut
        /\ sup'.mode = sup.mode /\ sup'.epoch = sup.epoch /\ sup.at = "keep" /\ sup'.opts = sup.opts
    <3>1. sup' = [sup EXCEPT !.at = IF Reopen THEN "loop" ELSE "clock", !.task = Nobody] /\ sup.at = "keep"
      BY <1>11 DEF KeepControl
    <3>. QED BY <1>0, <3>1 DEF SupHere, SupType, SupRuns
  <2>2. ~closed
    BY <2>1, SupTurn DEF SupRuns
  <2>3. SupCalm
    BY <1>11, <2>1, <2>2 DEF KeepControl, SupCalm, Undoing, core, tasks
  <2>. QED BY <1>0, <1>11, <2>1, <2>2, <2>3 DEF KeepControl, Phases, core, tasks, Up
<1>12. CASE StartClock
  <2>1. /\ sup' \in SupType /\ sup'.at = "recv" /\ sup'.cut = sup.cut /\ sup'.epoch = sup.epoch
        /\ sup'.mode = "retry" /\ sup.at = "clock" /\ sup'.opts = sup.opts
    <3>1. sup' = [sup EXCEPT !.at = "recv", !.mode = "retry"] /\ sup.at = "clock"
      BY <1>12 DEF StartClock
    <3>. QED BY <1>0, <3>1 DEF SupHere, SupType, SupAwaits
  <2>2. ~closed
    BY <2>1, SupTurn DEF SupRuns
  <2>3. SupCalm
    BY <1>12, <2>1, <2>2 DEF StartClock, SupCalm, Undoing, core, tasks
  <2>4. \A e \in Epochs : clocks'[e] = "on" => sup.opts.recycle
    <3>1. clocks \in ClocksType /\ sup.epoch \in Epochs
      BY <1>0, TypeParts, SupFields
    <3>. QED BY <1>c, <1>12, <3>1 DEF StartClock, ClocksType
  <2>. QED BY <1>0, <1>e, <1>12, <2>1, <2>2, <2>3, <2>4 DEF StartClock, Phases, core, tasks, Up
<1>13. CASE SupUnwinds
  <2>1. /\ sup' \in SupType /\ sup'.at = "gone" /\ sup'.mode = sup.mode /\ sup'.opts = sup.opts
        /\ sup.at \in SupAwaits /\ sup.cut
    <3>1. sup' = [sup EXCEPT !.at = "gone", !.task = Nobody] /\ sup.at \in SupAwaits /\ sup.cut
      BY <1>13 DEF SupUnwinds
    <3>. QED BY <1>0, <3>1 DEF SupHere, SupType
  <2>2. closed
    BY <1>0, <2>1 DEF GInv, Ahead
  <2>3. SupCalm
    BY <1>13, <2>1, <2>2 DEF SupUnwinds, SupCalm, Undoing, SupAwaits, core, tasks
  <2>. QED BY <1>0, <1>13, <2>1, <2>2, <2>3 DEF SupUnwinds, Phases, core, tasks, Up
<1>. QED BY <1>1, <1>2, <1>3, <1>4, <1>5, <1>6, <1>7, <1>8, <1>9, <1>10, <1>11, <1>12, <1>13
LEMMA NoTasks ==
  ASSUME \A c \in Controls : ~Ours(c)' /\ controls'[c].at \notin {"claiming", "writing"},
         closer'.at = "idle",
         sup'.at = "control" => sup'.opts.policy # "Off" /\ tree'.control = "Closed",
         tree'.control # "Closed" => sup'.opts.policy # "Off",
         tree'.control \in {"Connecting", "Open"} => sup'.at \in {"abort", "say"},
         sup'.at \in {"undo", "undoAwait", "undoBump", "undoSay"} =>
           tree'.control = "Unavailable" /\ attempted' = "recent",
         sup'.at # "await"
  PROVE  Tasks' /\ Claims'
<1>1. \A c \in Controls : ~New(c)' /\ ~Holder(c)'
  BY DEF New, Holder
<1>2. Tasks'
  BY DEF Tasks
<1>3. Claims'
  BY <1>1 DEF Claims
<1>. QED BY <1>2, <1>3

LEMMA OursIs ==
  ASSUME TypeOK, NEW c \in Controls, Ours(c)
  PROVE  New(c) \/ Holder(c)
<1>1. controls[c] \in ControlType
  BY TypeParts
<1>. QED BY <1>1 DEF Ours, New, Holder, ControlType, ControlAwaits, ControlRuns

\* Once the Required link has failed, no control task of this life is left.
LEMMA NoneAfterFailing ==
  ASSUME CInv, ~closed, sup.at \in {"undo", "undoAwait", "undoBump", "undoSay"}
  PROVE  /\ \A c \in Controls : ~Ours(c)
         /\ tree.control = "Unavailable" /\ attempted = "recent"
<1>1. TypeOK /\ Claims
  BY DEF CInv, GInv
<1>2. tree.control = "Unavailable" /\ attempted = "recent"
  BY <1>1 DEF Claims
<1>3. \A c \in Controls : ~New(c) /\ ~Holder(c)
  BY <1>1, <1>2 DEF Claims
<1>. QED BY <1>1, <1>2, <1>3, OursIs

\* While the epoch or the tree turns, nobody is in the middle of claiming the link.
LEMMA NobodyClaims ==
  ASSUME ~Threads, MayRun(<<"supervise">>), NEW c \in Controls
  PROVE  controls[c].at \notin {"claiming", "writing", "saying"}
<1>1. Idle(TRUE, FALSE, {}, {})
  BY Alone
<1>. QED BY <1>1 DEF Idle, ControlRuns

LEMMA SummaryDown ==
  ASSUME tree'.stream # "Open", tree'.control = "Closed",
         tree'.conn \in {"Disconnected", "Reconnecting"}
  PROVE  Summary'
BY DEF Summary

\* A step after which the tree has no stream, or the life is over.
LEMMA DownSteps ==
  ASSUME CInv, ~Threads, \/ RecvEnd \/ AbortLife \/ SayRecycled \/ SayLost \/ SayConnecting
                         \/ SayUnavailable \/ SayFailure \/ UndoAbort \/ UndoBump
                         \/ UndoSay
  PROVE  Phases' /\ Summary' /\ Tasks' /\ Claims'
<1>0. GInv /\ TypeOK /\ Ahead /\ Phases /\ Summary /\ Tasks /\ SupHere /\ Reconnect \in BOOLEAN
  BY SupIsHere, LifecycleAssumption DEF CInv, GInv
<1>t. /\ controls \in [Controls -> ControlType] /\ epoch \in Nat /\ tree \in TreeType
      /\ tree.stream \in ChannelStates
      /\ \A c \in Controls : controls[c].epoch \in Nat /\ controls[c].epoch <= epoch
  BY <1>0, TypeParts, NatParts DEF Ahead, TreeType
<1>g. ASSUME NEW from, NEW to \in SupAwaits \union SupRuns \union {"gone"}, SupGoes(from, to)
      PROVE  /\ sup' \in SupType /\ sup'.at = to /\ sup'.cut = sup.cut
             /\ sup'.mode = sup.mode /\ sup'.epoch = sup.epoch /\ sup'.task = sup.task
             /\ sup'.opts = sup.opts /\ sup.at = from /\ MayRun(<<"supervise">>)
  BY <1>0, <1>g, SupTyped DEF SupGoes
<1>e. \A i \in 1 .. Len(ends) : ends[i].how = "Aged" => sup.opts.recycle
  BY <1>0 DEF Phases
<1>c. \A e \in Epochs : clocks[e] = "on" => sup.opts.recycle
  BY <1>0 DEF Phases
<1>1. CASE RecvEnd
  <2>1. /\ sup' \in SupType /\ sup'.at = "abort" /\ sup'.cut = sup.cut /\ sup'.epoch = sup.epoch
        /\ sup.at = "recv" /\ ~sup.cut /\ sup'.opts = sup.opts
        /\ (Head(ends).how = "Aged" /\ sup'.mode = "swap") \/ sup'.mode = "retry"
    <3> DEFINE m == IF Head(ends).how = "Aged" THEN "swap" ELSE "retry"
    <3>1. sup' = [sup EXCEPT !.at = "abort", !.mode = m] /\ sup.at = "recv" /\ ~sup.cut
      BY <1>1 DEF RecvEnd
    <3>2. m \in {"swap", "retry"} /\ (m = "swap" => Head(ends).how = "Aged")
      OBVIOUS
    <3> HIDE DEF m
    <3>. QED BY <1>0, <3>1, <3>2 DEF SupHere, SupType, SupRuns
  <2>2. ~closed /\ closer.at = "idle"
    BY <1>0, <2>1, SupAwake
  <2>3. /\ epoch' = epoch + 1 /\ UNCHANGED <<tasks, tree, closed, life, closer, clients, attempted, faults>>
        /\ MayRun(<<"supervise">>)
    BY <1>1 DEF RecvEnd
  <2>4. /\ \A i \in 1 .. Len(ends') : ends'[i].how = "Aged" => sup.opts.recycle
        /\ Head(ends).how = "Aged" => sup.opts.recycle
    <3>1. ends \in EndsType /\ ends # <<>> /\ ends' = Tail(ends)
      BY <1>0, <1>1, TypeParts DEF RecvEnd
    <3>2. 1 \in 1 .. Len(ends) /\ Head(ends) = ends[1]
      BY <3>1 DEF EndsType
    <3>. QED BY <1>e, <3>1, <3>2, TakenFromFront
  <2>5. Phases'
    BY <1>0, <1>c, <2>1, <2>2, <2>3, <2>4 DEF Phases, tasks, Up
  <2>6. Summary'
    BY <1>0, <2>3 DEF Summary
  <2>7. ASSUME NEW c \in Controls PROVE ~Ours(c)' /\ controls'[c].at \notin {"claiming", "writing"}
    <3>1. controls[c].epoch # epoch + 1
      BY <1>t
    <3>. QED BY <2>3, <3>1, NobodyClaims DEF Ours, tasks
  <2>8. Tasks' /\ Claims'
    BY <1>0, <2>1, <2>2, <2>3, <2>7, NoTasks DEF Tasks
  <2>. QED BY <2>5, <2>6, <2>8
<1>2. CASE AbortLife
  <2>1. /\ sup' \in SupType /\ sup'.at = "say" /\ sup'.cut = sup.cut /\ sup'.epoch = sup.epoch
        /\ sup.at = "abort" /\ sup'.opts = sup.opts /\ sup'.mode = sup.mode /\ MayRun(<<"supervise">>)
    BY <1>g, <1>2, SupPlaces DEF AbortLife
  <2>2. ~closed /\ closer.at = "idle"
    BY <2>1, SupTurn DEF SupRuns
  <2>3. UNCHANGED <<core, closed, ends, closer, clients, attempted, faults>> /\ AbortLinks
    BY <1>2 DEF AbortLife
  <2>4. /\ \A e \in Epochs : clocks'[e] = "on" => clocks[e] = "on"
        /\ \A c \in Controls : controls'[c].epoch = controls[c].epoch /\ controls'[c].at = controls[c].at
    BY <1>0, <2>3, Aborted
  <2>5. Phases'
    BY <1>0, <1>c, <1>e, <2>1, <2>2, <2>3, <2>4 DEF Phases, core, Up
  <2>6. Summary'
    BY <1>0, <2>3 DEF Summary, core
  <2>7. ASSUME NEW c \in Controls PROVE ~Ours(c)' /\ controls'[c].at \notin {"claiming", "writing"}
    <3>1. ~Ours(c)
      BY <2>1, NoneOurs
    <3>. QED BY <2>1, <2>3, <2>4, <3>1, NobodyClaims DEF Ours, core
  <2>8. Tasks' /\ Claims'
    BY <1>0, <2>1, <2>2, <2>3, <2>7, NoTasks DEF Tasks, core
  <2>. QED BY <2>5, <2>6, <2>8
<1>3. CASE SayRecycled \/ SayLost \/ UndoSay
  <2>1. /\ sup' \in SupType /\ sup'.cut = sup.cut /\ sup'.epoch = sup.epoch
        /\ sup'.opts = sup.opts /\ sup'.mode = sup.mode /\ MayRun(<<"supervise">>)
        /\ \/ SayRecycled /\ sup.at = "say" /\ sup'.at = "connecting" /\ sup.mode = "swap"
           \/ SayLost /\ sup.at = "say" /\ sup'.at = AfterFailure /\ sup.mode = "retry"
           \/ UndoSay /\ sup.at = "undoSay" /\ sup'.at = "gone" /\ sup.mode = "first"
           \/ UndoSay /\ sup.at = "undoSay" /\ sup'.at = "failed" /\ sup.mode # "first"
    <3>1. CASE SayRecycled
      BY <1>g, <3>1, SupPlaces DEF SayRecycled
    <3>2. CASE SayLost
      BY <1>g, <3>2, SupPlaces DEF SayLost
    <3>3. CASE UndoSay /\ sup.mode = "first"
      BY <1>g, <3>3, SupPlaces DEF UndoSay
    <3>4. CASE UndoSay /\ sup.mode # "first"
      BY <1>g, <3>4, SupPlaces DEF UndoSay
    <3>. QED BY <1>3, <3>1, <3>2, <3>3, <3>4
  <2>2. ~closed /\ closer.at = "idle"
    BY <2>1, SupTurn DEF SupRuns
  <2>3. /\ UNCHANGED <<tasks, epoch, closed, life, ends, closer, clients, attempted, faults>>
        /\ tree'.control = "Closed" /\ tree'.stream # "Open"
        /\ tree'.conn \in {"Disconnected", "Reconnecting"}
        /\ SayRecycled => tree'.stream = "Closed" /\ tree'.conn = "Reconnecting"
        /\ SayLost => tree'.stream = "Lost" /\ tree'.conn = FailureSays
        /\ UndoSay => /\ tree'.stream = "Lost"
                      /\ tree'.conn = IF sup.mode = "retry" THEN "Reconnecting" ELSE "Disconnected"
    BY <1>3 DEF SayRecycled, SayLost, UndoSay, Ended, FailureSays
  <2>4. Summary'
    BY <2>3, SummaryDown
  <2>5. Phases'
    <3>1. CASE SayRecycled /\ sup.at = "say" /\ sup'.at = "connecting" /\ sup.mode = "swap"
      BY <1>0, <1>c, <1>e, <2>1, <2>2, <2>3, <3>1 DEF Phases, tasks, Up
    <3>2. CASE SayLost /\ sup.at = "say" /\ sup'.at = AfterFailure /\ sup.mode = "retry"
      BY <1>0, <1>c, <1>e, <2>1, <2>2, <2>3, <3>2 DEF Phases, tasks, Up, AfterFailure, FailureSays
    <3>3. CASE UndoSay /\ sup.at = "undoSay" /\ sup'.at = "gone" /\ sup.mode = "first"
      BY <1>0, <1>c, <1>e, <2>1, <2>2, <2>3, <3>3 DEF Phases, tasks, Up
    <3>4. CASE UndoSay /\ sup.at = "undoSay" /\ sup'.at = "failed" /\ sup.mode # "first"
      <4>1. sup.epoch # epoch /\ sup.opts.policy = "Required" /\ (sup.mode = "retry" => Reconnect)
            /\ (sup.mode = "swap" => sup.opts.recycle)
        BY <1>0, <2>2, <3>4 DEF Phases
      <4>2. sup.mode \in {"swap", "retry"}
        BY <1>0, <3>4, SupFields
      <4>3. /\ tree'.stream = "Lost"
            /\ tree'.conn = FailureSays \/ (sup'.mode = "swap" /\ tree'.conn = "Disconnected")
        BY <2>1, <2>3, <3>4, <4>1, <4>2 DEF FailureSays
      <4>4. /\ ~closed' /\ sup'.at = "failed" /\ sup'.mode = sup.mode /\ sup'.opts = sup.opts
            /\ sup'.epoch # epoch' /\ UNCHANGED <<clocks, ends>> /\ sup'.mode # "first"
        BY <2>1, <2>2, <2>3, <3>4, <4>1 DEF tasks
      <4>5. tree'.conn = FailureSays' \/ (sup'.mode = "swap" /\ tree'.conn = "Disconnected")
        BY <4>3 DEF FailureSays
      <4>. QED BY <1>c, <1>e, <2>3, <4>1, <4>3, <4>4, <4>5 DEF Phases, Up
    <3>. QED BY <2>1, <3>1, <3>2, <3>3, <3>4
  <2>7. ASSUME NEW c \in Controls PROVE ~Ours(c)' /\ controls'[c].at \notin {"claiming", "writing"}
    <3>1. ~Ours(c)
      BY <2>1, NoneOurs
    <3>. QED BY <2>1, <2>3, <3>1, NobodyClaims DEF Ours, tasks
  <2>8. sup'.at \notin {"control", "undo", "undoAwait", "undoBump", "undoSay", "await"}
    BY <2>1 DEF AfterFailure
  <2>9. Tasks' /\ Claims'
    BY <2>2, <2>3, <2>7, <2>8, NoTasks
  <2>. QED BY <2>4, <2>5, <2>9
<1>4. CASE SayConnecting \/ SayUnavailable \/ SayFailure
  <2>1. /\ sup' \in SupType /\ sup'.cut = sup.cut /\ sup'.opts = sup.opts /\ MayRun(<<"supervise">>)
        /\ \/ SayConnecting /\ sup.at = "connecting" /\ sup'.at = "dial" /\ sup'.mode = sup.mode
              /\ sup'.epoch = epoch
           \/ SayUnavailable /\ sup.at = "failed" /\ sup'.at = "counting" /\ sup'.mode = sup.mode
              /\ sup'.epoch = sup.epoch
           \/ SayFailure /\ sup.at = "counting" /\ sup'.at = AfterFailure /\ sup'.mode = "retry"
              /\ sup'.epoch = sup.epoch
    <3>1. CASE SayConnecting
      <4>1. sup' = [sup EXCEPT !.at = "dial", !.epoch = epoch] /\ sup.at = "connecting" /\ MayRun(<<"supervise">>)
        BY <3>1 DEF SayConnecting
      <4>. QED BY <1>0, <3>1, <4>1 DEF SupHere, SupType, SupAwaits
    <3>2. CASE SayUnavailable
      BY <1>g, <3>2, SupPlaces DEF SayUnavailable
    <3>3. CASE SayFailure
      <4>1. /\ sup' = [sup EXCEPT !.at = AfterFailure, !.mode = "retry"] /\ sup.at = "counting"
            /\ MayRun(<<"supervise">>)
        BY <3>3 DEF SayFailure
      <4>2. AfterFailure \in {"backoff", "gone"}
        BY SupPlaces
      <4>. QED BY <1>0, <3>3, <4>1, <4>2 DEF SupHere, SupType, SupAwaits
    <3>. QED BY <1>4, <3>1, <3>2, <3>3
  <2>2. ~closed /\ closer.at = "idle"
    BY <2>1, SupTurn DEF SupRuns
  <2>3. /\ tree.stream # "Open" /\ tree.control = "Closed" /\ tree.conn \in {"Disconnected", "Reconnecting"}
    BY <1>0, <2>1, <2>2 DEF Phases, Summary, Up
  <2>4. /\ UNCHANGED <<tasks, epoch, closed, life, ends, closer, clients, attempted, faults>>
        /\ tree'.control = "Closed" /\ tree'.stream # "Open"
        /\ tree'.conn \in {"Disconnected", "Reconnecting"}
        /\ sup.at = "connecting" => tree'.stream = "Connecting" /\ tree'.conn = tree.conn
        /\ sup.at = "failed" => tree'.conn = tree.conn /\
             (tree'.stream = IF sup.epoch = epoch THEN "Unavailable" ELSE tree.stream)
        /\ sup.at = "counting" => tree'.conn = FailureSays /\ tree'.stream = tree.stream
    <3>1. CASE SayConnecting
      <4>1. tree' = [tree EXCEPT !["stream"] = "Connecting"] /\ sup.at = "connecting"
        BY <3>1 DEF SayConnecting, SetChannel, MoveChannel
      <4>2. tree'.control = tree.control /\ tree'.stream = "Connecting" /\ tree'.conn = tree.conn
        BY <1>t, <4>1 DEF TreeType
      <4>3. UNCHANGED <<tasks, epoch, closed, life, ends, closer, clients, attempted, faults>>
        BY <3>1 DEF SayConnecting
      <4>. QED BY <2>3, <4>1, <4>2, <4>3
    <3>2. CASE SayUnavailable
      <4>1. /\ tree' = IF sup.epoch = epoch THEN MoveChannel(tree, "stream", "Unavailable") ELSE tree
            /\ UNCHANGED <<tasks, epoch, closed, life, ends, closer, clients, attempted, faults>>
            /\ sup.at = "failed"
        BY <3>2 DEF SayUnavailable, SetChannel, SupGoes
      <4>2. tree.conn \notin {"Connected", "Degraded"}
        BY <2>3
      <4>3. MoveChannel(tree, "stream", "Unavailable") = [tree EXCEPT !["stream"] = "Unavailable"]
        BY <4>2 DEF MoveChannel
      <4>4. /\ tree'.control = tree.control /\ tree'.conn = tree.conn
            /\ tree'.stream = IF sup.epoch = epoch THEN "Unavailable" ELSE tree.stream
        BY <1>t, <4>1, <4>3 DEF TreeType
      <4>. QED BY <2>3, <4>1, <4>4
    <3>3. CASE SayFailure
      <4>1. /\ tree' = [tree EXCEPT !.conn = FailureSays] /\ sup.at = "counting"
            /\ UNCHANGED <<tasks, epoch, closed, life, ends, closer, clients, attempted, faults>>
        BY <3>3 DEF SayFailure
      <4>2. tree'.conn = FailureSays /\ tree'.stream = tree.stream /\ tree'.control = tree.control
        BY <1>t, <4>1 DEF TreeType
      <4>3. FailureSays \in {"Disconnected", "Reconnecting"}
        BY DEF FailureSays
      <4>. QED BY <2>3, <4>1, <4>2, <4>3
    <3>. QED BY <1>4, <3>1, <3>2, <3>3
  <2>5. Summary'
    BY <2>4, SummaryDown
  <2>6. Phases'
    <3>1. CASE sup.at = "connecting"
      BY <1>0, <1>c, <1>e, <2>1, <2>2, <2>3, <2>4, <3>1 DEF Phases, tasks, Up
    <3>2. CASE sup.at = "failed"
      BY <1>0, <1>c, <1>e, <2>1, <2>2, <2>3, <2>4, <3>2 DEF Phases, tasks, Up, FailureSays
    <3>3. CASE sup.at = "counting"
      BY <1>0, <1>c, <1>e, <2>1, <2>2, <2>3, <2>4, <3>3 DEF Phases, tasks, Up, AfterFailure, FailureSays
    <3>. QED BY <2>1, <3>1, <3>2, <3>3
  <2>7. ASSUME NEW c \in Controls PROVE ~Ours(c)' /\ controls'[c].at \notin {"claiming", "writing"}
    <3>1. ~Ours(c)
      BY <2>3, NoneOurs
    <3>. QED BY <2>1, <2>4, <3>1, NobodyClaims DEF Ours, tasks
  <2>8. sup'.at \notin {"control", "undo", "undoAwait", "undoBump", "undoSay", "await"}
    BY <2>1 DEF AfterFailure
  <2>9. Tasks' /\ Claims'
    BY <2>2, <2>4, <2>7, <2>8, NoTasks
  <2>. QED BY <2>5, <2>6, <2>9
<1>5. CASE UndoAbort
  <2>1. /\ sup' \in SupType /\ sup'.at = "undoAwait" /\ sup'.cut = sup.cut /\ sup'.epoch = sup.epoch
        /\ sup.at = "undo" /\ sup'.opts = sup.opts /\ sup'.mode = sup.mode /\ MayRun(<<"supervise">>)
    <3>1. /\ sup' = [sup EXCEPT !.at = "undoAwait", !.task = Nobody] /\ sup.at = "undo"
          /\ MayRun(<<"supervise">>)
      BY <1>5 DEF UndoAbort
    <3>. QED BY <1>0, <3>1 DEF SupHere, SupType, SupAwaits
  <2>2. ~closed /\ closer.at = "idle"
    BY <2>1, SupTurn DEF SupRuns
  <2>3. UNCHANGED <<core, closed, ends, closer, clients, attempted, faults>> /\ AbortLinks
    BY <1>5 DEF UndoAbort
  <2>4. /\ \A e \in Epochs : clocks'[e] = "on" => clocks[e] = "on"
        /\ \A c \in Controls : controls'[c].epoch = controls[c].epoch /\ controls'[c].at = controls[c].at
    BY <1>0, <2>3, Aborted
  <2>5. Phases'
    BY <1>0, <1>c, <1>e, <2>1, <2>2, <2>3, <2>4 DEF Phases, core, Up
  <2>6. Summary'
    BY <1>0, <2>3 DEF Summary, core
  <2>7. ASSUME NEW c \in Controls PROVE ~Ours(c)' /\ controls'[c].at \notin {"claiming", "writing"}
    <3>1. ~Ours(c)
      BY <2>1, <2>2, NoneAfterFailing
    <3>. QED BY <2>1, <2>3, <2>4, <3>1, NobodyClaims DEF Ours, core
  <2>8. Tasks' /\ Claims'
    BY <1>0, <2>1, <2>2, <2>3, <2>7, NoTasks, NoneAfterFailing DEF Tasks, core
  <2>. QED BY <2>5, <2>6, <2>8
<1>6. CASE UndoBump
  <2>1. /\ sup' \in SupType /\ sup'.at = "undoSay" /\ sup'.cut = sup.cut /\ sup'.epoch = sup.epoch
        /\ sup.at = "undoBump" /\ sup'.opts = sup.opts /\ sup'.mode = sup.mode /\ MayRun(<<"supervise">>)
    BY <1>g, <1>6, SupPlaces DEF UndoBump
  <2>2. ~closed /\ closer.at = "idle"
    BY <2>1, SupTurn DEF SupRuns
  <2>3. epoch' = epoch + 1 /\ UNCHANGED <<tasks, tree, closed, life, ends, closer, clients, attempted, faults>>
    BY <1>6 DEF UndoBump
  <2>4. sup.epoch = epoch /\ epoch' # epoch
    <3>1. sup.epoch = epoch
      BY <1>0, <2>1, <2>2 DEF Phases
    <3>. QED BY <1>t, <2>3, <3>1
  <2>5. Phases'
    BY <1>0, <1>c, <1>e, <2>1, <2>2, <2>3, <2>4 DEF Phases, tasks, Up
  <2>6. Summary'
    BY <1>0, <2>3 DEF Summary
  <2>7. ASSUME NEW c \in Controls PROVE ~Ours(c)' /\ controls'[c].at \notin {"claiming", "writing"}
    <3>1. controls[c].epoch # epoch + 1
      BY <1>t
    <3>. QED BY <2>1, <2>3, <3>1, NobodyClaims DEF Ours, tasks
  <2>8. Tasks' /\ Claims'
    BY <1>0, <2>1, <2>2, <2>3, <2>7, NoTasks, NoneAfterFailing DEF Tasks
  <2>. QED BY <2>5, <2>6, <2>8
<1>. QED BY <1>1, <1>2, <1>3, <1>4, <1>5, <1>6
LEMMA OpenedKeeps ==
  ASSUME CInv, ~Threads, SayOpened
  PROVE  Phases' /\ Summary' /\ Tasks' /\ Claims'
<1>0. GInv /\ TypeOK /\ Phases /\ Summary /\ Tasks /\ SupHere
  BY SupIsHere DEF CInv, GInv
<1> DEFINE to == IF sup.opts.policy = "Off" THEN "clock" ELSE "control"
<1>1. to \in SupAwaits \union SupRuns \union {"gone"} /\ SupGoes("opened", to)
  BY SupPlaces DEF SayOpened
<1>2. /\ sup' \in SupType /\ sup'.at = to /\ sup'.cut = sup.cut /\ sup'.mode = sup.mode
      /\ sup'.epoch = sup.epoch /\ sup'.task = sup.task /\ sup'.opts = sup.opts
      /\ sup.at = "opened" /\ MayRun(<<"supervise">>)
  BY <1>0, <1>1, SupTyped DEF SupGoes
<1>3. /\ to \in {"clock", "control"} /\ (to = "control" => sup.opts.policy # "Off")
  OBVIOUS
<1> HIDE DEF to
<1>4. ~closed /\ closer.at = "idle"
  BY <1>2, SupTurn DEF SupRuns
<1>5. tree.stream # "Open" /\ tree.control = "Closed" /\ sup.epoch = epoch /\ tree \in TreeType
  BY <1>0, <1>2, <1>4 DEF Phases, Summary, Up, SupHere
<1>6. /\ UNCHANGED <<tasks, epoch, closed, life, ends, closer, clients, attempted, faults>>
      /\ tree'.stream = "Open" /\ tree'.control = "Closed" /\ tree'.conn = "Connected"
  <2> DEFINE t == [tree EXCEPT !.stream = "Open"]
  <2>1. t \in TreeType /\ t.stream = "Open" /\ t.control = "Closed"
    BY <1>5 DEF TreeType, ChannelStates
  <2>2. Derived(t) = "Connected"
    BY <2>1 DEF Derived
  <2>3. tree' = [t EXCEPT !.conn = Derived(t)]
    BY <1>5 DEF SayOpened
  <2> HIDE DEF t
  <2>. QED BY <2>1, <2>2, <2>3 DEF SayOpened, TreeType
<1>7. Summary'
  BY <1>6 DEF Summary
<1>8. Phases'
  BY <1>0, <1>2, <1>3, <1>4, <1>5, <1>6 DEF Phases, tasks, Up
<1>9. ASSUME NEW c \in Controls PROVE ~Ours(c)' /\ controls'[c].at \notin {"claiming", "writing"}
  <2>1. ~Ours(c)
    BY <1>5, NoneOurs
  <2>. QED BY <1>2, <1>6, <2>1, NobodyClaims DEF Ours, tasks
<1>10. Tasks' /\ Claims'
  BY <1>2, <1>3, <1>4, <1>6, <1>9, NoTasks
<1>. QED BY <1>7, <1>8, <1>10

LEMMA StartControlKeeps ==
  ASSUME CInv, ~Threads, StartControl
  PROVE  Phases' /\ Summary' /\ Tasks' /\ Claims'
<1>0. GInv /\ TypeOK /\ Phases /\ Summary /\ Tasks /\ Claims /\ SupHere /\ sup.epoch \in Epochs
  BY SupIsHere, SupFields DEF CInv, GInv
<1>1. /\ sup' \in SupType /\ sup'.cut = sup.cut /\ sup'.mode = sup.mode /\ sup'.epoch = sup.epoch
      /\ sup'.task = NewTask /\ sup'.opts = sup.opts
      /\ sup'.at = IF sup.opts.policy = "Required" THEN "await" ELSE "keep"
      /\ sup.at = "control" /\ MayRun(<<"supervise">>)
  <2> DEFINE to == IF sup.opts.policy = "Required" THEN "await" ELSE "keep"
  <2>1. sup' = [sup EXCEPT !.at = to, !.task = NewTask] /\ sup.at = "control" /\ MayRun(<<"supervise">>)
    BY DEF StartControl
  <2>2. to \in {"await", "keep"} /\ NewTask \in Controls
    BY NewTaskFree DEF StartControl, SpawnControl
  <2>3. to = IF sup.opts.policy = "Required" THEN "await" ELSE "keep"
    OBVIOUS
  <2> HIDE DEF to
  <2>. QED BY <1>0, <2>1, <2>2, <2>3 DEF SupHere, SupType, SupRuns, SupAwaits
<1>2. ~closed /\ closer.at = "idle"
  BY <1>1, SupTurn DEF SupRuns
<1>3. /\ UNCHANGED <<core, streams, loops, clocks, closed, life, ends, closer, clients, attempted, faults>>
      /\ SpawnControl(NewTask, sup.epoch)
  BY DEF StartControl
<1>4. /\ sup.epoch = epoch /\ tree.stream = "Open" /\ tree.control = "Closed"
      /\ sup.opts.policy # "Off"
  BY <1>0, <1>1, <1>2 DEF Phases, Tasks, Up
<1>5. /\ NewTask \in Controls
      /\ \A c \in Controls \ {NewTask} : controls'[c] = controls[c]
      /\ controls'[NewTask] = [epoch |-> sup.epoch, at |-> "spawned", say |-> "nothing",
                               cut |-> FALSE, opened |-> "pending"]
  BY <1>0, <1>3, Spawned
<1>6. /\ controls'[NewTask].epoch = epoch /\ controls'[NewTask].at = "spawned"
      /\ controls'[NewTask].cut = FALSE /\ controls'[NewTask].opened = "pending"
  BY <1>4, <1>5
<1>7. ASSUME NEW c \in Controls
      PROVE  /\ Ours(c)' => c = NewTask
             /\ ~Holder(c)'
             /\ controls'[c].at \notin {"claiming", "writing"}
  <2>1. ~Ours(c)
    BY <1>1, NoneOurs
  <2>2. CASE c = NewTask
    BY <1>6, <2>2 DEF Holder
  <2>3. CASE c # NewTask
    <3>1. controls'[c] = controls[c] /\ epoch' = epoch
      BY <1>3, <1>5, <2>3 DEF core
    <3>. QED BY <1>1, <2>1, <3>1, NobodyClaims DEF Ours, Holder
  <2>. QED BY <2>2, <2>3
<1>8. Summary'
  BY <1>0, <1>3 DEF Summary, core
<1>9. Phases'
  BY <1>0, <1>1, <1>2, <1>3, <1>4 DEF Phases, core, Up
<1>10. Tasks'
  BY <1>0, <1>1, <1>2, <1>3, <1>4, <1>6, <1>7 DEF Tasks, core
<1>11. Claims'
  BY <1>1, <1>3, <1>4, <1>6, <1>7 DEF Claims, core
<1>. QED BY <1>8, <1>9, <1>10, <1>11

LEMMA SuperviseKeeps ==
  ASSUME CInv, ~Threads, Supervise
  PROVE  Phases' /\ Summary' /\ Tasks' /\ Claims'
<1>1. CASE \/ RecvStale \/ BackoffElapses \/ DialGoes \/ DialFails \/ HandshakeDone
           \/ ControlOpened \/ ControlFailed \/ UndoJoined \/ KeepControl \/ SupUnwinds
           \/ SpawnStream \/ StartLoop \/ StartClock
  BY <1>1, CalmSteps, CalmKeeps
<1>2. CASE \/ RecvEnd \/ AbortLife \/ SayRecycled \/ SayLost \/ SayConnecting
           \/ SayUnavailable \/ SayFailure \/ UndoAbort \/ UndoBump \/ UndoSay
  BY <1>2, DownSteps
<1>. QED BY <1>1, <1>2, OpenedKeeps, StartControlKeeps DEF Supervise
-----------------------------------------------------------------------------
(***************************************************************************)
(* CInv is kept by the control tasks.                                       *)
(***************************************************************************)

LEMMA PhasesStay ==
  ASSUME Phases, UNCHANGED <<closed, sup, epoch>>,
         tree' = tree \/ (tree.stream = "Open" /\ tree'.stream = "Open" /\ ~closed),
         \A e \in Epochs : clocks'[e] = "on" => clocks[e] = "on",
         \A i \in 1 .. Len(ends') : ends'[i].how = "Aged" => sup.opts.recycle
  PROVE  Phases'
<1>1. CASE tree' = tree
  BY <1>1 DEF Phases
<1>2. CASE tree.stream = "Open" /\ tree'.stream = "Open" /\ ~closed
  <2>1. sup.at \in Up
    BY <1>2 DEF Phases
  <2>2. sup.at \notin {"backoff", "connecting", "dial", "shake", "spawn", "opened", "failed",
                     "counting"}
    BY <2>1 DEF Up
  <2>. QED BY <1>2, <2>1, <2>2 DEF Phases
<1>. QED BY <1>1, <1>2

\* What every step of a control task leaves as it is, and whose step it is.
ControlFrame(c) ==
  /\ UNCHANGED <<epoch, loops, clocks, closed, ends, sup, closer>>
  /\ controls[c] \in ControlType /\ controls'[c] \in ControlType
  /\ \A d \in Controls \ {c} : controls'[d] = controls[d]
  /\ Idle(FALSE, FALSE, {c}, {}) /\ controls[c].at # "gone"
  /\ \/ controls'[c].at = "gone"
     \/ controls'[c].epoch = controls[c].epoch /\ controls'[c].cut = controls[c].cut

LEMMA ControlFrames ==
  ASSUME CInv, ~Threads, NEW c \in Controls, RunControl(c) \/ ControlEnds(c)
  PROVE  ControlFrame(c)
<1>1. TypeOK /\ Ahead
  BY DEF CInv, GInv
<1>2. MayRun(<<"control", c>>) /\ controls[c].at # "gone"
  BY DEF RunControl, ControlEnds, ControlStarts, ControlClaims, ControlDials, ControlRefused,
         ControlOpens, ControlChecks, ControlWrites, ControlUnwinds, ControlWakes, ControlStep,
         ControlAwaits
<1>3. Idle(FALSE, FALSE, {c}, {})
  BY <1>2, Alone
<1>4. controls \in [Controls -> ControlType]
  BY <1>1, TypeParts
<1>5. /\ controls' \in [Controls -> ControlType]
      /\ \A d \in Controls \ {c} : controls'[d] = controls[d]
      /\ \/ controls'[c].at = "gone"
         \/ controls'[c].epoch = controls[c].epoch /\ controls'[c].cut = controls[c].cut
      /\ UNCHANGED <<epoch, streams, loops, clocks, closed, life, ends, sup, closer, clients>>
  BY <1>1, ControlMoves
<1>. QED BY <1>2, <1>3, <1>4, <1>5 DEF ControlFrame

\* Nothing but the control tasks of this life tells of the link.
LEMMA ControlTasks ==
  ASSUME CInv, NEW c \in Controls, ControlFrame(c),
         tree'.stream = tree.stream,
         tree'.control = tree.control \/ Ours(c),
         controls'[c].at \in {"claiming", "writing"} => Ours(c) /\ ~closed
  PROVE  Tasks'
<1>0. Tasks
  BY DEF CInv
<1>1. \A d \in Controls : Ours(d)' => Ours(d)
  BY DEF ControlFrame, Ours
<1>2. ASSUME NEW d \in Controls, Ours(d)' PROVE controls'[d].cut => closed'
  BY <1>0, <1>1, <1>2 DEF ControlFrame, Ours, Tasks
<1>3. ASSUME NEW d \in Controls, controls'[d].at \in {"claiming", "writing"}
      PROVE  Ours(d)' /\ ~closed'
  <2>1. CASE d = c
    BY <1>3, <2>1 DEF ControlFrame, Ours
  <2>2. CASE d # c
    BY <1>0, <1>3, <2>2 DEF ControlFrame, Ours, Tasks
  <2>. QED BY <2>1, <2>2
<1>4. sup.at # "control"
  BY DEF ControlFrame, Idle, SupRuns
<1>5. tree'.control # "Closed" => sup.opts.policy # "Off"
  BY <1>0 DEF Tasks
<1>. QED BY <1>0, <1>1, <1>2, <1>3, <1>4, <1>5 DEF Tasks, ControlFrame

\* A task of this life that is not closed is awake.
LEMMA OursAwake ==
  ASSUME CInv, NEW c \in Controls, Ours(c), Idle(FALSE, FALSE, {c}, {})
  PROVE  ~closed /\ ~controls[c].cut /\ tree.stream = "Open" /\ sup.opts.policy # "Off"
<1>1. closer.at = "idle"
  BY DEF CInv, Tasks, Idle
<1>2. ~closed
  BY <1>1 DEF CInv, GInv, Ahead
<1>. QED BY <1>2 DEF CInv, Tasks

\* What is left to show of the claims, for a task of this life: c goes where it goes,
\* and the others stay.
LEMMA OthersStay ==
  ASSUME NEW c \in Controls, ControlFrame(c)
  PROVE  /\ \A d \in Controls \ {c} : /\ (New(d)' <=> New(d)) /\ (Holder(d)' <=> Holder(d))
                                      /\ controls'[d] = controls[d]
         /\ sup' = sup /\ epoch' = epoch /\ closed' = closed
         /\ sup.at \notin {"undo", "undoBump", "undoSay", "abort", "say", "control"}
BY DEF ControlFrame, New, Holder, Ours, Idle, SupRuns

\* A step of a task of another life changes nothing of this one.
LEMMA StaleKeeps ==
  ASSUME CInv, NEW c \in Controls, ControlFrame(c), ~Ours(c), UNCHANGED <<tree, attempted>>
  PROVE  Claims'
<1>1. Claims
  BY DEF CInv
<1>2. ~New(c)' /\ ~Holder(c)' /\ ~New(c) /\ ~Holder(c)
  BY DEF ControlFrame, New, Holder, Ours
<1>3. \A d \in Controls : /\ (New(d)' <=> New(d)) /\ (Holder(d)' <=> Holder(d))
                          /\ Holder(d) => controls'[d] = controls[d]
  BY <1>2, OthersStay
<1>4. ~closed /\ sup.at = "await" => sup.task # c
  BY <1>1 DEF Claims, ControlFrame, Ours
<1>5. sup.at = "await" => sup.task \in Controls
  <2>1. TypeOK /\ Ahead
    BY DEF CInv, GInv
  <2>. QED BY <2>1, SupFields DEF Ahead
<1>6. ~closed /\ sup.at = "await" => controls'[sup.task] = controls[sup.task]
  BY <1>4, <1>5, OthersStay
<1>. QED BY <1>1, <1>3, <1>6, OthersStay DEF Claims
\* The link is moved by whoever of this life has it.
LEMMA LinkMoves ==
  ASSUME tree \in TreeType, tree.stream = "Open", Summary, sup.opts.policy # "Off",
         NEW state \in {"Connecting", "Open", "Unavailable", "Lost"},
         tree' = MoveChannel(tree, "control", state), tree.control # state
  PROVE  /\ tree'.control = state /\ tree'.stream = "Open" /\ Summary'
         /\ tree'.conn = IF state = "Connecting" THEN tree.conn
                         ELSE IF state = "Open" THEN "Connected" ELSE "Degraded"
<1> DEFINE t == [tree EXCEPT !["control"] = state]
<1>1. t \in TreeType /\ t.control = state /\ t.stream = "Open" /\ t.conn = tree.conn
  BY DEF TreeType, ChannelStates
<1>2. tree.conn \in {"Connected", "Degraded"}
  BY DEF Summary, TreeType, ChannelStates
<1>3. Derived(t) = IF state \in {"Unavailable", "Lost"} THEN "Degraded" ELSE "Connected"
  BY <1>1 DEF Derived
<1>4. tree' = IF state # "Connecting" THEN [t EXCEPT !.conn = Derived(t)] ELSE t
  BY <1>2 DEF MoveChannel
<1> HIDE DEF t
<1>5. /\ state = "Connecting" => tree' = t
      /\ state # "Connecting" => tree' = [t EXCEPT !.conn = Derived(t)]
  BY <1>4
<1>6. tree'.control = state /\ tree'.stream = "Open"
      /\ tree'.conn = IF state = "Connecting" THEN tree.conn
                      ELSE IF state = "Open" THEN "Connected" ELSE "Degraded"
  BY <1>1, <1>3, <1>5 DEF TreeType
<1>. QED BY <1>2, <1>6 DEF Summary

LEMMA OursKeeps ==
  ASSUME CInv, ~Threads, NEW c \in Controls, Ours(c), RunControl(c) \/ ControlEnds(c)
  PROVE  Phases' /\ Summary' /\ Tasks' /\ Claims'
<1>0. GInv /\ TypeOK /\ Ahead /\ Phases /\ Summary /\ Tasks /\ Claims /\ ControlFrame(c)
  BY ControlFrames DEF CInv, GInv
<1>1. ~closed /\ ~controls[c].cut /\ tree.stream = "Open" /\ sup.opts.policy # "Off"
  BY <1>0, OursAwake DEF ControlFrame
<1>2. tree \in TreeType /\ controls[c] \in ControlType /\ controls[c].epoch = epoch
  BY <1>0, TypeParts DEF ControlFrame, Ours
<1>3. /\ \A d \in Controls \ {c} : /\ (New(d)' <=> New(d)) /\ (Holder(d)' <=> Holder(d))
                                   /\ controls'[d] = controls[d]
      /\ sup' = sup /\ epoch' = epoch /\ closed' = closed
      /\ sup.at \notin {"undo", "undoBump", "undoSay", "abort", "say", "control"}
  BY <1>0, OthersStay
<1>4. /\ \A e \in Epochs : clocks'[e] = "on" => clocks[e] = "on"
      /\ \A i \in 1 .. Len(ends') : ends'[i].how = "Aged" => sup.opts.recycle
      /\ UNCHANGED <<closed, sup, epoch>>
  BY <1>0 DEF Phases, ControlFrame
<1>5. /\ \A a, b \in Controls : Holder(a) /\ Holder(b) => a = b
      /\ \A a \in Controls : Holder(a) =>
           /\ tree.control = IF controls[a].at = "live" \/ controls[a].say = "Lost"
                             THEN "Open" ELSE "Connecting"
           /\ controls[a].at \in {"waiting", "dialing"} \/ controls[a].say = "Unavailable" =>
                attempted = "recent"
           /\ controls[a].at \in {"saying", "writing", "live"} => \A d \in Controls : ~New(d)
      /\ tree.control \in {"Connecting", "Open"} => \E a \in Controls : Holder(a)
      /\ tree.control \in {"Unavailable", "Lost"} /\ attempted = "recent" =>
           \A a \in Controls : ~New(a)
      /\ sup.at = "undoAwait" \/ (sup.at = "await" /\ controls[sup.task].opened = "err")
           => tree.control = "Unavailable" /\ attempted = "recent"
      /\ sup.at = "await" /\ controls[sup.task].at # "gone" => controls[sup.task].epoch = epoch
  BY <1>0, <1>1, <1>3 DEF Claims
<1>6. sup.at = "await" => sup.task \in Controls
  BY <1>0, SupFields DEF Ahead
<1>7. controls[c].at \in {"saying", "writing"} <=> controls[c].say # "nothing"
  BY <1>0 DEF Ahead
<1>8. ASSUME UNCHANGED tree
      PROVE  Phases' /\ Summary' /\ Tasks'
  <2>1. Tasks'
    BY <1>0, <1>1, <1>8, ControlTasks
  <2>2. Phases'
    BY <1>0, <1>4, <1>8, PhasesStay
  <2>3. Summary'
    BY <1>0, <1>8 DEF Summary
  <2>. QED BY <2>1, <2>2, <2>3
<1>9. ASSUME tree'.stream = "Open" PROVE Phases' /\ Tasks'
  <2>1. Tasks'
    BY <1>0, <1>1, <1>9, ControlTasks
  <2>2. Phases'
    BY <1>0, <1>1, <1>4, <1>9, PhasesStay
  <2>. QED BY <2>1, <2>2
<1>f. /\ Finished("ok").at = "gone" /\ Finished("err").at = "gone"
      /\ Finished("ok").opened = "ok" /\ Finished("err").opened = "err"
  BY DEF Finished, NoControl
<1>k. controls' = [controls EXCEPT ![c] = controls'[c]] /\ controls \in [Controls -> ControlType]
  BY <1>0, <1>3, TypeParts, ControlMoves
<1>10. CASE ControlStarts(c)
  <2>1. controls[c].at = "spawned" /\ UNCHANGED <<tree, attempted>> /\ ControlGoes(c, "claiming")
    BY <1>2, <1>10 DEF ControlStarts, ControlWakes, ControlStep
  <2>2. /\ controls'[c].at = "claiming" /\ controls'[c].epoch = epoch
        /\ controls'[c].opened = controls[c].opened
    BY <1>2, <1>k, <2>1 DEF ControlGoes, ControlType
  <2>3. New(c) /\ New(c)' /\ ~Holder(c) /\ ~Holder(c)'
    BY <1>3, <2>1, <2>2, <1>2 DEF New, Holder, Ours
  <2>4. Claims'
    BY <1>1, <1>3, <1>5, <1>6, <2>1, <2>2, <2>3 DEF Claims
  <2>. QED BY <1>8, <2>1, <2>4
<1>11. CASE ControlClaims(c) /\ LinkTaken
  <2>1. /\ controls[c].at = "claiming" /\ UNCHANGED <<tree, attempted>>
        /\ controls' = [controls EXCEPT ![c] = Finished("ok")]
    BY <1>11 DEF ControlClaims, ControlStep
  <2>2. controls'[c].at = "gone" /\ controls'[c].opened = "ok"
    BY <1>f, <1>k, <2>1
  <2>3. ~New(c)' /\ ~Holder(c) /\ ~Holder(c)'
    BY <1>3, <2>1, <2>2 DEF New, Holder, Ours
  <2>4. Claims'
    BY <1>1, <1>3, <1>5, <1>6, <2>1, <2>2, <2>3 DEF Claims
  <2>. QED BY <1>8, <2>1, <2>4
<1>12. CASE ControlClaims(c) /\ ~LinkTaken
  <2>1. /\ controls[c].at = "claiming" /\ attempted' = "recent" /\ ControlGoes(c, "waiting")
        /\ tree' = MoveChannel(tree, "control", "Connecting")
    BY <1>12 DEF ControlClaims, ControlStep
  <2>2. /\ controls'[c].at = "waiting" /\ controls'[c].epoch = epoch /\ controls'[c].say = "nothing"
        /\ controls'[c].opened = controls[c].opened
    BY <1>2, <1>7, <1>k, <2>1 DEF ControlGoes, ControlType
  <2>3. tree.control \notin {"Connecting", "Open"}
    BY <1>12 DEF LinkTaken
  <2>4. /\ tree'.control = "Connecting" /\ tree'.stream = "Open" /\ Summary'
    BY <1>0, <1>1, <1>2, <2>1, <2>3, LinkMoves
  <2>5. \A d \in Controls : ~Holder(d)
    BY <1>5, <2>3
  <2>6. New(c) /\ Holder(c)' /\ \A d \in Controls : Holder(d)' => d = c
    BY <1>2, <1>3, <2>1, <2>2, <2>5 DEF New, Holder, Ours
  <2>7. sup.at # "undoAwait" /\ (sup.at = "await" => controls[sup.task].opened # "err")
    BY <1>5, <2>6
  <2>8. sup.at = "await" => controls'[sup.task].opened # "err" /\
          (controls'[sup.task].at # "gone" => controls'[sup.task].epoch = epoch)
    BY <1>3, <1>5, <1>6, <2>2, <2>7
  <2>9. Claims'
    BY <1>1, <1>3, <2>1, <2>2, <2>4, <2>6, <2>7, <2>8 DEF Claims
  <2>. QED BY <1>9, <2>4, <2>9
<1>13. CASE ControlDials(c)
  <2>1. controls[c].at = "waiting" /\ UNCHANGED <<tree, attempted>> /\ ControlGoes(c, "dialing")
    BY <1>13 DEF ControlDials, ControlWakes, ControlStep
  <2>2. /\ controls'[c].at = "dialing" /\ controls'[c].epoch = epoch /\ controls'[c].say = controls[c].say
        /\ controls'[c].opened = controls[c].opened /\ controls[c].say = "nothing"
    BY <1>2, <1>7, <1>k, <2>1 DEF ControlGoes, ControlType
  <2>3. ~New(c) /\ ~New(c)' /\ Holder(c) /\ Holder(c)'
    BY <1>2, <1>3, <2>1, <2>2 DEF New, Holder, Ours
  <2>4. Claims'
    BY <1>1, <1>3, <1>5, <1>6, <2>1, <2>2, <2>3 DEF Claims
  <2>. QED BY <1>8, <2>1, <2>4
<1>14. CASE ControlRefused(c) \/ ControlOpens(c) \/ ControlEnds(c)
  <2> DEFINE what == IF ControlRefused(c) THEN "Unavailable" ELSE IF ControlOpens(c) THEN "Open" ELSE "Lost"
  <2>1. /\ UNCHANGED <<tree, attempted>> /\ ControlSays(c, what)
        /\ what = "Lost" => controls[c].at = "live"
        /\ what # "Lost" => controls[c].at \in {"waiting", "dialing"} /\ Quiet
        /\ what \in {"Unavailable", "Open", "Lost"}
    BY <1>14 DEF ControlRefused, ControlOpens, ControlEnds, ControlWakes, ControlStep
  <2> HIDE DEF what
  <2>2. /\ controls'[c].at = "saying" /\ controls'[c].epoch = epoch /\ controls'[c].say = what
        /\ controls'[c].opened = controls[c].opened
    BY <1>2, <1>k, <2>1 DEF ControlSays, ControlType
  <2>3. ~New(c) /\ ~New(c)' /\ Holder(c) /\ Holder(c)' /\ controls[c].say = "nothing"
    BY <1>2, <1>3, <1>7, <2>1, <2>2 DEF New, Holder, Ours
  <2>4. \A d \in Controls : ~New(d)
    <3>1. CASE what = "Lost"
      BY <1>5, <2>1, <2>3, <3>1
    <3>2. CASE Quiet
      <4>1. Idle(FALSE, FALSE, {}, {}) /\ \A d \in Controls : controls[d].at # "spawned"
        BY <3>2, Alone DEF Quiet
      <4>. QED BY <4>1 DEF New, Idle, ControlRuns
    <3>. QED BY <2>1, <3>1, <3>2
  <2>5. \A d \in Controls : ~New(d)'
    BY <1>3, <2>3, <2>4
  <2>6. /\ tree'.control = IF controls'[c].say = "Lost" THEN "Open" ELSE "Connecting"
        /\ controls'[c].say = "Unavailable" => attempted' = "recent"
    BY <1>5, <2>1, <2>2, <2>3
  <2>7. \A d \in Controls : Holder(d)' => d = c
    BY <1>3, <1>5, <2>3
  <2>8. sup.at = "await" => controls'[sup.task].opened = controls[sup.task].opened /\
          (controls'[sup.task].at # "gone" => controls'[sup.task].epoch = epoch)
    BY <1>3, <1>5, <1>6, <2>2
  <2>9. Claims'
    BY <1>1, <1>3, <1>5, <2>1, <2>2, <2>3, <2>5, <2>6, <2>7, <2>8 DEF Claims
  <2>. QED BY <1>8, <2>1, <2>9
<1>15. CASE ControlChecks(c)
  <2>1. /\ controls[c].at = "saying" /\ UNCHANGED <<tree, attempted>> /\ ControlGoes(c, "writing")
    BY <1>2, <1>15 DEF ControlChecks, ControlStep, StillCurrent
  <2>2. /\ controls'[c].at = "writing" /\ controls'[c].epoch = epoch /\ controls'[c].say = controls[c].say
        /\ controls'[c].opened = controls[c].opened
    BY <1>2, <1>k, <2>1 DEF ControlGoes, ControlType
  <2>3. ~New(c) /\ ~New(c)' /\ Holder(c) /\ Holder(c)'
    BY <1>2, <1>3, <2>1, <2>2 DEF New, Holder, Ours
  <2>4. Claims'
    BY <1>1, <1>3, <1>5, <1>6, <2>1, <2>2, <2>3 DEF Claims
  <2>. QED BY <1>8, <2>1, <2>4
<1>17. CASE ControlUnwinds(c)
  BY <1>1, <1>17 DEF ControlUnwinds
<1>16. CASE ControlWrites(c)
  <2>1. /\ controls[c].at = "writing" /\ UNCHANGED attempted /\ AfterSaying(c)
        /\ tree' = MoveChannel(tree, "control", controls[c].say)
        /\ controls[c].say \in {"Open", "Unavailable", "Lost"}
    BY <1>2, <1>7, <1>16 DEF ControlWrites, ControlStep, ControlType
  <2>2. Holder(c) /\ ~New(c)
    BY <1>2, <2>1 DEF Holder, New, Ours
  <2>3. /\ tree.control = IF controls[c].say = "Lost" THEN "Open" ELSE "Connecting"
        /\ controls[c].say = "Unavailable" => attempted = "recent"
        /\ \A d \in Controls : ~New(d)
        /\ \A d \in Controls : Holder(d) => d = c
    BY <1>5, <2>1, <2>2
  <2>4. tree'.control = controls[c].say /\ tree'.stream = "Open" /\ Summary'
    BY <1>0, <1>1, <1>2, <2>1, <2>3, LinkMoves
  <2>5. sup.at # "undoAwait" /\ (sup.at = "await" => controls[sup.task].opened # "err")
    BY <1>5, <2>1, <2>3
  <2>6. CASE controls[c].say = "Open"
    <3>1. controls' = [controls EXCEPT ![c] = [controls[c] EXCEPT !.at = "live", !.say = "nothing",
                                               !.opened = "ok"]]
      BY <2>1, <2>6 DEF AfterSaying
    <3>2. /\ controls'[c].at = "live" /\ controls'[c].epoch = epoch /\ controls'[c].say = "nothing"
          /\ controls'[c].opened = "ok"
      BY <1>2, <1>k, <3>1 DEF ControlType
    <3>3. Holder(c)' /\ ~New(c)'
      BY <1>3, <3>2 DEF Holder, New, Ours
    <3>4. sup.at = "await" => controls'[sup.task].opened # "err" /\
            (controls'[sup.task].at # "gone" => controls'[sup.task].epoch = epoch)
      BY <1>3, <1>5, <1>6, <2>5, <3>2
    <3>5. Claims'
      BY <1>1, <1>3, <2>1, <2>3, <2>4, <2>5, <2>6, <3>2, <3>3, <3>4 DEF Claims
    <3>. QED BY <1>9, <2>4, <3>5
  <2>7. CASE controls[c].say \in {"Unavailable", "Lost"}
    <3>1. controls' = [controls EXCEPT ![c] = Finished(IF controls[c].say = "Unavailable" THEN "err" ELSE "ok")]
      BY <2>1, <2>7 DEF AfterSaying
    <3>2. /\ controls'[c].at = "gone"
          /\ controls'[c].opened = "err" => controls[c].say = "Unavailable"
      BY <1>f, <1>k, <2>7, <3>1
    <3>3. ~Holder(c)' /\ ~New(c)'
      BY <3>2 DEF Holder, New, Ours
    <3>4. sup.at = "await" =>
            /\ controls'[sup.task].opened = "err" => tree'.control = "Unavailable" /\ attempted' = "recent"
            /\ controls'[sup.task].at # "gone" => controls'[sup.task].epoch = epoch
      BY <1>3, <1>5, <1>6, <2>1, <2>3, <2>4, <2>5, <3>2
    <3>5. \A d \in Controls : ~Holder(d)' /\ ~New(d)'
      BY <1>3, <2>3, <3>3
    <3>6. Claims'
      BY <1>1, <1>3, <2>1, <2>4, <2>5, <2>7, <3>4, <3>5 DEF Claims
    <3>. QED BY <1>9, <2>4, <3>6
  <2>. QED BY <2>1, <2>6, <2>7
<1>. QED BY <1>10, <1>11, <1>12, <1>13, <1>14, <1>15, <1>16, <1>17 DEF RunControl

\* A step of a task of an earlier life.
LEMMA StaleSteps ==
  ASSUME CInv, ~Threads, NEW c \in Controls, ~Ours(c), RunControl(c) \/ ControlEnds(c)
  PROVE  Phases' /\ Summary' /\ Tasks' /\ Claims'
<1>0. Phases /\ Summary /\ Tasks /\ ControlFrame(c) /\ TypeOK
  BY ControlFrames DEF CInv, GInv
<1>1. controls[c].at \notin {"claiming", "writing"}
  BY <1>0 DEF Tasks
<1>2. controls[c].epoch # epoch
  BY <1>0 DEF ControlFrame, Ours
<1>3. UNCHANGED <<tree, attempted>>
  BY <1>1 DEF RunControl, ControlEnds, ControlStarts, ControlClaims, ControlDials, ControlRefused,
     ControlOpens, ControlChecks, ControlWrites, ControlUnwinds, ControlStep
<1>4. controls'[c].at \notin {"claiming", "writing"}
  <2>1. controls \in [Controls -> ControlType]
    BY <1>0, TypeParts
  <2>2. CASE ControlStarts(c) \/ ControlUnwinds(c)
    BY <1>2, <2>1, <2>2 DEF ControlStarts, ControlUnwinds, Finished, NoControl
  <2>3. CASE ControlClaims(c) \/ ControlWrites(c)
    BY <1>1, <2>3 DEF ControlClaims, ControlWrites, ControlStep
  <2>4. CASE ControlDials(c) \/ ControlRefused(c) \/ ControlOpens(c) \/ ControlEnds(c)
    BY <2>1, <2>4 DEF ControlDials, ControlRefused, ControlOpens, ControlEnds, ControlGoes,
       ControlSays, ControlType
  <2>5. CASE ControlChecks(c)
    <3>1. AfterSaying(c) /\ controls[c].at = "saying"
      BY <1>2, <2>5 DEF ControlChecks, StillCurrent, ControlStep
    <3>2. controls[c].say \in {"Open", "Unavailable", "Lost"}
      BY <1>0, <3>1 DEF CInv, GInv, Ahead, ControlFrame, ControlType
    <3>3. /\ Finished("ok").at = "gone" /\ Finished("err").at = "gone"
          /\ [controls[c] EXCEPT !.at = "live", !.say = "nothing", !.opened = "ok"].at = "live"
      BY <1>0 DEF Finished, NoControl, ControlFrame, ControlType
    <3>4. controls'[c].at \in {"live", "gone"}
      BY <2>1, <3>1, <3>2, <3>3 DEF AfterSaying
    <3>. QED BY <3>4
  <2>. QED BY <2>2, <2>3, <2>4, <2>5 DEF RunControl
<1>5. Tasks'
  BY <1>0, <1>3, <1>4, ControlTasks
<1>6. Claims'
  BY <1>0, <1>3, StaleKeeps
<1>7. Summary'
  BY <1>0, <1>3 DEF Summary
<1>8. Phases'
  <2>1. /\ \A e \in Epochs : clocks'[e] = "on" => clocks[e] = "on"
        /\ \A i \in 1 .. Len(ends') : ends'[i].how = "Aged" => sup.opts.recycle
        /\ UNCHANGED <<closed, sup, epoch>>
    BY <1>0 DEF Phases, ControlFrame
  <2>. QED BY <1>0, <1>3, <2>1, PhasesStay
<1>. QED BY <1>5, <1>6, <1>7, <1>8
-----------------------------------------------------------------------------
(***************************************************************************)
(* CInv is kept by everyone else.                                           *)
(***************************************************************************)

LEMMA SpawnKeeps ==
  ASSUME CInv, SpawnControl(NewTask, epoch), Idle(FALSE, FALSE, {}, {}),
         UNCHANGED <<epoch, tree, closed, sup, closer, attempted, clocks, ends>>,
         ~closed, sup.opts.policy # "Off", tree.stream = "Open", ~LinkTaken, Due
  PROVE  Phases' /\ Summary' /\ Tasks' /\ Claims'
<1>0. TypeOK /\ Ahead /\ Phases /\ Summary /\ Tasks /\ Claims /\ epoch \in Epochs
  BY TypeParts DEF CInv, GInv
<1>1. /\ NewTask \in Controls /\ NewTask \notin Referred
      /\ \A c \in Controls \ {NewTask} : controls'[c] = controls[c]
      /\ controls'[NewTask] = [epoch |-> epoch, at |-> "spawned", say |-> "nothing",
                               cut |-> FALSE, opened |-> "pending"]
  BY <1>0, Spawned
<1>2. /\ controls'[NewTask].epoch = epoch /\ controls'[NewTask].at = "spawned"
      /\ controls'[NewTask].cut = FALSE
  BY <1>1
<1>3. sup.task # NewTask
  BY <1>1 DEF Referred
<1>4. /\ sup.at \notin {"undo", "undoBump", "undoSay", "abort", "say", "control"}
      /\ closer.at = "idle"
  BY <1>0 DEF Idle, SupRuns, Ahead
<1>5. \A d \in Controls : ~Holder(d)
  BY <1>0 DEF Claims, LinkTaken
<1>6. \A d \in Controls : ~Holder(d)'
  <2>1. ASSUME NEW d \in Controls, Holder(d)' PROVE FALSE
    <3>1. d # NewTask
      BY <1>2, <2>1 DEF Holder
    <3>. QED BY <1>1, <1>5, <2>1, <3>1 DEF Holder, Ours
  <2>. QED BY <2>1
<1>7. sup.at = "await" => sup.task \in Controls
  BY <1>0, SupFields DEF Ahead
<1>8. Phases'
  BY <1>0 DEF Phases
<1>9. Summary'
  BY <1>0 DEF Summary
<1>10. Tasks'
  <2>1. ASSUME NEW d \in Controls, controls'[d].at \in {"claiming", "writing"} PROVE FALSE
    <3>1. d # NewTask
      BY <1>2, <2>1
    <3>. QED BY <1>1, <2>1, <3>1 DEF Idle, ControlRuns
  <2>2. ASSUME NEW d \in Controls, Ours(d)' PROVE controls'[d].cut => closed'
    BY <1>0, <1>1, <1>2, <2>2 DEF Tasks, Ours
  <2>. QED BY <1>4, <2>1, <2>2 DEF Tasks
<1>11. Claims'
  <2>1. sup.at # "undoAwait" /\ (sup.at = "await" => controls[sup.task].opened # "err")
    BY <1>0 DEF Claims, Due
  <2>2. sup.at = "await" => controls'[sup.task] = controls[sup.task]
    BY <1>1, <1>3, <1>7
  <2>3. sup.at = "await" /\ controls[sup.task].at # "gone" => controls[sup.task].epoch = epoch
    BY <1>0 DEF Claims
  <2>. QED BY <1>4, <1>6, <2>1, <2>2, <2>3 DEF Claims, LinkTaken, Due
<1>. QED BY <1>8, <1>9, <1>10, <1>11

\* A step that only touches the stream task, the clock or a handle.
LEMMA AsideKeeps ==
  ASSUME CInv, UNCHANGED <<epoch, tree, closed, sup, closer, attempted, controls>>,
         \A e \in Epochs : loops[e].at = "none" => loops'[e].at = "none",
         \A e \in Epochs : clocks'[e] = "on" => clocks[e] = "on",
         \A i \in 1 .. Len(ends') : ends'[i].how = "Aged" => sup.opts.recycle
  PROVE  Phases' /\ Summary' /\ Tasks' /\ Claims'
<1>0. Phases /\ Summary /\ Tasks /\ Claims /\ TypeOK
  BY DEF CInv, GInv
<1>1. Phases'
  BY <1>0, PhasesStay
<1>2. Summary'
  BY <1>0 DEF Summary
<1>3. \A c \in Controls : (Ours(c)' <=> Ours(c)) /\ (New(c)' <=> New(c)) /\ (Holder(c)' <=> Holder(c))
  BY DEF Ours, New, Holder
<1>4. Tasks'
  <2>1. epoch \in Epochs
    BY <1>0, TypeParts
  <2>. QED BY <1>0, <1>3, <2>1 DEF Tasks
<1>5. Claims'
  BY <1>0, <1>3 DEF Claims
<1>. QED BY <1>1, <1>2, <1>4, <1>5

LEMMA AsideSteps ==
  ASSUME CInv, ~Threads,
         \/ \E e \in Epochs : StreamEnds(e) \/ StreamUnwinds(e) \/ Ages(e) \/ RunLoop(e)
         \/ \E x \in Clients : ClientReopens(x) \/ ClientKeeps(x)
  PROVE  Phases' /\ Summary' /\ Tasks' /\ Claims'
<1>0. TypeOK /\ Ahead /\ Phases /\ Tasks
  BY DEF CInv, GInv
<1>t. /\ loops \in LoopsType /\ clocks \in ClocksType /\ ends \in EndsType
      /\ closer \in CloserType /\ closed = (closer.at # "idle")
  BY <1>0, TypeParts DEF Ahead
<1>e. /\ \A i \in 1 .. Len(ends) : ends[i].how = "Aged" => sup.opts.recycle
      /\ \A e \in Epochs : clocks[e] = "on" => sup.opts.recycle
  BY <1>0 DEF Phases
<1>1. ASSUME NEW e \in Epochs, StreamUnwinds(e) PROVE Phases' /\ Summary' /\ Tasks' /\ Claims'
  BY <1>1, <1>e, AsideKeeps DEF StreamUnwinds, core
<1>2. ASSUME NEW e \in Epochs, StreamEnds(e) \/ Ages(e) PROVE Phases' /\ Summary' /\ Tasks' /\ Claims'
  <2>1. \A f \in Epochs : clocks'[f] = "on" => clocks[f] = "on"
    BY <1>2, <1>t DEF StreamEnds, Ages, ClocksType
  <2>2. ASSUME NEW how \in {"Lost", "Aged"}, ends' = Append(ends, [how |-> how, epoch |-> e]),
               how = "Aged" => sup.opts.recycle
        PROVE  \A i \in 1 .. Len(ends') : ends'[i].how = "Aged" => sup.opts.recycle
    <3> DEFINE r == [how |-> how, epoch |-> e]
    <3>1. r \in [how : {"Lost", "Aged"}, epoch : Epochs] /\ r.how = how /\ ends' = Append(ends, r)
      BY <2>2
    <3> HIDE DEF r
    <3>2. /\ Len(ends') = Len(ends) + 1 /\ Len(ends) \in Nat
          /\ \A i \in 1 .. Len(ends) : ends'[i] = ends[i]
          /\ ends'[Len(ends) + 1] = r
      BY <1>t, <3>1, AppendProperties DEF EndsType
    <3>3. ASSUME NEW i \in 1 .. Len(ends') PROVE ends'[i].how = "Aged" => sup.opts.recycle
      <4>1. i \in 1 .. Len(ends) \/ i = Len(ends) + 1
        BY <3>2
      <4>. QED BY <1>e, <2>2, <3>1, <3>2, <4>1
    <3>. QED BY <3>3
  <2>3. \A i \in 1 .. Len(ends') : ends'[i].how = "Aged" => sup.opts.recycle
    <3>1. CASE StreamEnds(e)
      BY <2>2, <3>1 DEF StreamEnds
    <3>2. CASE Ages(e)
      BY <1>e, <2>2, <3>2 DEF Ages
    <3>. QED BY <1>2, <3>1, <3>2
  <2>4. UNCHANGED <<epoch, tree, closed, sup, closer, attempted, controls, loops>>
    BY <1>2 DEF StreamEnds, Ages, core
  <2>. QED BY <2>1, <2>3, <2>4, AsideKeeps
<1>3. ASSUME NEW e \in Epochs, LoopTicks(e) PROVE Phases' /\ Summary' /\ Tasks' /\ Claims'
  <2>1. loops[e].at = "on" /\ Idle(FALSE, FALSE, {}, {})
        /\ UNCHANGED <<core, streams, clocks, closed, life, ends, sup, closer, clients, attempted, faults>>
    BY <1>3, Alone DEF LoopTicks
  <2>2. CASE epoch = e /\ tree.stream = "Open"
    <3>1. ControlDown /\ Due /\ SpawnControl(NewTask, epoch)
      BY <1>3, <2>2 DEF LoopTicks
    <3>2. sup.opts.policy # "Off" /\ ~LinkTaken
      BY <1>0, <3>1 DEF Tasks, ControlDown, LinkTaken
    <3>3. closer.at = "idle"
      BY <1>0, <1>t, <2>1, <2>2 DEF Tasks, Idle, CloserType
    <3>. QED BY <1>t, <2>1, <2>2, <3>1, <3>2, <3>3, SpawnKeeps DEF core
  <2>3. CASE ~(epoch = e /\ tree.stream = "Open")
    <3>1. loops' = [loops EXCEPT ![e].at = "gone"] /\ UNCHANGED controls
      BY <1>3, <2>3 DEF LoopTicks
    <3>2. \A f \in Epochs : loops[f].at = "none" => loops'[f].at = "none"
      BY <1>t, <2>1, <3>1 DEF LoopsType
    <3>. QED BY <1>e, <2>1, <3>1, <3>2, AsideKeeps DEF core
  <2>. QED BY <2>2, <2>3
<1>4. ASSUME NEW e \in Epochs, LoopKeeps(e) PROVE Phases' /\ Summary' /\ Tasks' /\ Claims'
  <2>1. /\ loops' = [loops EXCEPT ![e] = [at |-> "on", task |-> Nobody]] /\ loops[e].at = "storing"
        /\ UNCHANGED <<core, streams, controls, clocks, closed, ends, sup, closer, clients, attempted, faults>>
    BY <1>4 DEF LoopKeeps
  <2>2. \A f \in Epochs : loops[f].at = "none" => loops'[f].at = "none"
    BY <1>t, <2>1 DEF LoopsType
  <2>. QED BY <1>e, <2>1, <2>2, AsideKeeps DEF core
<1>5. ASSUME NEW x \in Clients, ClientReopens(x) PROVE Phases' /\ Summary' /\ Tasks' /\ Claims'
  <2>1. /\ Idle(FALSE, FALSE, {}, {}) /\ SpawnControl(NewTask, epoch)
        /\ UNCHANGED <<core, streams, loops, clocks, closed, life, ends, sup, closer, attempted, faults>>
        /\ ~closed /\ sup.opts.policy # "Off" /\ tree.stream = "Open" /\ ~LinkTaken /\ Due
    BY <1>5, Alone DEF ClientReopens
  <2>. QED BY <2>1, SpawnKeeps DEF core
<1>6. ASSUME NEW x \in Clients, ClientKeeps(x) PROVE Phases' /\ Summary' /\ Tasks' /\ Claims'
  BY <1>6, <1>e, AsideKeeps DEF ClientKeeps, core, tasks
<1>. QED BY <1>1, <1>2, <1>3, <1>4, <1>5, <1>6 DEF RunLoop

LEMMA GapKeeps ==
  ASSUME CInv, ~Threads, GapPasses
  PROVE  Phases' /\ Summary' /\ Tasks' /\ Claims'
<1>0. Phases /\ Summary /\ Tasks /\ Claims /\ Ahead
  BY DEF CInv, GInv
<1>1. /\ Quiet /\ Idle(FALSE, FALSE, {}, {}) /\ attempted' = "before"
      /\ \A c \in Controls : controls[c].at \notin {"waiting", "dialing"}
      /\ UNCHANGED <<core, tasks, closed, life, ends, sup, closer, clients, faults>>
  BY Alone DEF GapPasses
<1>2. Phases'
  BY <1>0, <1>1 DEF Phases, core, tasks
<1>3. Summary'
  BY <1>0, <1>1 DEF Summary, core
<1>4. \A c \in Controls : (Ours(c)' <=> Ours(c)) /\ (New(c)' <=> New(c)) /\ (Holder(c)' <=> Holder(c))
  BY <1>1 DEF Ours, New, Holder, core, tasks
<1>5. Tasks'
  BY <1>0, <1>1, <1>4 DEF Tasks, core, tasks
<1>6. \A c \in Controls : controls[c].say # "Unavailable"
  BY <1>0, <1>1 DEF Ahead, Idle, ControlRuns
<1>7. /\ sup.at \notin {"undo", "undoAwait", "undoBump", "undoSay"}
      /\ sup.at = "await" => controls[sup.task].opened # "err"
  BY <1>1 DEF Quiet, Idle, SupRuns
<1>8. Claims'
  BY <1>0, <1>1, <1>4, <1>6, <1>7 DEF Claims, core, tasks
<1>. QED BY <1>2, <1>3, <1>5, <1>8

LEMMA ClosingKeeps ==
  ASSUME CInv, ~Threads, (\E how \in {"close", "drop"} : CloseTakes(how)) \/ CloseStep
  PROVE  Phases' /\ Summary' /\ Tasks' /\ Claims'
<1>0. GInv /\ TypeOK /\ Ahead /\ Phases /\ Summary /\ Tasks
  BY DEF CInv, GInv
<1>t. /\ controls \in [Controls -> ControlType] /\ epoch \in Nat /\ closer \in CloserType
      /\ epoch \in Epochs /\ sup \in SupType /\ closed = (closer.at # "idle")
      /\ \A c \in Controls : controls[c].epoch \in Nat /\ controls[c].epoch <= epoch
  BY <1>0, TypeParts, NatParts DEF Ahead
<1>e. /\ \A i \in 1 .. Len(ends) : ends[i].how = "Aged" => sup.opts.recycle
      /\ \A e \in Epochs : clocks[e] = "on" => sup.opts.recycle
  BY <1>0 DEF Phases
<1>1. ASSUME NEW how \in {"close", "drop"}, CloseTakes(how)
      PROVE  Phases' /\ Summary' /\ Tasks' /\ Claims'
  <2>1. /\ closed' = TRUE /\ ~closed /\ AbortLinks /\ sup.mode # "first"
        /\ sup' = [sup EXCEPT !.cut = sup.at # "gone"]
        /\ closer' = [at |-> "bump", how |-> how, stream |-> life.stream, control |-> life.control]
        /\ UNCHANGED <<core, ends, clients, attempted, faults>>
        /\ Idle(FALSE, TRUE, {}, {})
    BY <1>1, Alone DEF CloseTakes, FirstClose
  <2>2. closer'.at = "bump" /\ closer.at = "idle"
    BY <1>t, <2>1
  <2>3. /\ sup'.at = sup.at /\ sup'.mode = sup.mode /\ sup'.epoch = sup.epoch /\ sup'.opts = sup.opts
        /\ sup.at \in SupAwaits \union {"gone"}
    BY <1>t, <2>1 DEF SupType, Idle
  <2>4. /\ \A e \in Epochs : clocks'[e] = "on" => clocks[e] = "on"
        /\ \A c \in Controls : controls'[c].epoch = controls[c].epoch /\ controls'[c].at = controls[c].at
    BY <1>0, <2>1, Aborted
  <2>5. Phases'
    BY <1>0, <1>e, <2>1, <2>3, <2>4 DEF Phases
  <2>6. Summary'
    BY <1>0, <2>1 DEF Summary, core
  <2>7. Tasks'
    <3>1. \A c \in Controls : Ours(c)' => Ours(c)
      BY <2>1, <2>4 DEF Ours, core
    <3>2. \A c \in Controls : controls'[c].at \notin {"claiming", "writing"}
      BY <2>1, <2>4 DEF Idle, ControlRuns
    <3>3. sup.at # "control"
      BY <2>3 DEF SupAwaits
    <3>. QED BY <1>0, <2>1, <2>2, <2>3, <3>1, <3>2, <3>3 DEF Tasks, core
  <2>8. Claims'
    BY <2>1 DEF Claims
  <2>. QED BY <2>5, <2>6, <2>7, <2>8
<1>2. CASE CloseStep
  <2>1. /\ UNCHANGED <<tasks, closed, life, ends, sup, clients, attempted, faults>>
        /\ closer.at \in {"bump", "join", "say"} /\ closer'.at \in {"join", "say", "done"}
        /\ closer.at = "bump" => epoch' = epoch + 1 /\ tree' = tree
        /\ closer.at # "bump" => epoch' = epoch
        /\ tree' = tree \/ tree' = Ended("Closed", "Disconnected")
        /\ Idle(FALSE, TRUE, {}, {})
    <3>1. CASE CloseBumps
      BY <1>t, <3>1, Alone DEF CloseBumps, CloserType
    <3>2. CASE CloseJoins
      BY <1>t, <3>2, Alone DEF CloseJoins, CloserType, core
    <3>3. CASE CloseSays
      BY <1>t, <3>3, Alone DEF CloseSays, CloserType
    <3>. QED BY <1>2, <3>1, <3>2, <3>3 DEF CloseStep
  <2>2. closed /\ closed'
    BY <1>t, <2>1
  <2>3. \A c \in Controls : ~Ours(c)' /\ controls'[c].at \notin {"claiming", "writing"}
    <3>1. ASSUME NEW c \in Controls PROVE ~Ours(c)'
      <4>1. CASE closer.at = "bump"
        <5>1. controls[c].epoch # epoch + 1
          BY <1>t
        <5>. QED BY <2>1, <4>1, <5>1 DEF Ours, tasks
      <4>2. CASE closer.at # "bump"
        <5>1. ~Ours(c)
          BY <1>0, <2>1, <4>2 DEF Tasks
        <5>. QED BY <2>1, <4>2, <5>1 DEF Ours, tasks
      <4>. QED BY <4>1, <4>2
    <3>2. \A c \in Controls : controls[c].at \notin {"claiming", "writing"}
      BY <2>1 DEF Idle, ControlRuns
    <3>. QED BY <2>1, <3>1, <3>2 DEF tasks
  <2>4. Phases'
    BY <1>0, <1>e, <2>1, <2>2 DEF Phases, tasks
  <2>5. Summary'
    <3>1. CASE tree' = tree
      BY <1>0, <3>1 DEF Summary
    <3>2. CASE tree' = Ended("Closed", "Disconnected")
      BY <3>2, SummaryDown DEF Ended
    <3>. QED BY <2>1, <3>1, <3>2
  <2>6. loops'[epoch'].at = "none"
    <3>1. CASE closer.at = "bump"
      <4>1. GInv'
        BY <1>0, <1>2, CloseKeeps
      <4>2. epoch' \in Epochs
        BY <4>1, TypePartsNext DEF GInv
      <4>3. epoch' > epoch
        BY <1>t, <2>1, <3>1
      <4>. QED BY <1>0, <2>1, <4>2, <4>3 DEF Ahead, tasks
    <3>2. CASE closer.at # "bump"
      BY <1>0, <2>1, <3>2 DEF Tasks, tasks
    <3>. QED BY <3>1, <3>2
  <2>7. tree'.control # "Closed" => sup.opts.policy # "Off"
    BY <1>0, <2>1 DEF Tasks, Ended
  <2>8. sup.at # "control"
    BY <2>1 DEF Idle, SupRuns
  <2>9. Tasks'
    BY <2>1, <2>3, <2>6, <2>7, <2>8 DEF Tasks
  <2>10. Claims'
    BY <2>2 DEF Claims
  <2>. QED BY <2>4, <2>5, <2>9, <2>10
<1>. QED BY <1>1, <1>2

LEMMA OneThreadKept ==
  ASSUME ~Threads, CInv, [Next]_vars
  PROVE  CInv'
<1>1. GInv'
  BY Kept DEF CInv
<1>2. CASE Next
  <2>1. ASSUME NEW c \in Controls, RunControl(c) \/ ControlEnds(c)
        PROVE  Phases' /\ Summary' /\ Tasks' /\ Claims'
    BY <2>1, OursKeeps, StaleSteps
  <2>. QED BY <1>1, <1>2, <2>1, SuperviseKeeps, AsideSteps, GapKeeps, ClosingKeeps DEF Next, CInv
<1>3. CASE UNCHANGED vars
  <2>1. /\ Phases /\ Summary /\ Tasks /\ Claims
        /\ epoch' = epoch /\ closed' = closed /\ tree' = tree /\ controls' = controls
        /\ loops' = loops /\ clocks' = clocks /\ ends' = ends /\ sup' = sup
        /\ closer' = closer /\ attempted' = attempted
    BY <1>3 DEF CInv, vars
  <2>2. Phases'
    BY <2>1 DEF Phases, FailureSays
  <2>3. Summary'
    BY <2>1 DEF Summary
  <2>4. Tasks'
    BY <2>1 DEF Tasks, Ours
  <2>5. Claims'
    BY <2>1 DEF Claims, Ours, New, Holder
  <2>. QED BY <1>1, <2>2, <2>3, <2>4, <2>5 DEF CInv
<1>. QED BY <1>2, <1>3

LEMMA BeginsOneThread == ASSUME Init PROVE CInv
<1>0. GInv /\ TypeOK
  BY Begins DEF GInv
<1>1. /\ sup.at = "spawn" /\ sup.mode = "first" /\ sup.epoch = epoch /\ closed = FALSE
      /\ sup.opts \in Options
  BY DEF Init
<1>2. /\ tree.conn = "Disconnected" /\ tree.stream = "Closed" /\ tree.control = "Closed"
  BY DEF Init
<1>3. \A c \in Controls : controls[c].at = "gone"
  BY DEF Init, NoControl
<1>4. (\A e \in Epochs : clocks[e] = "none") /\ ends = <<>> /\ closer.at = "idle"
  BY DEF Init
<1>5. \A i \in 1 .. Len(ends) : ends[i].how = "Aged" => sup.opts.recycle
  BY <1>4
<1>6. Phases
  BY <1>1, <1>2, <1>4, <1>5 DEF Phases, Up
<1>7. Summary
  BY <1>2 DEF Summary
<1>8. Tasks
  BY <1>1, <1>2, <1>3, <1>4 DEF Tasks, Ours
<1>9. Claims
  BY <1>1, <1>2, <1>3 DEF Claims, Ours, New, Holder
<1>. QED BY <1>0, <1>6, <1>7, <1>8, <1>9 DEF CInv

\* On one thread the supervisor, the tree, the control tasks and the claims on
\* the link agree, in every state: the invariant the theorems below rest on.
THEOREM OneThreadInductive == ASSUME ~Threads PROVE Spec => []CInv
<1>1. Init => CInv
  BY BeginsOneThread
<1>2. CInv /\ [Next]_vars => CInv'
  BY OneThreadKept
<1>. QED BY <1>1, <1>2, PTL DEF Spec

-----------------------------------------------------------------------------
(***************************************************************************)
(* What follows from it.                                                    *)
(***************************************************************************)

\* claim_control and set_channel (model/core.rs) between them keep one task at
\* the control link: while the stream is open and the supervisor waits, the tree
\* says Connecting or Open exactly while one task of this life holds the claim.
THEOREM ClaimIsHeld == ASSUME ~Threads PROVE Spec => []ClaimHeld
<1>1. CInv => ClaimHeld
  <2> SUFFICES ASSUME CInv, tree.stream = "Open", ~closed, sup.at \in SupAwaits
               PROVE  IF tree.control \in {"Connecting", "Open"}
                        THEN Cardinality(Holders) = 1
                        ELSE \A c \in Holders : controls[c].say \in {"Unavailable", "Lost"}
    BY DEF ClaimHeld
  <2>1. Claims /\ sup.at \notin {"abort", "say"}
    BY DEF CInv, SupAwaits
  <2>2. \A c \in Controls : c \in Holders <=> Holder(c)
    BY DEF Holders, Holder, Ours
  <2>3. CASE tree.control \in {"Connecting", "Open"}
    <3>1. PICK c \in Controls : Holder(c)
      BY <2>1, <2>3 DEF Claims
    <3>2. \A d \in Controls : Holder(d) => d = c
      BY <2>1, <3>1 DEF Claims
    <3>3. Holders = {c}
      BY <2>2, <3>1, <3>2 DEF Holders
    <3>4. Cardinality({c}) = 1
      BY FS_Singleton
    <3>. QED BY <2>3, <3>3, <3>4
  <2>4. CASE tree.control \notin {"Connecting", "Open"}
    <3>1. \A c \in Controls : ~Holder(c)
      BY <2>1, <2>4 DEF Claims
    <3>. QED BY <2>2, <2>4, <3>1 DEF Holders
  <2>. QED BY <2>3, <2>4
<1>. QED BY <1>1, OneThreadInductive, PTL

\* The four moves of the link: the claim of a task that has yet to claim, and
\* what the holder of the claim says.
LinkClaimed ==
  /\ tree.stream = "Open" /\ tree.control \notin {"Connecting", "Open"}
  /\ sup.opts.policy # "Off"
  /\ tree.control \in {"Unavailable", "Lost"} => attempted # "recent"
  /\ tree'.stream = "Open" /\ tree'.control = "Connecting" /\ tree'.conn = tree.conn

LinkTold ==
  /\ tree.stream = "Open" /\ tree'.stream = "Open"
  /\ \/ tree.control = "Connecting" /\ tree'.control = "Open" /\ tree'.conn = "Connected"
     \/ tree.control = "Connecting" /\ tree'.control = "Unavailable" /\ tree'.conn = "Degraded"
     \/ tree.control = "Open" /\ tree'.control = "Lost" /\ tree'.conn = "Degraded"

LEMMA LinkSteps ==
  ASSUME CInv, ~Threads, NEW c \in Controls, RunControl(c) \/ ControlEnds(c)
  PROVE  (tree' = tree \/ LinkClaimed \/ LinkTold) /\ UNCHANGED <<sup, closer>>
<1>0. /\ TypeOK /\ Ahead /\ Summary /\ Tasks /\ Claims /\ ControlFrame(c)
      /\ tree \in TreeType /\ tree.control \in ChannelStates
  BY ControlFrames, TypeParts DEF CInv, GInv, TreeType
<1>1. CASE ControlClaims(c) /\ ~LinkTaken
  <2>1. /\ controls[c].at = "claiming" /\ tree' = MoveChannel(tree, "control", "Connecting")
    BY <1>1 DEF ControlClaims, ControlStep
  <2>2. Ours(c) /\ New(c)
    BY <1>0, <2>1 DEF Tasks, New
  <2>3. ~closed /\ tree.stream = "Open" /\ sup.opts.policy # "Off"
    BY <1>0, <2>2, OursAwake DEF ControlFrame
  <2>4. tree.control \notin {"Connecting", "Open"}
    BY <1>1 DEF LinkTaken
  <2>5. tree.control \in {"Unavailable", "Lost"} => attempted # "recent"
    BY <1>0, <2>2, <2>3 DEF Claims
  <2>6. tree'.control = "Connecting" /\ tree'.stream = "Open" /\ tree'.conn = tree.conn
    BY <1>0, <2>1, <2>3, <2>4, LinkMoves
  <2>. QED BY <1>0, <2>3, <2>4, <2>5, <2>6 DEF LinkClaimed, ControlFrame
<1>2. CASE ControlWrites(c)
  <2>1. /\ controls[c].at = "writing" /\ tree' = MoveChannel(tree, "control", controls[c].say)
    BY <1>2 DEF ControlWrites, ControlStep
  <2>2. Ours(c) /\ Holder(c)
    BY <1>0, <2>1 DEF Tasks, Holder
  <2>3. ~closed /\ tree.stream = "Open" /\ sup.opts.policy # "Off"
    BY <1>0, <2>2, OursAwake DEF ControlFrame
  <2>4. controls[c].say \in {"Open", "Unavailable", "Lost"}
    BY <1>0, <2>1 DEF Ahead, ControlFrame, ControlType
  <2>5. tree.control = IF controls[c].say = "Lost" THEN "Open" ELSE "Connecting"
    BY <1>0, <2>1, <2>2, <2>3 DEF Claims
  <2>6. /\ tree'.control = controls[c].say /\ tree'.stream = "Open"
        /\ tree'.conn = IF controls[c].say = "Open" THEN "Connected" ELSE "Degraded"
    BY <1>0, <2>1, <2>3, <2>4, <2>5, LinkMoves
  <2>. QED BY <1>0, <2>3, <2>4, <2>5, <2>6 DEF LinkTold, ControlFrame
<1>3. CASE ~ControlWrites(c) /\ ~(ControlClaims(c) /\ ~LinkTaken)
  BY <1>0, <1>3 DEF RunControl, ControlEnds, ControlStarts, ControlClaims, ControlDials,
     ControlRefused, ControlOpens, ControlChecks, ControlUnwinds, ControlFrame
<1>. QED BY <1>1, <1>2, <1>3

\* The supervisor only ever closes the link, and close() with it.
LEMMA SupLink ==
  ASSUME TypeOK, Supervise
  PROVE  tree'.control \in {tree.control, "Closed"}
<1>1. tree \in TreeType
  BY TypeParts
<1>2. CASE SayConnecting
  <2>1. tree' = MoveChannel(tree, "stream", "Connecting")
    BY <1>2 DEF SayConnecting, SetChannel
  <2>. QED BY <1>1, <2>1, Moved DEF ChannelStates
<1>3. CASE SayUnavailable
  <2>1. tree' = MoveChannel(tree, "stream", "Unavailable") \/ tree' = tree
    BY <1>3 DEF SayUnavailable, SetChannel
  <2>. QED BY <1>1, <2>1, Moved DEF ChannelStates
<1>8. CASE SayFailure
  BY <1>1, <1>8 DEF SayFailure, TreeType
<1>4. CASE SayOpened
  <2> DEFINE t == [tree EXCEPT !.stream = "Open"]
  <2>1. t \in TreeType /\ t.control = tree.control
    BY <1>1 DEF TreeType, ChannelStates
  <2>2. tree' = [t EXCEPT !.conn = Derived(t)] \/ tree' = tree
    BY <1>4 DEF SayOpened
  <2> HIDE DEF t
  <2>. QED BY <2>1, <2>2 DEF TreeType
<1>5. CASE SayRecycled \/ SayLost \/ UndoSay
  BY <1>5 DEF SayRecycled, SayLost, UndoSay, Ended
<1>6. CASE \/ RecvStale \/ RecvEnd \/ AbortLife \/ BackoffElapses \/ DialGoes \/ DialFails
           \/ HandshakeDone \/ SpawnStream \/ StartControl
  BY <1>6 DEF RecvStale, RecvEnd, AbortLife, BackoffElapses, DialGoes, DialFails, HandshakeDone,
     SpawnStream, StartControl, core
<1>7. CASE \/ ControlOpened \/ ControlFailed \/ KeepControl \/ StartLoop \/ StartClock
           \/ UndoAbort \/ UndoJoined \/ UndoBump \/ SupUnwinds
  BY <1>7 DEF ControlOpened, ControlFailed, KeepControl, StartLoop, StartClock, UndoAbort,
     UndoJoined, UndoBump, SupUnwinds, core
<1>. QED BY <1>2, <1>3, <1>4, <1>5, <1>6, <1>7, <1>8 DEF Supervise

\* Nobody else moves the tree.
LEMMA AsideLeaves ==
  ASSUME \/ \E e \in Epochs : StreamEnds(e) \/ StreamUnwinds(e) \/ Ages(e) \/ RunLoop(e)
         \/ GapPasses
         \/ \E x \in Clients : ClientReopens(x) \/ ClientKeeps(x)
  PROVE  tree' = tree /\ UNCHANGED <<sup, closer>>
BY DEF StreamEnds, StreamUnwinds, Ages, RunLoop, LoopTicks, LoopKeeps, GapPasses, ClientReopens,
       ClientKeeps, core

LEMMA ClosingLeaves ==
  ASSUME GInv, (\E how \in {"close", "drop"} : CloseTakes(how)) \/ CloseStep
  PROVE  \/ tree' = tree /\ closer'.at # "done" /\ closer.at # "done"
         \/ CloseSays /\ tree' = Ended("Closed", "Disconnected") /\ closer.at = "say"
            /\ closer'.at = "done"
<1>1. closer \in CloserType /\ closed = (closer.at # "idle")
  BY TypeParts DEF GInv, Ahead
<1>2. CASE \E how \in {"close", "drop"} : CloseTakes(how)
  <2>1. PICK how \in {"close", "drop"} : CloseTakes(how)
    BY <1>2
  <2>2. closer.at = "idle"
    BY <1>1, <2>1 DEF CloseTakes, FirstClose
  <2>. QED BY <2>1, <2>2 DEF CloseTakes, core
<1>3. CASE CloseBumps \/ CloseJoins
  BY <1>1, <1>3 DEF CloseBumps, CloseJoins, core, CloserType
<1>4. CASE CloseSays
  BY <1>1, <1>4 DEF CloseSays, CloserType
<1>. QED BY <1>2, <1>3, <1>4 DEF CloseStep

\* Within a life the control link is never redialed inside the reopen gap
\* (Shared.control_attempt), though the loop and the clients each look at the
\* clock for themselves, and the claim comes later.
THEOREM RedialsPaced == ASSUME ~Threads PROVE Spec => ReopensPaced
<1>1. CInv /\ [Next]_vars =>
        [tree.control \in {"Unavailable", "Lost"} /\ tree'.control = "Connecting"
           => attempted # "recent"]_vars
  <2> SUFFICES ASSUME CInv, Next, tree.control \in {"Unavailable", "Lost"},
                      tree'.control = "Connecting"
               PROVE  attempted # "recent"
    OBVIOUS
  <2>1. GInv /\ TypeOK
    BY DEF CInv, GInv
  <2>2. ASSUME NEW c \in Controls, RunControl(c) \/ ControlEnds(c) PROVE attempted # "recent"
    BY <2>2, LinkSteps DEF LinkClaimed, LinkTold
  <2>3. ~Supervise
    BY <2>1, SupLink
  <2>4. ~((\E how \in {"close", "drop"} : CloseTakes(how)) \/ CloseStep)
    BY <2>1, ClosingLeaves DEF Ended
  <2>. QED BY <2>2, <2>3, <2>4, AsideLeaves DEF Next
<1>. QED BY <1>1, OneThreadInductive, PTL DEF Spec, ReopensPaced

-----------------------------------------------------------------------------
(***************************************************************************)
(* Every step makes one of the moves a subscriber is promised, or none.     *)
(***************************************************************************)

Settled(at, mode, done) == done \/ (mode = "first" /\ at = "gone")

LEMMA PromisedStill ==
  ASSUME tree' = tree,
         Settled(sup.at, sup.mode, closer.at = "done")
           = Settled(sup'.at, sup'.mode, closer'.at = "done")
  PROVE  UNCHANGED Promised!vars
BY DEF Promised!vars, Settled

LEMMA PromisedLink ==
  ASSUME CInv, ~Threads, NEW c \in Controls, RunControl(c) \/ ControlEnds(c)
  PROVE  Promised!Next \/ UNCHANGED Promised!vars
<1>1. /\ tree' = tree \/ LinkClaimed \/ LinkTold
      /\ sup' = sup /\ closer' = closer
  BY LinkSteps
<1>2. CASE tree' = tree
  BY <1>1, <1>2, PromisedStill
<1>3. CASE LinkClaimed
  <2>1. LinkWanted
    <3>1. sup.opts \in Options /\ sup.opts.policy # "Off"
      BY <1>3, SupFields DEF LinkClaimed, CInv, GInv
    <3>2. Options \subseteq [policy : {"BestEffort", "Required"}, recycle : BOOLEAN]
      <4>1. CASE Options \subseteq [policy : {"Off"}, recycle : BOOLEAN]
        BY <3>1, <4>1
      <4>. QED BY <4>1, LifecycleAssumption
    <3>. QED BY <3>2 DEF LinkWanted
  <2>2. tree.control \in {"Closed", "Unavailable", "Lost"}
    <3>1. tree.control \in ChannelStates
      BY TypeParts DEF CInv, GInv, TreeType
    <3>. QED BY <1>3, <3>1 DEF LinkClaimed, ChannelStates
  <2>3. Promised!ControlDials
    BY <1>1, <1>3, <2>1, <2>2 DEF Promised!ControlDials, LinkClaimed
  <2>. QED BY <2>3 DEF Promised!Next
<1>4. CASE LinkTold
  <2>1. CASE tree'.control = "Open"
    <3>1. Promised!ControlOpens
      BY <1>1, <1>4, <2>1 DEF Promised!ControlOpens, LinkTold
    <3>. QED BY <3>1 DEF Promised!Next
  <2>2. CASE tree'.control # "Open"
    <3>1. Promised!ControlGoes
      BY <1>1, <1>4, <2>2 DEF Promised!ControlGoes, LinkTold
    <3>. QED BY <3>1 DEF Promised!Next
  <2>. QED BY <2>1, <2>2
<1>. QED BY <1>1, <1>2, <1>3, <1>4

\* What the supervisor does without a word to the tree.
LEMMA SilentSteps ==
  ASSUME CInv, ~Threads,
         \/ RecvStale \/ RecvEnd \/ AbortLife \/ BackoffElapses \/ DialGoes \/ DialFails
         \/ HandshakeDone \/ SpawnStream \/ StartControl \/ ControlOpened \/ ControlFailed
         \/ KeepControl \/ StartLoop \/ StartClock \/ UndoAbort \/ UndoJoined \/ UndoBump
         \/ SupUnwinds
  PROVE  UNCHANGED Promised!vars
<1>0. GInv /\ TypeOK /\ Ahead /\ Phases /\ sup \in SupType
  BY TypeParts DEF CInv, GInv
<1>g. ASSUME NEW from, NEW to \in SupAwaits \union SupRuns, from # "gone", to # "gone",
             SupGoes(from, to)
      PROVE  sup.at # "gone" /\ sup'.at # "gone"
  BY <1>0, <1>g, SupTyped
<1>p. {"recv", "backoff", "dial", "shake", "await", "undoAwait", "abort", "say",
       "connecting", "spawn", "opened", "control", "keep", "loop", "clock", "undo",
       "undoBump", "undoSay", "failed", "counting"} = SupAwaits \union SupRuns
  BY DEF SupAwaits, SupRuns
<1>1. CASE \/ RecvStale \/ AbortLife \/ BackoffElapses \/ DialGoes
  <2>1. sup.at # "gone" /\ sup'.at # "gone"
    BY <1>1, <1>g, <1>p DEF RecvStale, AbortLife, BackoffElapses, DialGoes, SupWakes
  <2>2. tree' = tree /\ closer' = closer
    BY <1>1 DEF RecvStale, AbortLife, BackoffElapses, DialGoes, core
  <2>. QED BY <2>1, <2>2, PromisedStill DEF Settled
<1>2. CASE DialFails \/ HandshakeDone \/ SpawnStream \/ ControlOpened \/ ControlFailed
  <2>1. sup.at # "gone" /\ sup'.at # "gone"
    BY <1>2, <1>g, <1>p DEF DialFails, HandshakeDone, SpawnStream, ControlOpened, ControlFailed,
       SupWakes
  <2>2. tree' = tree /\ closer' = closer
    BY <1>2 DEF DialFails, HandshakeDone, SpawnStream, ControlOpened, ControlFailed, core
  <2>. QED BY <2>1, <2>2, PromisedStill DEF Settled
<1>3. CASE StartLoop \/ UndoJoined \/ UndoBump
  <2>1. sup.at # "gone" /\ sup'.at # "gone"
    BY <1>3, <1>g, <1>p DEF StartLoop, UndoJoined, UndoBump, SupWakes
  <2>2. tree' = tree /\ closer' = closer
    BY <1>3 DEF StartLoop, UndoJoined, UndoBump, core
  <2>. QED BY <2>1, <2>2, PromisedStill DEF Settled
<1>4. CASE RecvEnd
  <2>1. sup.at = "recv" /\ sup'.at = "abort" /\ tree' = tree /\ closer' = closer
    BY <1>0, <1>4 DEF RecvEnd, SupType
  <2>. QED BY <2>1, PromisedStill DEF Settled
<1>5. CASE StartControl
  <2> DEFINE to == IF sup.opts.policy = "Required" THEN "await" ELSE "keep"
  <2>1. /\ sup.at = "control" /\ sup' = [sup EXCEPT !.at = to, !.task = NewTask]
        /\ to # "gone" /\ tree' = tree /\ closer' = closer
    BY <1>5 DEF StartControl, core
  <2> HIDE DEF to
  <2>2. sup'.at = to
    BY <1>0, <2>1 DEF SupType
  <2>. QED BY <2>1, <2>2, PromisedStill DEF Settled
<1>6. CASE KeepControl
  <2> DEFINE to == IF Reopen THEN "loop" ELSE "clock"
  <2>1. /\ sup.at = "keep" /\ sup' = [sup EXCEPT !.at = to, !.task = Nobody]
        /\ to # "gone" /\ tree' = tree /\ closer' = closer
    BY <1>6 DEF KeepControl, core
  <2> HIDE DEF to
  <2>2. sup'.at = to
    BY <1>0, <2>1 DEF SupType
  <2>. QED BY <2>1, <2>2, PromisedStill DEF Settled
<1>7. CASE StartClock \/ UndoAbort
  <2>1. sup.at # "gone" /\ sup'.at # "gone" /\ tree' = tree /\ closer' = closer
    BY <1>0, <1>7 DEF StartClock, UndoAbort, core, SupType
  <2>. QED BY <2>1, PromisedStill DEF Settled
<1>8. CASE SupUnwinds
  <2>1. /\ sup.cut /\ sup.at \in SupAwaits
        /\ sup' = [sup EXCEPT !.at = "gone", !.task = Nobody]
        /\ tree' = tree /\ closer' = closer
    BY <1>8 DEF SupUnwinds, core
  <2>2. sup.mode # "first" /\ sup'.mode = sup.mode
    BY <1>0, <2>1 DEF Ahead, SupType
  <2>. QED BY <2>1, <2>2, PromisedStill DEF Settled
<1>. QED BY <1>1, <1>2, <1>3, <1>4, <1>5, <1>6, <1>7, <1>8

\* A swap that opens the control link as well fails as a whole when the link does,
\* and then says Disconnected even if it goes on to dial again: see the README.
SwapsKeepTheLine ==
  Reconnect => ~\E o \in Options : o.policy = "Required" /\ o.recycle

\* The session comes up.
LEMMA PromisedOpens ==
  ASSUME CInv, ~Threads, SayOpened
  PROVE  Promised!Opens
<1>0. TypeOK /\ Ahead /\ Phases /\ Summary /\ sup \in SupType /\ tree \in TreeType
  BY TypeParts DEF CInv, GInv
<1> DEFINE to == IF sup.opts.policy = "Off" THEN "clock" ELSE "control"
           t  == [tree EXCEPT !.stream = "Open"]
<1>1. /\ to \in SupAwaits \union SupRuns \union {"gone"} /\ to # "gone"
      /\ SupGoes("opened", to) /\ closer' = closer
      /\ tree' = IF sup.epoch = epoch THEN [t EXCEPT !.conn = Derived(t)] ELSE tree
  BY SupPlaces DEF SayOpened
<1> HIDE DEF to
<1>2. sup.at = "opened" /\ sup'.at # "gone" /\ sup'.mode = sup.mode
  BY <1>0, <1>1, SupTyped
<1>3. ~closed /\ closer.at = "idle"
  BY <1>2, SupTurn DEF SupRuns
<1>4. /\ sup.epoch = epoch /\ tree.control = "Closed"
      /\ \/ tree.stream = "Closed" /\ tree.conn = "Disconnected"
         \/ tree.stream = "Connecting" /\ tree.conn = "Reconnecting"
  BY <1>0, <1>2, <1>3 DEF Phases, Summary, Up
<1>5. t \in TreeType /\ t.stream = "Open" /\ t.control = "Closed" /\ Derived(t) = "Connected"
  BY <1>0, <1>4 DEF TreeType, ChannelStates, Derived
<1> HIDE DEF t
<1>6. tree'.stream = "Open" /\ tree'.conn = "Connected" /\ tree'.control = "Closed"
  BY <1>1, <1>4, <1>5 DEF TreeType
<1>. QED BY <1>1, <1>2, <1>3, <1>4, <1>6 DEF Promised!Opens

\* The life ends, or never was: the stream is lost, or retired.
LEMMA PromisedEnds ==
  ASSUME CInv, ~Threads, SwapsKeepTheLine, SayRecycled \/ SayLost \/ UndoSay
  PROVE  Promised!Ends \/ Promised!ConnectFails
<1>0. /\ TypeOK /\ Ahead /\ Phases /\ Summary /\ sup \in SupType
      /\ sup.opts \in Options /\ sup.mode \in {"first", "swap", "retry"}
  BY TypeParts, SupFields DEF CInv, GInv
<1>1. CASE SayRecycled
  <2>1. /\ sup.mode = "swap" /\ SupGoes("say", "connecting") /\ closer' = closer
        /\ tree' = Ended("Closed", "Reconnecting")
    BY <1>1 DEF SayRecycled
  <2>2. sup.at = "say" /\ sup'.at = "connecting"
    BY <1>0, <2>1, SupTyped, SupPlaces
  <2>3. tree.stream = "Open" /\ sup.opts.recycle
    BY <1>0, <2>1, <2>2, SupTurn DEF Phases, SupRuns, Up
  <2>. QED BY <1>0, <2>1, <2>2, <2>3 DEF Promised!Ends, Ended
<1>2. CASE SayLost
  <2>1. /\ sup.mode = "retry" /\ SupGoes("say", AfterFailure) /\ closer' = closer
        /\ tree' = Ended("Lost", FailureSays)
    BY <1>2 DEF SayLost
  <2>2. sup.at = "say" /\ sup'.mode = "retry"
    BY <1>0, <2>1, SupTyped, SupPlaces
  <2>3. tree.stream = "Open"
    BY <1>0, <2>2, SupTurn DEF Phases, SupRuns, Up
  <2>. QED BY <2>1, <2>2, <2>3 DEF Promised!Ends, Ended, FailureSays
<1>3. CASE UndoSay /\ sup.mode = "first"
  <2>1. /\ SupGoes("undoSay", "gone") /\ closer' = closer
        /\ tree' = Ended("Lost", "Disconnected")
    BY <1>3 DEF UndoSay
  <2>2. sup.at = "undoSay" /\ sup'.at = "gone" /\ sup'.mode = "first"
    BY <1>0, <1>3, <2>1, SupTyped, SupPlaces
  <2>3. ~closed /\ closer.at = "idle" /\ tree.stream = "Open"
    BY <1>0, <2>2, SupTurn DEF Phases, SupRuns, Up
  <2>4. tree.control = "Unavailable"
    BY <2>2, <2>3, NoneAfterFailing
  <2>. QED BY <1>3, <2>1, <2>2, <2>3, <2>4 DEF Promised!ConnectFails, Ended
<1>4. CASE UndoSay /\ sup.mode # "first"
  <2>1. /\ SupGoes("undoSay", "failed") /\ closer' = closer
        /\ tree' = Ended("Lost", IF sup.mode = "retry" THEN "Reconnecting" ELSE "Disconnected")
    BY <1>4 DEF UndoSay
  <2>2. sup.at = "undoSay" /\ sup'.at = "failed"
    BY <1>0, <2>1, SupTyped, SupPlaces
  <2>3. tree.stream = "Open" /\ sup.opts.policy = "Required"
    BY <1>0, <2>2, SupTurn DEF Phases, SupRuns, Up
  <2>4. CASE sup.mode = "retry"
    <3>1. Reconnect
      BY <1>0, <2>2, <2>4 DEF Phases
    <3>. QED BY <2>1, <2>2, <2>3, <2>4, <3>1 DEF Promised!Ends, Ended
  <2>5. CASE sup.mode = "swap"
    <3>1. ~Reconnect
      BY <1>0, <2>3, <2>5 DEF Phases, SwapsKeepTheLine
    <3>. QED BY <2>1, <2>2, <2>3, <2>5, <3>1 DEF Promised!Ends, Ended
  <2>. QED BY <1>0, <1>4, <2>4, <2>5
<1>. QED BY <1>1, <1>2, <1>3, <1>4

\* The stream is dialed.
LEMMA PromisedDials ==
  ASSUME CInv, ~Threads, SayConnecting
  PROVE  Promised!Dials
<1>0. Phases /\ sup \in SupType /\ tree \in TreeType
  BY TypeParts DEF CInv, GInv
<1>1. /\ sup.at = "connecting" /\ sup' = [sup EXCEPT !.at = "dial", !.epoch = epoch]
      /\ closer' = closer /\ tree' = [tree EXCEPT !["stream"] = "Connecting"]
  BY DEF SayConnecting, SetChannel, MoveChannel
<1>2. sup'.at = "dial"
  BY <1>0, <1>1 DEF SupType
<1>3. /\ tree.conn = "Reconnecting" /\ tree.stream \in {"Closed", "Lost", "Unavailable"}
      /\ Reconnect \/ tree.stream = "Closed"
  BY <1>0, <1>1, SupTurn DEF Phases, SupRuns
<1>4. /\ tree'.control = tree.control /\ tree'.stream = "Connecting"
      /\ tree'.conn = tree.conn
  BY <1>0, <1>1 DEF TreeType
<1>. QED BY <1>1, <1>2, <1>3, <1>4 DEF Promised!Dials

\* The dial has failed; nobody is told of it if the Required link has failed, for
\* the stream is Lost by then.
LEMMA PromisedFails ==
  ASSUME CInv, ~Threads, SayUnavailable
  PROVE  Promised!DialFails \/ UNCHANGED Promised!vars
<1>0. TypeOK /\ Phases /\ sup \in SupType /\ tree \in TreeType
  BY TypeParts DEF CInv, GInv
<1>1. sup.at = "failed" /\ sup'.at = "counting" /\ closer' = closer
  BY <1>0, SupTyped, SupPlaces DEF SayUnavailable, SupGoes
<1>2. ~closed
  BY <1>1, SupTurn DEF SupRuns, SayUnavailable, SupGoes
<1>3. CASE sup.epoch = epoch
  <2>1. tree' = MoveChannel(tree, "stream", "Unavailable")
    BY <1>3 DEF SayUnavailable, SetChannel
  <2>2. tree.stream = "Connecting" /\ tree.conn = "Reconnecting"
    BY <1>0, <1>1, <1>2, <1>3 DEF Phases
  <2>3. tree' = [tree EXCEPT !["stream"] = "Unavailable"]
    BY <2>1, <2>2 DEF MoveChannel
  <2>4. tree'.stream = "Unavailable" /\ tree'.conn = tree.conn /\ tree'.control = tree.control
    BY <1>0, <2>3 DEF TreeType
  <2>. QED BY <1>1, <2>2, <2>4 DEF Promised!DialFails
<1>4. CASE sup.epoch # epoch
  <2>1. tree' = tree
    BY <1>4 DEF SayUnavailable, SetChannel
  <2>. QED BY <1>1, <2>1, PromisedStill DEF Settled
<1>. QED BY <1>3, <1>4

\* What the supervisor does about it is said next: with a backoff the connection is
\* Reconnecting still, without one the swap was the only attempt.
LEMMA PromisedFailure ==
  ASSUME CInv, ~Threads, SwapsKeepTheLine, SayFailure
  PROVE  Promised!GivesUp \/ UNCHANGED Promised!vars
<1>0. /\ TypeOK /\ Phases /\ sup \in SupType /\ tree \in TreeType
      /\ sup.opts \in Options
  BY TypeParts, SupFields DEF CInv, GInv
<1>1. /\ sup.at = "counting" /\ sup' = [sup EXCEPT !.at = AfterFailure, !.mode = "retry"]
      /\ closer' = closer /\ tree' = [tree EXCEPT !.conn = FailureSays]
  BY DEF SayFailure
<1>2. sup'.mode = "retry"
  BY <1>0, <1>1 DEF SupType
<1>3. ~closed
  BY <1>1, SupTurn DEF SupRuns, SayFailure
<1>4. /\ tree'.stream = tree.stream /\ tree'.control = tree.control
      /\ tree'.conn = FailureSays /\ (tree.conn = FailureSays => tree' = tree)
  BY <1>0, <1>1 DEF TreeType
<1>5. CASE tree.conn = FailureSays
  BY <1>1, <1>2, <1>4, <1>5, PromisedStill DEF Settled
<1>6. CASE sup.epoch = epoch /\ tree.conn # FailureSays
  <2>1. tree.conn = "Reconnecting" /\ tree.stream = "Unavailable"
    BY <1>0, <1>1, <1>3, <1>6 DEF Phases
  <2>2. ~Reconnect /\ FailureSays = "Disconnected"
    BY <1>6, <2>1 DEF FailureSays
  <2>. QED BY <1>1, <1>2, <1>4, <2>1, <2>2 DEF Promised!GivesUp
<1>7. CASE sup.epoch # epoch /\ tree.conn # FailureSays
  <2>1. sup.opts.policy = "Required" /\ sup.mode = "swap" /\ tree.conn = "Disconnected"
    BY <1>0, <1>1, <1>3, <1>7 DEF Phases
  <2>2. ~Reconnect
    BY <1>0, <2>1 DEF Phases, SwapsKeepTheLine
  <2>. QED BY <1>7, <2>1, <2>2 DEF FailureSays
<1>. QED BY <1>5, <1>6, <1>7

\* close() says the last word.
LEMMA PromisedCloses ==
  ASSUME GInv, (\E how \in {"close", "drop"} : CloseTakes(how)) \/ CloseStep
  PROVE  Promised!Next \/ UNCHANGED Promised!vars
<1>0. Ahead /\ sup \in SupType
  BY TypeParts DEF GInv
<1>1. sup'.at = sup.at /\ sup'.mode = sup.mode
  <2>1. CASE \E how \in {"close", "drop"} : CloseTakes(how)
    <3>1. sup' = [sup EXCEPT !.cut = sup.at # "gone"]
      BY <2>1 DEF CloseTakes
    <3>. QED BY <1>0, <3>1 DEF SupType
  <2>2. CASE CloseStep
    BY <2>2 DEF CloseStep, CloseBumps, CloseJoins, CloseSays
  <2>. QED BY <2>1, <2>2
<1>2. CASE tree' = tree /\ closer'.at # "done" /\ closer.at # "done"
  BY <1>1, <1>2, PromisedStill DEF Settled
<1>3. CASE tree' = Ended("Closed", "Disconnected") /\ closer.at = "say" /\ closer'.at = "done"
  <2>1. sup.mode # "first"
    BY <1>0, <1>3 DEF Ahead
  <2>2. Promised!Closes
    BY <1>3, <2>1 DEF Promised!Closes, Ended
  <2>. QED BY <2>2 DEF Promised!Next
<1>. QED BY <1>2, <1>3, ClosingLeaves

LEMMA PromisedStep ==
  ASSUME CInv, ~Threads, SwapsKeepTheLine, [Next]_vars
  PROVE  [Promised!Next]_(Promised!vars)
<1>1. CASE Next
  <2>1. GInv
    BY DEF CInv
  <2>2. CASE Supervise
    <3>1. CASE SayOpened \/ SayRecycled \/ SayLost \/ UndoSay
      <4>1. Promised!Opens \/ Promised!Ends \/ Promised!ConnectFails
        BY <3>1, PromisedOpens, PromisedEnds
      <4>. QED BY <4>1 DEF Promised!Next
    <3>2. CASE SayConnecting \/ SayUnavailable \/ SayFailure
      BY <3>2, PromisedDials, PromisedFails, PromisedFailure DEF Promised!Next
    <3>. QED BY <2>2, <3>1, <3>2, SilentSteps DEF Supervise
  <2>3. ASSUME NEW c \in Controls, RunControl(c) \/ ControlEnds(c)
        PROVE  Promised!Next \/ UNCHANGED Promised!vars
    BY <2>3, PromisedLink
  <2>4. CASE \/ \E e \in Epochs : StreamEnds(e) \/ StreamUnwinds(e) \/ Ages(e) \/ RunLoop(e)
             \/ GapPasses
             \/ \E x \in Clients : ClientReopens(x) \/ ClientKeeps(x)
    BY <2>4, AsideLeaves, PromisedStill
  <2>5. CASE (\E how \in {"close", "drop"} : CloseTakes(how)) \/ CloseStep
    BY <2>1, <2>5, PromisedCloses
  <2>. QED BY <1>1, <2>2, <2>3, <2>4, <2>5 DEF Next
<1>2. CASE UNCHANGED vars
  <2>1. tree' = tree /\ sup' = sup /\ closer' = closer
    BY <1>2 DEF vars
  <2>. QED BY <2>1, PromisedStill
<1>. QED BY <1>1, <1>2

\* What subscribers see of DeviceState.connection and .channels (state.rs) is what
\* Connection promises: the supervisor, the control tasks, the loop, the clients
\* and close(), step by step, implement it.
THEOREM PromiseKept ==
  ASSUME ~Threads, SwapsKeepTheLine
  PROVE  Spec => KeepsThePromise
<1>1. Init => Promised!Init
  BY DEF Init, Promised!Init
<1>2. CInv /\ [Next]_vars => [Promised!Next]_(Promised!vars)
  BY PromisedStep
<1>. QED BY <1>1, <1>2, OneThreadInductive, PTL DEF Spec, KeepsThePromise, Promised!Spec

\* What follows from the promise alone, whatever keeps it: the control link is
\* away from Closed only if it was asked for, and only while the stream is open.
PromiseInv ==
  /\ Promised!Summarises
  /\ tree.control # "Closed" => LinkWanted /\ tree.stream = "Open"

LEMMA PromiseInvInit == Promised!Init => PromiseInv
BY DEF Promised!Init, PromiseInv, Promised!Summarises

LEMMA PromiseInvStep == PromiseInv /\ [Promised!Next]_(Promised!vars) => PromiseInv'
<1> SUFFICES ASSUME PromiseInv, [Promised!Next]_(Promised!vars) PROVE PromiseInv'
  OBVIOUS
<1>1. CASE Promised!Opens
  BY <1>1 DEF Promised!Opens, PromiseInv, Promised!Summarises
<1>2. CASE Promised!ControlDials
  BY <1>2 DEF Promised!ControlDials, PromiseInv, Promised!Summarises
<1>3. CASE Promised!ControlOpens
  BY <1>3 DEF Promised!ControlOpens, PromiseInv, Promised!Summarises
<1>4. CASE Promised!ControlGoes
  BY <1>4 DEF Promised!ControlGoes, PromiseInv, Promised!Summarises
<1>5. CASE Promised!Ends
  BY <1>5 DEF Promised!Ends, PromiseInv, Promised!Summarises
<1>6. CASE Promised!Dials
  BY <1>6 DEF Promised!Dials, PromiseInv, Promised!Summarises
<1>7. CASE Promised!DialFails
  BY <1>7 DEF Promised!DialFails, PromiseInv, Promised!Summarises
<1>8. CASE Promised!Closes
  BY <1>8 DEF Promised!Closes, PromiseInv, Promised!Summarises
<1>9. CASE Promised!ConnectFails
  BY <1>9 DEF Promised!ConnectFails, PromiseInv, Promised!Summarises
<1>10. CASE Promised!GivesUp
  BY <1>10 DEF Promised!GivesUp, PromiseInv, Promised!Summarises
<1>11. CASE UNCHANGED Promised!vars
  BY <1>11 DEF Promised!vars, PromiseInv, Promised!Summarises
<1>. QED BY <1>1, <1>2, <1>3, <1>4, <1>5, <1>6, <1>7, <1>8, <1>9, <1>10, <1>11
     DEF Promised!Next

LEMMA PromiseSummarises == Promised!Spec => []Promised!Summarises
<1>1. PromiseInv => Promised!Summarises
  BY DEF PromiseInv
<1>. QED BY <1>1, PromiseInvInit, PromiseInvStep, PTL DEF Promised!Spec

\* The connection summarises the channels (DeviceState, state.rs): a reader of it
\* alone is never told that a stream is up when it is not, or that all is well
\* without the control link that was asked for.
THEOREM Summarised ==
  ASSUME ~Threads, SwapsKeepTheLine
  PROVE  Spec => []Promised!Summarises
<1>1. Spec => Promised!Spec
  BY PromiseKept DEF KeepsThePromise
<1>. QED BY <1>1, PromiseSummarises, PTL

-----------------------------------------------------------------------------
(***************************************************************************)
(* On one thread, and where no client reopens the link: every task is in    *)
(* somebody's hands, and there is one of each.                              *)
(***************************************************************************)

\* A step in which tasks only end.
LEMMA FewerKeep ==
  ASSUME Stored, Handles, Single, UNCHANGED <<life, sup, closed>>,
         \A e \in Epochs : streams'[e] = streams[e] \/ streams'[e] = "gone",
         \A e \in Epochs : loops'[e] = loops[e] \/ loops'[e].at = "gone",
         \A c \in Controls : \/ controls'[c].at = "gone"
                             \/ /\ Alive(c) /\ controls'[c].epoch = controls[c].epoch
                                /\ controls'[c].cut = controls[c].cut
                                /\ \A e \in Epochs : loops[e].at = "storing" => loops'[e] = loops[e]
  PROVE  Stored' /\ Handles' /\ Single'
<1>1. Stored'
  BY DEF Stored, NoLife
<1>2. (\A e \in Epochs : Linked(e)' => Linked(e)) /\ (\A c \in Controls : Alive(c)' => Alive(c))
  BY DEF Linked, Alive
<1>3. Single'
  BY <1>2 DEF Single
<1>4. ASSUME NEW c \in Controls, Alive(c)', ~controls'[c].cut, ~closed
      PROVE  InHand(c)' /\ controls'[c].epoch = sup'.epoch
  <2>1. /\ Alive(c) /\ ~controls[c].cut /\ controls'[c].epoch = controls[c].epoch
        /\ \A e \in Epochs : loops[e].at = "storing" => loops'[e] = loops[e]
    BY <1>4 DEF Alive
  <2>2. InHand(c) /\ controls[c].epoch = sup.epoch
    BY <1>4, <2>1 DEF Handles
  <2>. QED BY <2>1, <2>2 DEF InHand
<1>5. Handles'
  <2>1. \A e \in Epochs : streams'[e] = "up" => life'.stream = e
    BY DEF Handles
  <2>2. \A e \in Epochs : loops'[e].at \in {"on", "storing"} => life'.loop = e
    BY DEF Handles
  <2>3. ASSUME NEW e \in Epochs, loops'[e].at = "storing", NEW c \in Controls, Alive(c)'
        PROVE  c = loops'[e].task
    <3>1. loops'[e] = loops[e]
      BY <2>3
    <3>. QED BY <1>2, <2>3, <3>1 DEF Handles
  <2>4. ~closed /\ sup.at \in {"opened", "control", "await", "keep", "loop", "clock", "recv",
                               "abort", "undo"} =>
          /\ \A e \in Epochs : streams'[e] # "cut"
          /\ \A c \in Controls : Alive(c)' => ~controls'[c].cut
    BY DEF Handles, Alive
  <2>. QED BY <1>4, <2>1, <2>2, <2>3, <2>4 DEF Handles
<1>. QED BY <1>1, <1>3, <1>5

LEMMA ControlsKeepHands ==
  ASSUME HInv, ~Threads, NEW c \in Controls, RunControl(c) \/ ControlEnds(c)
  PROVE  Stored' /\ Handles' /\ Single'
<1>1. TypeOK /\ Ahead /\ Stored /\ Handles /\ Single /\ ControlFrame(c)
  BY ControlFrames DEF HInv, CInv, GInv
<1>2. /\ \A d \in Controls \ {c} : controls'[d] = controls[d]
      /\ \/ controls'[c].at = "gone"
         \/ controls'[c].epoch = controls[c].epoch /\ controls'[c].cut = controls[c].cut
      /\ UNCHANGED <<streams, loops, closed, life, sup>>
  BY <1>1, ControlMoves
<1>3. Alive(c)
  BY <1>1 DEF ControlFrame, Alive
<1>4. \A d \in Controls : controls'[d].at = "gone" \/
        (Alive(d) /\ controls'[d].epoch = controls[d].epoch /\ controls'[d].cut = controls[d].cut)
  BY <1>2, <1>3 DEF Alive
<1>. QED BY <1>1, <1>2, <1>4, FewerKeep

LEMMA AsideKeepHands ==
  ASSUME HInv, ~Threads,
         \/ \E e \in Epochs : StreamEnds(e) \/ StreamUnwinds(e) \/ Ages(e)
         \/ GapPasses \/ CloseStep \/ UNCHANGED vars
  PROVE  Stored' /\ Handles' /\ Single'
<1>1. TypeOK /\ Stored /\ Handles /\ Single /\ streams \in StreamsType
  BY TypeParts DEF HInv, CInv, GInv
<1>2. /\ UNCHANGED <<life, sup, closed, loops, controls>>
      /\ \A e \in Epochs : streams'[e] = streams[e] \/ streams'[e] = "gone"
  <2>1. CASE \E e \in Epochs : StreamEnds(e) \/ StreamUnwinds(e)
    BY <1>1, <2>1 DEF StreamEnds, StreamUnwinds, core, tasks, StreamsType
  <2>2. CASE \E e \in Epochs : Ages(e)
    BY <2>2 DEF Ages, core
  <2>3. CASE GapPasses
    BY <2>3 DEF GapPasses, core, tasks
  <2>4. CASE CloseStep
    BY <2>4 DEF CloseStep, CloseBumps, CloseJoins, CloseSays, core, tasks
  <2>5. CASE UNCHANGED vars
    BY <2>5 DEF vars
  <2>. QED BY <2>1, <2>2, <2>3, <2>4, <2>5
<1>3. \A c \in Controls : controls'[c].at = "gone" \/
        (Alive(c) /\ controls'[c].epoch = controls[c].epoch /\ controls'[c].cut = controls[c].cut)
  BY <1>2 DEF Alive
<1>. QED BY <1>1, <1>2, <1>3, FewerKeep

\* The supervisor moves on, and the tasks stay: what its place asks of them must
\* hold already.
LEMMA SupKeepsHands ==
  ASSUME Stored, Handles, Single, UNCHANGED <<streams, controls, loops, life, closed>>,
         \/ sup'.epoch = sup.epoch /\ sup'.task = sup.task
         \/ life = NoLife /\ sup.at \notin {"await", "keep"},
         closed \/ sup.at \notin {"await", "keep"} \/ sup'.at \in {"await", "keep"}
           \/ \A c \in Controls : Alive(c) => controls[c].cut,
         sup'.at \in {"say", "backoff", "connecting", "dial", "shake", "spawn", "failed",
                      "counting", "undoAwait", "undoBump", "undoSay", "gone"} => life = NoLife,
         sup'.at \in {"opened", "control", "await", "keep", "undo", "loop"} => life.loop = Nobody,
         sup'.at \in {"opened", "control", "await", "keep", "undo"} => life.control = Nobody,
         ~closed /\ sup'.at \in {"opened", "control", "await", "keep", "loop", "clock", "recv",
                                 "abort", "undo"} =>
           sup.at \in {"opened", "control", "await", "keep", "loop", "clock", "recv",
                       "abort", "undo"},
         sup'.at = "spawn" \/ (sup'.at = "shake" /\ sup'.mode # "swap") =>
           (\A e \in Epochs : ~Linked(e)) /\ (\A c \in Controls : ~Alive(c)),
         sup'.at \in {"opened", "control"} => \A c \in Controls : ~Alive(c)
  PROVE  Stored' /\ Handles' /\ Single'
<1>1. Stored'
  BY DEF Stored, NoLife
<1>2. \A c \in Controls : Alive(c)' <=> Alive(c)
  BY DEF Alive
<1>3. \A e \in Epochs : Linked(e)' <=> Linked(e)
  BY DEF Linked
<1>4. Single'
  BY <1>2, <1>3 DEF Single
<1>5. ASSUME NEW c \in Controls, ~closed, Alive(c), ~controls[c].cut
      PROVE  InHand(c)' /\ controls'[c].epoch = sup'.epoch
  <2>1. InHand(c) /\ controls[c].epoch = sup.epoch
    BY <1>5 DEF Handles
  <2>2. CASE life = NoLife /\ sup.at \notin {"await", "keep"}
    <3>1. life.loop = Nobody /\ c # Nobody /\ life.control = Nobody
      BY <2>2, Numbers DEF NoLife
    <3>2. \A e \in Epochs : loops[e].at # "storing"
      BY <3>1, Numbers DEF Handles
    <3>. QED BY <2>1, <2>2, <3>1, <3>2 DEF InHand
  <2>3. CASE sup.at \in {"await", "keep"} /\ sup'.epoch = sup.epoch /\ sup'.task = sup.task
    BY <1>5, <2>1, <2>3 DEF InHand
  <2>4. CASE sup.at \notin {"await", "keep"} /\ sup'.epoch = sup.epoch
    BY <2>1, <2>4 DEF InHand
  <2>. QED BY <1>5, <2>2, <2>3, <2>4
<1>6. Handles'
  BY <1>2, <1>5 DEF Handles
<1>. QED BY <1>1, <1>4, <1>6

\* Every task that is left has been cut, where no handle is kept; and once
\* everybody has been polled, none is left.
LEMMA NoLifeNoTask ==
  ASSUME HInv, ~closed, life = NoLife, sup.at \notin {"await", "keep"}
  PROVE  /\ \A e \in Epochs : streams[e] # "up"
         /\ \A e \in Epochs : loops[e].at \notin {"on", "storing"}
         /\ \A c \in Controls : Alive(c) => controls[c].cut
<1>1. Handles
  BY DEF HInv
<1>2. life.stream = Nobody /\ life.loop = Nobody /\ life.control = Nobody
  BY DEF NoLife
<1>3. \A e \in Epochs : streams[e] # "up" /\ loops[e].at \notin {"on", "storing"}
  BY <1>1, <1>2, Numbers DEF Handles
<1>4. \A c \in Controls : ~InHand(c)
  BY <1>2, <1>3, Numbers DEF InHand
<1>. QED BY <1>1, <1>3, <1>4 DEF Handles

LEMMA QuietNoTask ==
  ASSUME HInv, ~closed, life = NoLife, sup.at \notin {"await", "keep"}, Quiet
  PROVE  (\A e \in Epochs : ~Linked(e)) /\ (\A c \in Controls : ~Alive(c))
<1>1. /\ \A e \in Epochs : streams[e] # "cut"
      /\ \A c \in Controls : Alive(c) => ~controls[c].cut
  BY DEF Quiet, Alive
<1>. QED BY <1>1, NoLifeNoTask DEF Linked

\* After the Required link has failed, nothing is left of it.
LEMMA FailedNoTask ==
  ASSUME HInv, ~closed,
         \/ sup.at = "await" /\ controls[sup.task].opened = "err"
         \/ sup.at = "undo"
  PROVE  \A c \in Controls : Alive(c) => controls[c].cut
<1>1. TypeOK /\ Claims /\ Phases /\ Handles
  BY DEF HInv, CInv, GInv
<1>2. tree.control = "Unavailable" /\ attempted = "recent"
  BY <1>1 DEF Claims
<1>3. \A c \in Controls : ~New(c) /\ ~Holder(c)
  BY <1>1, <1>2 DEF Claims
<1>4. \A c \in Controls : ~Ours(c)
  BY <1>1, <1>3, OursIs
<1>5. sup.epoch = epoch
  BY <1>1 DEF Phases
<1>. QED BY <1>1, <1>4, <1>5 DEF Handles, Alive, Ours

\* The steps of the supervisor in which no task begins, ends or is cut.
LEMMA WalksKeepHands ==
  ASSUME HInv, ~Threads,
         \/ RecvStale \/ RecvEnd \/ SayRecycled \/ SayLost \/ BackoffElapses \/ SayConnecting
         \/ DialGoes \/ DialFails \/ HandshakeDone \/ SayUnavailable \/ SayFailure \/ SayOpened
         \/ ControlOpened \/ ControlFailed \/ UndoJoined \/ UndoBump \/ UndoSay \/ SupUnwinds
  PROVE  Stored' /\ Handles' /\ Single'
<1>0. /\ GInv /\ TypeOK /\ Ahead /\ Phases /\ Stored /\ Handles /\ Single /\ SupHere
      /\ sup \in SupType
  BY SupIsHere, TypeParts DEF HInv, CInv, GInv
<1> DEFINE Frame == UNCHANGED <<streams, controls, loops, life, closed>>
           Same == sup'.epoch = sup.epoch /\ sup'.task = sup.task
<1>g. ASSUME NEW from, NEW to \in SupAwaits \union SupRuns \union {"gone"}, SupGoes(from, to)
      PROVE  sup.at = from /\ sup'.at = to /\ sup'.mode = sup.mode /\ Same
  BY <1>0, <1>g, SupTyped
<1>a. ASSUME ~sup.cut, sup.at # "gone" PROVE ~closed
  BY <1>0, <1>a, SupAwake
<1>1. CASE RecvStale \/ RecvEnd
  <2>1. Frame /\ sup.at = "recv" /\ ~sup.cut
    BY <1>1 DEF RecvStale, RecvEnd, SupWakes, SupGoes, tasks, core
  <2>2. Same /\ sup'.at \in {"recv", "abort"}
    <3>1. CASE RecvStale
      BY <1>g, <3>1, SupPlaces DEF RecvStale, SupWakes
    <3>2. CASE RecvEnd
      BY <1>0, <3>2 DEF RecvEnd, SupType
    <3>. QED BY <1>1, <3>1, <3>2
  <2>. QED BY <1>0, <2>1, <2>2, SupKeepsHands
<1>2. CASE SayRecycled \/ SayLost
  <2>1. Frame /\ sup.at = "say" /\ life = NoLife
    BY <1>0, <1>2 DEF SayRecycled, SayLost, SupGoes, tasks, Stored
  <2>2. Same /\ sup'.at \in {"connecting", "backoff", "gone"}
    <3>1. CASE SayRecycled
      BY <1>g, <3>1, SupPlaces DEF SayRecycled
    <3>2. CASE SayLost
      BY <1>g, <3>2, SupPlaces DEF SayLost
    <3>. QED BY <1>2, <3>1, <3>2
  <2>. QED BY <1>0, <2>1, <2>2, SupKeepsHands
<1>3. CASE BackoffElapses \/ SayConnecting
  <2>1. Frame /\ sup.at \in {"backoff", "connecting"} /\ life = NoLife
    BY <1>0, <1>3 DEF BackoffElapses, SayConnecting, SupWakes, SupGoes, tasks, Stored
  <2>2. sup'.at \in {"connecting", "dial"}
    <3>1. CASE BackoffElapses
      BY <1>g, <3>1, SupPlaces DEF BackoffElapses, SupWakes
    <3>2. CASE SayConnecting
      BY <1>0, <3>2 DEF SayConnecting, SupType
    <3>. QED BY <1>3, <3>1, <3>2
  <2>. QED BY <1>0, <2>1, <2>2, SupKeepsHands
<1>4. CASE DialGoes
  <2>1. /\ sup.at = "dial" /\ sup'.at = "shake" /\ sup'.mode = sup.mode /\ Same /\ ~sup.cut
        /\ Frame /\ (Quiet \/ sup.mode = "swap")
    BY <1>g, <1>4, SupPlaces DEF DialGoes, SupWakes, tasks
  <2>2. life = NoLife /\ ~closed
    BY <1>0, <1>a, <2>1 DEF Stored
  <2>3. sup'.mode # "swap" => (\A e \in Epochs : ~Linked(e)) /\ (\A c \in Controls : ~Alive(c))
    BY <2>1, <2>2, QuietNoTask
  <2>. QED BY <1>0, <2>1, <2>2, <2>3, SupKeepsHands
<1>5. CASE DialFails
  <2>1. /\ sup.at \in {"dial", "shake"} /\ sup'.at = "failed" /\ Same /\ Frame
    BY <1>g, <1>5, SupPlaces DEF DialFails, SupWakes, tasks
  <2>2. life = NoLife
    BY <1>0, <2>1 DEF Stored
  <2>. QED BY <1>0, <2>1, <2>2, SupKeepsHands
<1>6. CASE HandshakeDone
  <2>1. /\ sup.at = "shake" /\ sup'.at = "spawn" /\ Same /\ ~sup.cut /\ Frame /\ Quiet
    BY <1>g, <1>6, SupPlaces DEF HandshakeDone, SupWakes, tasks
  <2>2. life = NoLife /\ ~closed
    BY <1>0, <1>a, <2>1 DEF Stored
  <2>3. (\A e \in Epochs : ~Linked(e)) /\ (\A c \in Controls : ~Alive(c))
    BY <2>1, <2>2, QuietNoTask
  <2>. QED BY <1>0, <2>1, <2>2, <2>3, SupKeepsHands
<1>7. CASE SayUnavailable
  <2>1. /\ sup.at = "failed" /\ sup'.at = "counting" /\ Same /\ Frame
    BY <1>g, <1>7, SupPlaces DEF SayUnavailable, tasks
  <2>2. life = NoLife
    BY <1>0, <2>1 DEF Stored
  <2>. QED BY <1>0, <2>1, <2>2, SupKeepsHands
<1>13. CASE SayFailure
  <2>1. /\ sup.at = "counting" /\ sup' = [sup EXCEPT !.at = AfterFailure, !.mode = "retry"] /\ Frame
    BY <1>13 DEF SayFailure, tasks
  <2>2. Same /\ sup'.at \in {"backoff", "gone"} /\ life = NoLife
    BY <1>0, <2>1, SupPlaces DEF SupType, Stored
  <2>. QED BY <1>0, <2>1, <2>2, SupKeepsHands
<1>8. CASE SayOpened
  <2> DEFINE to == IF sup.opts.policy = "Off" THEN "clock" ELSE "control"
  <2>1. to \in {"clock", "control"} /\ SupGoes("opened", to) /\ Frame
    BY <1>8 DEF SayOpened, tasks
  <2> HIDE DEF to
  <2>2. sup.at = "opened" /\ sup'.at \in {"clock", "control"} /\ Same
    BY <1>g, <2>1, SupPlaces
  <2>3. life.loop = Nobody /\ life.control = Nobody /\ \A c \in Controls : ~Alive(c)
    BY <1>0, <2>2 DEF Stored, Single
  <2>. QED BY <1>0, <2>1, <2>2, <2>3, SupKeepsHands
<1>9. CASE ControlOpened
  <2>1. sup.at = "await" /\ sup'.at = "keep" /\ Same /\ Frame
    BY <1>g, <1>9, SupPlaces DEF ControlOpened, SupWakes, tasks
  <2>2. life.loop = Nobody /\ life.control = Nobody
    BY <1>0, <2>1 DEF Stored
  <2>. QED BY <1>0, <2>1, <2>2, SupKeepsHands
<1>10. CASE ControlFailed
  <2>1. /\ sup.at = "await" /\ sup'.at = "undo" /\ Same /\ Frame /\ ~sup.cut
        /\ controls[sup.task].opened = "err"
    BY <1>g, <1>10, SupPlaces DEF ControlFailed, SupWakes, tasks
  <2>2. life.loop = Nobody /\ life.control = Nobody /\ ~closed
    BY <1>0, <1>a, <2>1 DEF Stored
  <2>3. \A c \in Controls : Alive(c) => controls[c].cut
    BY <2>1, <2>2, FailedNoTask
  <2>. QED BY <1>0, <2>1, <2>2, <2>3, SupKeepsHands
<1>11. CASE UndoJoined \/ UndoBump \/ UndoSay
  <2>1. /\ Frame /\ Same /\ sup.at \in {"undoAwait", "undoBump", "undoSay"}
        /\ sup'.at \in {"undoBump", "undoSay", "failed", "gone"}
    <3>1. CASE UndoJoined
      BY <1>g, <3>1, SupPlaces DEF UndoJoined, SupWakes, tasks
    <3>2. CASE UndoBump
      BY <1>g, <3>2, SupPlaces DEF UndoBump, tasks
    <3>3. CASE UndoSay /\ sup.mode = "first"
      BY <1>g, <3>3, SupPlaces DEF UndoSay, tasks
    <3>4. CASE UndoSay /\ sup.mode # "first"
      BY <1>g, <3>4, SupPlaces DEF UndoSay, tasks
    <3>. QED BY <1>11, <3>1, <3>2, <3>3, <3>4
  <2>2. life = NoLife
    BY <1>0, <2>1 DEF Stored
  <2>. QED BY <1>0, <2>1, <2>2, SupKeepsHands
<1>12. CASE SupUnwinds
  <2>1. /\ sup.cut /\ sup' = [sup EXCEPT !.at = "gone", !.task = Nobody] /\ Frame
    BY <1>12 DEF SupUnwinds, tasks
  <2>2. sup'.at = "gone" /\ closed /\ life = NoLife /\ sup'.epoch = sup.epoch
    BY <1>0, <2>1 DEF Ahead, SupType, Stored
  <2>3. Stored'
    BY <1>0, <2>1, <2>2 DEF Stored, NoLife
  <2>4. Handles'
    BY <1>0, <2>1, <2>2 DEF Handles, Alive
  <2>5. Single'
    BY <1>0, <2>1, <2>2 DEF Single, Alive, Linked
  <2>. QED BY <2>3, <2>4, <2>5
<1>. QED BY <1>1, <1>2, <1>3, <1>4, <1>5, <1>6, <1>7, <1>8, <1>9, <1>10, <1>11, <1>12, <1>13

\* What has no element but two has two at most.
LEMMA PairAtMostTwo ==
  ASSUME NEW S, NEW a, NEW b, S \subseteq {a, b}
  PROVE  Cardinality(S) <= 2
<1>1. IsFiniteSet({a}) /\ Cardinality({a}) = 1
  BY FS_Singleton
<1>2. /\ IsFiniteSet({a} \union {b})
      /\ Cardinality({a} \union {b}) = IF b \in {a} THEN Cardinality({a}) ELSE Cardinality({a}) + 1
  BY <1>1, FS_AddElement
<1>3. {a, b} = {a} \union {b}
  OBVIOUS
<1>4. IsFiniteSet({a, b}) /\ Cardinality({a, b}) \in {1, 2}
  BY <1>1, <1>2, <1>3
<1>5. Cardinality(S) <= Cardinality({a, b}) /\ IsFiniteSet(S)
  BY <1>4, FS_Subset
<1>6. Cardinality(S) \in Nat
  BY <1>5, FS_CardinalityType
<1>. QED BY <1>4, <1>5, <1>6

\* The handles are given up, and what they were for is cut.
LEMMA AbortedAll ==
  ASSUME HInv, AbortLinks
  PROVE  /\ \A e \in Epochs : streams'[e] # "up" /\ (Linked(e)' => Linked(e))
         /\ \A e \in Epochs : loops'[e].at # "on"
         /\ \A e \in Epochs : loops'[e].at = "storing" => loops[e].at = "storing"
         /\ \A c \in Controls : /\ Alive(c)' <=> Alive(c)
                                /\ Alive(c) /\ (controls[c].cut \/ c = life.control) => controls'[c].cut
         /\ life' = NoLife
<1>1. TypeOK /\ Handles
  BY DEF HInv, CInv, GInv
<1>2. /\ streams \in StreamsType /\ loops \in LoopsType
  BY <1>1, TypeParts
<1>3. ASSUME NEW e \in Epochs PROVE streams'[e] # "up" /\ (Linked(e)' => Linked(e))
  <2>1. streams'[e] = IF e = life.stream /\ streams[e] = "up" THEN "cut" ELSE streams[e]
    BY DEF AbortLinks, CutStream
  <2>. QED BY <1>1, <2>1 DEF Handles, Linked
<1>4. ASSUME NEW e \in Epochs
      PROVE  loops'[e].at # "on" /\ (loops'[e].at = "storing" => loops[e].at = "storing")
  <2>1. loops'[e] = IF e = life.loop /\ loops[e].at = "on"
                    THEN [loops[e] EXCEPT !.at = "gone"] ELSE loops[e]
    BY DEF AbortLinks
  <2>2. loops[e].at = "on" => e = life.loop
    BY <1>1 DEF Handles
  <2>3. loops[e].at = "on" => loops'[e].at = "gone"
    BY <1>2, <2>1, <2>2 DEF LoopsType
  <2>4. loops[e].at # "on" => loops'[e] = loops[e]
    BY <2>1
  <2>. QED BY <2>3, <2>4
<1>5. \A c \in Controls :
        /\ controls'[c].at = controls[c].at
        /\ controls'[c].cut = (controls[c].cut \/ (c = life.control /\ controls[c].at # "gone"))
  BY <1>1, Aborted
<1>6. life' = NoLife
  BY DEF AbortLinks
<1>7. \A c \in Controls : /\ Alive(c)' <=> Alive(c)
                          /\ Alive(c) /\ (controls[c].cut \/ c = life.control) => controls'[c].cut
  BY <1>5 DEF Alive
<1>. QED BY <1>3, <1>4, <1>6, <1>7

LEMMA AbortKeepsHands ==
  ASSUME HInv, AbortLinks, \A e \in Epochs : loops[e].at # "storing",
         \/ closed' /\ sup'.at = sup.at /\ sup'.mode = sup.mode
         \/ /\ sup'.at \in {"say", "undoAwait"}
            /\ \A c \in Controls : Alive(c) => controls[c].cut \/ c = life.control
  PROVE  Stored' /\ Handles' /\ Single'
<1>1. Single /\ Stored
  BY DEF HInv
<1>2. /\ \A e \in Epochs : streams'[e] # "up" /\ (Linked(e)' => Linked(e))
      /\ \A e \in Epochs : loops'[e].at \notin {"on", "storing"}
      /\ \A c \in Controls : Alive(c)' <=> Alive(c)
      /\ \A c \in Controls : Alive(c) /\ (controls[c].cut \/ c = life.control) => controls'[c].cut
      /\ life' = NoLife
  BY AbortedAll
<1>3. Stored'
  BY <1>2 DEF Stored, NoLife
<1>4. Handles'
  BY <1>2 DEF Handles
<1>5. Single'
  BY <1>1, <1>2 DEF Single
<1>. QED BY <1>3, <1>4, <1>5

LEMMA AbortingSteps ==
  ASSUME HInv, ~Threads,
         \/ AbortLife \/ UndoAbort \/ \E how \in {"close", "drop"} : CloseTakes(how)
  PROVE  Stored' /\ Handles' /\ Single'
<1>0. /\ CInv /\ TypeOK /\ Handles /\ sup \in SupType /\ AbortLinks
      /\ \A e \in Epochs : loops[e].at # "storing"
  <2>1. MayRun(<<"supervise">>) \/ MayRun(<<"close">>)
    BY DEF AbortLife, SupGoes, UndoAbort, CloseTakes
  <2>2. \A e \in Epochs : loops[e].at # "storing"
    BY <2>1, Alone DEF Idle
  <2>. QED BY <2>2, TypeParts DEF HInv, CInv, GInv, AbortLife, UndoAbort, CloseTakes
<1>1. CASE AbortLife
  <2>1. sup.at = "abort" /\ sup'.at = "say"
    BY <1>0, <1>1, SupPlaces, SupTyped DEF AbortLife
  <2>2. ~closed
    BY <1>0, <2>1, SupTurn DEF SupRuns
  <2>3. \A c \in Controls : Alive(c) => c = life.control
    BY <1>0, <2>1, <2>2 DEF Handles, InHand
  <2>. QED BY <1>0, <2>1, <2>3, AbortKeepsHands
<1>2. CASE UndoAbort
  <2>1. sup.at = "undo" /\ sup'.at = "undoAwait"
    BY <1>0, <1>2 DEF UndoAbort, SupType
  <2>2. ~closed
    BY <1>0, <2>1, SupTurn DEF SupRuns
  <2>3. \A c \in Controls : Alive(c) => controls[c].cut
    BY <2>1, <2>2, FailedNoTask
  <2>. QED BY <1>0, <2>1, <2>3, AbortKeepsHands
<1>3. CASE \E how \in {"close", "drop"} : CloseTakes(how)
  <2>1. closed' /\ sup'.at = sup.at /\ sup'.mode = sup.mode
    BY <1>0, <1>3 DEF CloseTakes, SupType
  <2>. QED BY <1>0, <2>1, AbortKeepsHands
<1>. QED BY <1>1, <1>2, <1>3

\* start_life stores a handle, and goes on.
LEMMA StartingSteps ==
  ASSUME HInv, ~Threads, SpawnStream \/ StartControl \/ KeepControl \/ StartLoop \/ StartClock
  PROVE  Stored' /\ Handles' /\ Single'
<1>0. /\ CInv /\ TypeOK /\ Stored /\ Handles /\ Single
      /\ sup \in SupType /\ life \in LifeType /\ streams \in StreamsType /\ loops \in LoopsType
      /\ clocks \in ClocksType /\ sup.epoch \in Epochs /\ Nobody \notin Epochs /\ Nobody \notin Controls
  BY TypeParts, SupFields, Numbers DEF HInv, CInv, GInv
<1>1. /\ ~closed /\ sup.at \in {"spawn", "control", "keep", "loop", "clock"}
      /\ \A e \in Epochs : loops[e].at # "storing"
  <2>1. MayRun(<<"supervise">>) /\ sup.at \in {"spawn", "control", "keep", "loop", "clock"}
    BY DEF SpawnStream, StartControl, KeepControl, StartLoop, StartClock, SupGoes
  <2>2. \A e \in Epochs : loops[e].at # "storing"
    BY <2>1, Alone DEF Idle
  <2>3. ~closed
    BY <1>0, <2>1, SupTurn DEF SupRuns
  <2>. QED BY <2>1, <2>2, <2>3
<1>2. CASE SpawnStream
  <2>1. /\ sup.at = "spawn" /\ sup'.at = "opened" /\ sup'.mode = sup.mode /\ sup'.epoch = sup.epoch
        /\ UNCHANGED <<controls, loops, closed>>
        /\ streams' = [streams EXCEPT ![sup.epoch] = "up"]
        /\ life' = [life EXCEPT !.stream = sup.epoch]
    BY <1>0, <1>2, SupPlaces, SupTyped DEF SpawnStream
  <2>2. /\ \A e \in Epochs : streams'[e] = IF e = sup.epoch THEN "up" ELSE streams[e]
        /\ life'.stream = sup.epoch /\ life'.control = life.control /\ life'.loop = life.loop
    BY <1>0, <2>1 DEF StreamsType, LifeType
  <2>3. /\ life = NoLife /\ (\A e \in Epochs : ~Linked(e)) /\ \A c \in Controls : ~Alive(c)
    BY <1>0, <2>1 DEF Stored, Single
  <2>4. life.loop = Nobody /\ life.control = Nobody
    BY <2>3 DEF NoLife
  <2>5. \A c \in Controls : ~Alive(c)'
    BY <2>1, <2>3 DEF Alive
  <2>6. \A e \in Epochs : streams'[e] # "cut" /\ (Linked(e)' => e = sup.epoch)
    BY <2>2, <2>3 DEF Linked
  <2>7. \A e \in Epochs : loops[e].at \notin {"on", "storing"}
    BY <1>0, <2>4 DEF Handles
  <2>8. Stored'
    BY <1>1, <2>1, <2>2, <2>4 DEF Stored
  <2>9. Handles'
    <3>1. \A e \in Epochs : streams'[e] = "up" => life'.stream = e
      BY <2>2, <2>6 DEF Linked
    <3>. QED BY <2>1, <2>5, <2>6, <2>7, <3>1 DEF Handles
  <2>10. Single'
    BY <2>1, <2>5, <2>6 DEF Single
  <2>. QED BY <2>8, <2>9, <2>10
<1>3. CASE StartControl
  <2> DEFINE to == IF sup.opts.policy = "Required" THEN "await" ELSE "keep"
  <2>1. /\ sup.at = "control" /\ sup' = [sup EXCEPT !.at = to, !.task = NewTask]
        /\ to \in {"await", "keep"} /\ SpawnControl(NewTask, sup.epoch)
        /\ UNCHANGED <<streams, loops, closed, life>>
    BY <1>3 DEF StartControl
  <2> HIDE DEF to
  <2>2. sup'.at \in {"await", "keep"} /\ sup'.task = NewTask /\ sup'.epoch = sup.epoch
    BY <1>0, <2>1 DEF SupType
  <2>3. /\ NewTask \in Controls
        /\ \A c \in Controls \ {NewTask} : controls'[c] = controls[c]
        /\ controls'[NewTask] = [epoch |-> sup.epoch, at |-> "spawned", say |-> "nothing",
                                 cut |-> FALSE, opened |-> "pending"]
    BY <1>0, <2>1, Spawned
  <2>4. controls'[NewTask].epoch = sup.epoch /\ controls'[NewTask].cut = FALSE
    BY <2>3
  <2>5. \A c \in Controls : Alive(c)' => c = NewTask
    BY <1>0, <2>1, <2>3 DEF Single, Alive
  <2>6. life.loop = Nobody /\ life.control = Nobody
    BY <1>0, <2>1 DEF Stored
  <2>7. \A e \in Epochs : streams'[e] # "cut" /\ loops'[e].at # "storing"
    BY <1>0, <1>1, <2>1 DEF Handles
  <2>8. Stored'
    BY <1>0, <1>1, <2>1, <2>2, <2>6 DEF Stored
  <2>9. Handles'
    <3>1. ASSUME NEW c \in Controls, Alive(c)'
          PROVE  InHand(c)' /\ controls'[c].epoch = sup'.epoch /\ ~controls'[c].cut
      BY <2>2, <2>4, <2>5, <3>1 DEF InHand
    <3>. QED BY <1>0, <2>1, <2>7, <3>1 DEF Handles
  <2>10. Single'
    BY <1>0, <2>1, <2>2, <2>5 DEF Single, Linked
  <2>. QED BY <2>8, <2>9, <2>10
<1>4. CASE KeepControl
  <2> DEFINE to == IF Reopen THEN "loop" ELSE "clock"
  <2>1. /\ sup.at = "keep" /\ sup' = [sup EXCEPT !.at = to, !.task = Nobody]
        /\ to \in {"loop", "clock"} /\ life' = [life EXCEPT !.control = sup.task]
        /\ UNCHANGED <<streams, loops, controls, closed>>
    BY <1>4 DEF KeepControl, tasks
  <2> HIDE DEF to
  <2>2. sup'.at \in {"loop", "clock"} /\ sup'.epoch = sup.epoch
    BY <1>0, <2>1 DEF SupType
  <2>3. /\ life'.stream = life.stream /\ life'.loop = life.loop /\ life'.control = sup.task
        /\ life.loop = Nobody /\ life.control = Nobody
    BY <1>0, <2>1 DEF LifeType, Stored
  <2>4. \A c \in Controls : Alive(c)' <=> Alive(c)
    BY <2>1 DEF Alive
  <2>5. \A c \in Controls : InHand(c) => InHand(c)'
    BY <1>0, <1>1, <2>3 DEF InHand
  <2>6. Stored'
    BY <1>0, <1>1, <2>1, <2>2, <2>3 DEF Stored
  <2>7. Handles'
    BY <1>0, <1>1, <2>1, <2>2, <2>3, <2>4, <2>5 DEF Handles
  <2>8. Single'
    BY <1>0, <2>1, <2>2, <2>4 DEF Single, Linked
  <2>. QED BY <2>6, <2>7, <2>8
<1>5. CASE StartLoop
  <2>1. /\ sup.at = "loop" /\ sup'.at = "clock" /\ sup'.epoch = sup.epoch
        /\ loops' = [loops EXCEPT ![sup.epoch].at = "on"]
        /\ life' = [life EXCEPT !.loop = sup.epoch]
        /\ UNCHANGED <<streams, controls, closed>>
    BY <1>0, <1>5, SupPlaces, SupTyped DEF StartLoop
  <2>2. /\ life'.stream = life.stream /\ life'.control = life.control /\ life'.loop = sup.epoch
        /\ life.loop = Nobody
    BY <1>0, <2>1 DEF LifeType, Stored
  <2>3. /\ \A e \in Epochs : e # sup.epoch => loops'[e] = loops[e]
        /\ loops'[sup.epoch].at = "on"
    BY <1>0, <2>1 DEF LoopsType
  <2>4. \A e \in Epochs : loops[e].at \notin {"on", "storing"}
    BY <1>0, <2>2 DEF Handles
  <2>5. \A c \in Controls : Alive(c)' <=> Alive(c)
    BY <2>1 DEF Alive
  <2>6. \A c \in Controls : InHand(c) => InHand(c)'
    BY <1>0, <1>1, <2>1, <2>2 DEF InHand
  <2>7. Stored'
    BY <1>0, <1>1, <2>1, <2>2 DEF Stored
  <2>8. Handles'
    BY <1>0, <1>1, <2>1, <2>2, <2>3, <2>4, <2>5, <2>6 DEF Handles
  <2>9. Single'
    BY <1>0, <2>1, <2>5 DEF Single, Linked
  <2>. QED BY <2>7, <2>8, <2>9
<1>6. CASE StartClock
  <2>1. /\ sup.at = "clock" /\ sup' = [sup EXCEPT !.at = "recv", !.mode = "retry"]
        /\ life' = life \/ life' = [life EXCEPT !.clock = sup.epoch]
        /\ UNCHANGED <<streams, controls, loops, closed>>
    BY <1>6 DEF StartClock
  <2>2. sup'.at = "recv" /\ sup'.epoch = sup.epoch
    BY <1>0, <2>1 DEF SupType
  <2>3. life'.stream = life.stream /\ life'.control = life.control /\ life'.loop = life.loop
    BY <1>0, <2>1 DEF LifeType
  <2>4. \A c \in Controls : Alive(c)' <=> Alive(c)
    BY <2>1 DEF Alive
  <2>5. \A c \in Controls : InHand(c) => InHand(c)'
    BY <1>1, <2>1, <2>3 DEF InHand
  <2>6. Stored'
    BY <1>0, <1>1, <2>1, <2>2, <2>3 DEF Stored
  <2>7. Handles'
    BY <1>0, <1>1, <2>1, <2>2, <2>3, <2>4, <2>5 DEF Handles
  <2>8. Single'
    BY <1>0, <2>1, <2>2, <2>4 DEF Single, Linked
  <2>. QED BY <2>6, <2>7, <2>8
<1>. QED BY <1>2, <1>3, <1>4, <1>5, <1>6

\* The loop of the life starts an attempt when none is left, and stores its handle.
LEMMA LoopSteps ==
  ASSUME HInv, ~Threads, NEW e \in Epochs, RunLoop(e)
  PROVE  Stored' /\ Handles' /\ Single'
<1>0. /\ CInv /\ TypeOK /\ Claims /\ Stored /\ Handles /\ Single
      /\ life \in LifeType /\ loops \in LoopsType /\ Nobody \notin Epochs /\ Nobody \notin Controls
  BY TypeParts, Numbers DEF HInv, CInv, GInv
<1>1. /\ loops[e].at \in {"on", "storing"} /\ sup.at \notin SupRuns
      /\ UNCHANGED <<streams, sup, closed>>
  <2>1. Quiet \/ MayRun(<<"loop", e>>)
    BY DEF RunLoop, LoopTicks, LoopKeeps
  <2>2. sup.at \notin SupRuns
    BY <2>1, Alone DEF Idle
  <2>. QED BY <2>2 DEF RunLoop, LoopTicks, LoopKeeps
<1>2. /\ life.loop = e /\ ~closed /\ sup.epoch = e
      /\ sup.at \notin {"say", "backoff", "connecting", "dial", "shake", "spawn", "failed",
                        "counting", "undoAwait", "undoBump", "undoSay", "gone"}
      /\ sup.at \notin {"opened", "control", "await", "keep", "undo", "loop"}
      /\ \A f \in Epochs : loops[f].at \in {"on", "storing"} => f = e
  <2>1. life.loop = e /\ life # NoLife
    BY <1>0, <1>1 DEF Handles, NoLife
  <2>. QED BY <1>0, <2>1 DEF Handles, Stored
<1>3. CASE LoopTicks(e) /\ ~(epoch = e /\ tree.stream = "Open")
  <2>1. loops' = [loops EXCEPT ![e].at = "gone"] /\ UNCHANGED <<controls, life>> /\ loops[e].at = "on"
    BY <1>3 DEF LoopTicks
  <2>2. \A f \in Epochs : /\ loops'[f] = loops[f] \/ loops'[f].at = "gone"
                          /\ loops[f].at = "storing" => loops'[f] = loops[f]
    BY <1>0, <2>1 DEF LoopsType
  <2>. QED BY <1>0, <1>1, <2>1, <2>2, FewerKeep DEF Alive
<1>4. CASE LoopTicks(e) /\ epoch = e /\ tree.stream = "Open"
  <2>1. /\ Quiet /\ ControlDown /\ SpawnControl(NewTask, e) /\ UNCHANGED life
        /\ loops' = [loops EXCEPT ![e] = [at |-> "storing", task |-> NewTask]]
    BY <1>4 DEF LoopTicks
  <2>2. ASSUME NEW c \in Controls, Alive(c) PROVE FALSE
    <3>1. ~controls[c].cut /\ controls[c].at \notin {"spawned", "claiming"}
      <4>1. controls[c].at \notin ControlRuns
        BY <2>1, Alone DEF Idle
      <4>. QED BY <2>1, <2>2, <4>1 DEF Quiet, Alive, ControlRuns
    <3>2. controls[c].epoch = epoch
      BY <1>0, <1>2, <1>4, <2>2, <3>1 DEF Handles
    <3>3. Holder(c)
      BY <1>0, <2>2, <3>1, <3>2, OursIs DEF Ours, New, Alive
    <3>. QED BY <1>0, <1>2, <2>1, <3>3 DEF Claims, ControlDown
  <2>3. /\ NewTask \in Controls
        /\ \A c \in Controls \ {NewTask} : controls'[c] = controls[c]
        /\ controls'[NewTask] = [epoch |-> e, at |-> "spawned", say |-> "nothing",
                                 cut |-> FALSE, opened |-> "pending"]
    BY <1>0, <2>1, Spawned
  <2>4. controls'[NewTask].epoch = e /\ controls'[NewTask].cut = FALSE
    BY <2>3
  <2>5. \A c \in Controls : Alive(c)' => c = NewTask
    BY <2>2, <2>3 DEF Alive
  <2>6. /\ loops'[e].at = "storing" /\ loops'[e].task = NewTask
        /\ \A f \in Epochs : f # e => loops'[f] = loops[f]
    BY <1>0, <2>1 DEF LoopsType
  <2>7. \A f \in Epochs : loops'[f].at \in {"on", "storing"} => f = e
    BY <1>2, <2>6
  <2>8. Stored'
    BY <1>0, <1>1, <2>1 DEF Stored
  <2>9. Handles'
    <3>1. ASSUME NEW c \in Controls, Alive(c)'
          PROVE  InHand(c)' /\ controls'[c].epoch = sup'.epoch /\ ~controls'[c].cut
      BY <1>1, <1>2, <2>4, <2>5, <2>6, <3>1 DEF InHand
    <3>. QED BY <1>0, <1>1, <1>2, <2>1, <2>5, <2>6, <2>7, <3>1 DEF Handles
  <2>10. Single'
    BY <1>0, <1>1, <1>2, <2>5 DEF Single, Linked
  <2>. QED BY <2>8, <2>9, <2>10
<1>5. CASE LoopKeeps(e)
  <2>1. /\ loops[e].at = "storing" /\ UNCHANGED controls
        /\ life' = [life EXCEPT !.control = loops[e].task]
        /\ loops' = [loops EXCEPT ![e] = [at |-> "on", task |-> Nobody]]
    BY <1>5 DEF LoopKeeps
  <2>2. /\ life'.stream = life.stream /\ life'.loop = e /\ life'.control = loops[e].task
    BY <1>0, <1>2, <2>1 DEF LifeType
  <2>3. loops'[e].at = "on" /\ \A f \in Epochs : f # e => loops'[f] = loops[f]
    BY <1>0, <2>1 DEF LoopsType
  <2>4. \A f \in Epochs : loops'[f].at # "storing" /\ (loops'[f].at = "on" => f = e)
    BY <1>2, <2>3
  <2>5. \A c \in Controls : Alive(c)' <=> Alive(c)
    BY <2>1 DEF Alive
  <2>6. \A c \in Controls : Alive(c) => InHand(c)'
    BY <1>0, <2>1, <2>2 DEF Handles, InHand
  <2>7. Stored'
    BY <1>0, <1>1, <1>2, <2>2 DEF Stored
  <2>8. Handles'
    BY <1>0, <1>1, <2>1, <2>2, <2>4, <2>5, <2>6 DEF Handles
  <2>9. Single'
    BY <1>0, <1>1, <2>5 DEF Single, Linked
  <2>. QED BY <2>7, <2>8, <2>9
<1>. QED BY <1>3, <1>4, <1>5 DEF RunLoop

\* A clock is started for the life that is up, whose handle is then the clock's, and
\* stopped with it.
LEMMA ClockStays ==
  ASSUME ~Threads, Clients = {}, HInv, [Next]_vars
  PROVE  Clocked'
<1>0. /\ CInv /\ TypeOK /\ Stored /\ Clocked /\ sup \in SupType /\ life \in LifeType
      /\ clocks \in ClocksType /\ sup.epoch \in Epochs /\ Nobody \notin Epochs
  BY TypeParts, SupFields, Numbers DEF HInv, CInv, GInv
<1> DEFINE Same == sup'.epoch = sup.epoch
           Still == clocks' = clocks /\ life'.clock = life.clock
<1>s. ASSUME Still, Same \/ life = NoLife PROVE Clocked'
  BY <1>0, <1>s DEF Clocked, NoLife
<1>a. ASSUME AbortLinks PROVE Clocked'
  <2>1. life' = NoLife /\ \A e \in Epochs : clocks'[e] = IF e = life.clock THEN "gone" ELSE clocks[e]
    BY <1>a DEF AbortLinks
  <2>. QED BY <1>0, <2>1 DEF Clocked, NoLife
<1>g. ASSUME NEW from, NEW to \in SupAwaits \union SupRuns \union {"gone"}, SupGoes(from, to)
      PROVE  Same
  BY <1>0, <1>g, SupTyped
<1>1. CASE AbortLife \/ UndoAbort \/ \E how \in {"close", "drop"} : CloseTakes(how)
  BY <1>1, <1>a DEF AbortLife, UndoAbort, CloseTakes
<1>2. CASE RecvStale \/ SayRecycled \/ SayLost \/ BackoffElapses \/ DialGoes \/ DialFails
             \/ HandshakeDone
  <2>1. Still
    BY <1>2 DEF RecvStale, SayRecycled, SayLost, BackoffElapses, DialGoes, DialFails,
                HandshakeDone, tasks
  <2>2. Same
    BY <1>2, <1>g, SupPlaces DEF RecvStale, SayRecycled, SayLost, BackoffElapses, DialGoes,
                                 DialFails, HandshakeDone, SupWakes
  <2>. QED BY <1>s, <2>1, <2>2
<1>3. CASE SayUnavailable \/ ControlOpened \/ ControlFailed \/ UndoJoined \/ UndoBump
  <2>1. Still
    BY <1>3 DEF SayUnavailable, ControlOpened, ControlFailed, UndoJoined, UndoBump, tasks
  <2>2. Same
    BY <1>3, <1>g, SupPlaces DEF SayUnavailable, ControlOpened, ControlFailed, UndoJoined,
                                 UndoBump, SupWakes
  <2>. QED BY <1>s, <2>1, <2>2
<1>4. CASE RecvEnd \/ SayFailure \/ SupUnwinds
  <2>1. Still
    BY <1>4 DEF RecvEnd, SayFailure, SupUnwinds, tasks
  <2>2. Same
    BY <1>0, <1>4 DEF RecvEnd, SayFailure, SupUnwinds, SupType
  <2>. QED BY <1>s, <2>1, <2>2
<1>5. CASE SayConnecting
  <2>1. Still /\ sup.at = "connecting"
    BY <1>5 DEF SayConnecting, tasks
  <2>2. life = NoLife
    BY <1>0, <2>1 DEF Stored
  <2>. QED BY <1>s, <2>1, <2>2
<1>6. CASE SayOpened \/ UndoSay
  <2>1. Still
    BY <1>6 DEF SayOpened, UndoSay, tasks
  <2>2. CASE SayOpened
    <3> DEFINE to == IF sup.opts.policy = "Off" THEN "clock" ELSE "control"
    <3>1. to \in {"clock", "control"} /\ SupGoes("opened", to)
      BY <2>2 DEF SayOpened
    <3> HIDE DEF to
    <3>. QED BY <1>g, <1>s, <2>1, <3>1, SupPlaces
  <2>3. CASE UndoSay
    <3> DEFINE to == IF sup.mode = "first" THEN "gone" ELSE "failed"
    <3>1. to \in {"gone", "failed"} /\ SupGoes("undoSay", to)
      BY <2>3 DEF UndoSay
    <3> HIDE DEF to
    <3>. QED BY <1>g, <1>s, <2>1, <3>1, SupPlaces
  <2>. QED BY <1>6, <2>2, <2>3
<1>7. CASE SpawnStream \/ StartLoop
  <2>1. Still
    BY <1>0, <1>7 DEF SpawnStream, StartLoop, LifeType
  <2>2. Same
    BY <1>7, <1>g, SupPlaces DEF SpawnStream, StartLoop
  <2>. QED BY <1>s, <2>1, <2>2
<1>8. CASE StartControl
  <2>1. Still
    BY <1>8 DEF StartControl
  <2>2. Same
    BY <1>0, <1>8 DEF StartControl, SupType
  <2>. QED BY <1>s, <2>1, <2>2
<1>9. CASE KeepControl
  <2>1. Still
    BY <1>0, <1>9 DEF KeepControl, tasks, LifeType
  <2>2. Same
    BY <1>0, <1>9 DEF KeepControl, SupType
  <2>. QED BY <1>s, <2>1, <2>2
<1>10. CASE StartClock
  <2>1. Same
    BY <1>0, <1>10 DEF StartClock, SupType
  <2>2. CASE clocks' = [clocks EXCEPT ![sup.epoch] = "on"] /\ life' = [life EXCEPT !.clock = sup.epoch]
    <3>1. life'.clock = sup.epoch
      BY <1>0, <2>2 DEF LifeType
    <3>2. \A e \in Epochs : clocks'[e] = IF e = sup.epoch THEN "on" ELSE clocks[e]
      BY <1>0, <2>2 DEF ClocksType
    <3>. QED BY <1>0, <2>1, <3>1, <3>2 DEF Clocked
  <2>3. CASE UNCHANGED <<clocks, life>>
    BY <1>s, <2>1, <2>3
  <2>. QED BY <1>10, <2>2, <2>3 DEF StartClock
<1>11. CASE \E e \in Epochs : StreamEnds(e) \/ StreamUnwinds(e) \/ LoopTicks(e)
  BY <1>11, <1>s DEF StreamEnds, StreamUnwinds, LoopTicks, core
<1>12. CASE \E e \in Epochs : Ages(e)
  <2>1. PICK e \in Epochs : clocks' = [clocks EXCEPT ![e] = "gone"] /\ UNCHANGED <<life, sup>>
    BY <1>12 DEF Ages
  <2>2. \A f \in Epochs : clocks'[f] = "on" => clocks[f] = "on"
    BY <1>0, <2>1 DEF ClocksType
  <2>. QED BY <1>0, <2>1, <2>2 DEF Clocked
<1>13. CASE \E e \in Epochs : LoopKeeps(e)
  <2>1. PICK e \in Epochs : LoopKeeps(e)
    BY <1>13
  <2>2. Still /\ sup' = sup
    BY <1>0, <2>1 DEF LoopKeeps, LifeType
  <2>. QED BY <1>s, <2>2
<1>14. CASE \E c \in Controls : RunControl(c) \/ ControlEnds(c)
  <2>1. PICK c \in Controls : RunControl(c) \/ ControlEnds(c)
    BY <1>14
  <2>2. Ahead
    BY DEF HInv, CInv, GInv
  <2>3. UNCHANGED <<clocks, life, sup>>
    BY <1>0, <2>1, <2>2, ControlMoves
  <2>. QED BY <1>s, <2>3
<1>15. CASE GapPasses \/ CloseStep \/ UNCHANGED vars
  BY <1>15, <1>s DEF GapPasses, CloseStep, CloseBumps, CloseJoins, CloseSays, vars, tasks
<1>16. CASE Supervise
  BY <1>16, <1>1, <1>2, <1>3, <1>4, <1>5, <1>6, <1>7, <1>8, <1>9, <1>10 DEF Supervise
<1>. QED BY <1>1, <1>11, <1>12, <1>13, <1>14, <1>15, <1>16 DEF Next, RunLoop

LEMMA HandsKept ==
  ASSUME ~Threads, Clients = {}, HInv, [Next]_vars
  PROVE  HInv'
<1>1. CInv' /\ Clocked'
  BY OneThreadKept, ClockStays DEF HInv
<1>2. CASE UNCHANGED vars
  BY <1>1, <1>2, AsideKeepHands DEF HInv
<1>3. CASE Supervise
  <2>1. Stored' /\ Handles' /\ Single'
    BY <1>3, WalksKeepHands, AbortingSteps, StartingSteps DEF Supervise
  <2>. QED BY <1>1, <2>1 DEF HInv
<1>4. CASE \E e \in Epochs : StreamEnds(e) \/ StreamUnwinds(e) \/ Ages(e) \/ RunLoop(e)
  BY <1>1, <1>4, AsideKeepHands, LoopSteps DEF HInv
<1>5. CASE \E c \in Controls : RunControl(c) \/ ControlEnds(c)
  BY <1>1, <1>5, ControlsKeepHands DEF HInv
<1>6. CASE GapPasses \/ CloseStep
  BY <1>1, <1>6, AsideKeepHands DEF HInv
<1>7. CASE \E how \in {"close", "drop"} : CloseTakes(how)
  BY <1>1, <1>7, AbortingSteps DEF HInv
<1>. QED BY <1>2, <1>3, <1>4, <1>5, <1>6, <1>7 DEF Next

LEMMA BeginsInHand == ASSUME Init PROVE HInv
<1>1. CInv
  BY BeginsOneThread
<1>2. /\ \A e \in Epochs : streams[e] = "none" /\ loops[e].at = "none"
      /\ \A c \in Controls : controls[c].at = "gone"
      /\ life = NoLife /\ sup.at = "spawn" /\ \A e \in Epochs : clocks[e] = "none"
  BY DEF Init, NoControl
<1>3. Stored
  BY <1>2 DEF Stored, NoLife
<1>4. Handles
  BY <1>2 DEF Handles, Alive
<1>5. Single
  BY <1>2 DEF Single, Alive, Linked
<1>6. Clocked
  BY <1>2 DEF Clocked, NoLife
<1>. QED BY <1>1, <1>3, <1>4, <1>5, <1>6 DEF HInv

\* Where no client reopens the link, every task that has not been aborted is of the
\* life that is up and its handle is kept (model/mod.rs), and there is at most one
\* stream task and one control task.
THEOREM HandsInductive == ASSUME ~Threads, Clients = {} PROVE Spec => []HInv
<1>1. Init => HInv
  BY BeginsInHand
<1>2. HInv /\ [Next]_vars => HInv'
  BY HandsKept
<1>. QED BY <1>1, <1>2, PTL DEF Spec

\* abort_links (model/links.rs) leaves nothing behind: once the next life is up and
\* everyone has been polled, no stream, no loop, no clock, no attempt and no control
\* link is of an earlier life.
THEOREM OldIsGone == ASSUME ~Threads, Clients = {} PROVE Spec => []OldLifeGone
<1>1. HInv => OldLifeGone
  <2> SUFFICES ASSUME HInv, sup.at = "recv", Quiet
               PROVE  /\ \A e \in Epochs : e # epoch =>
                           /\ streams[e] \in {"none", "gone"}
                           /\ loops[e].at \in {"none", "gone"}
                           /\ clocks[e] \in {"none", "gone"}
                      /\ \A c \in Controls : controls[c].at # "gone" => controls[c].epoch = epoch
    BY DEF OldLifeGone
  <2>1. /\ GInv /\ TypeOK /\ Phases /\ Stored /\ Handles /\ Clocked
        /\ streams \in StreamsType /\ loops \in LoopsType /\ clocks \in ClocksType
    BY TypeParts DEF HInv, CInv, GInv
  <2>2. ~sup.cut
    BY DEF Quiet
  <2>3. ~closed /\ sup.epoch = epoch
    <3>1. ~closed
      BY <2>1, <2>2, SupAwake
    <3>. QED BY <2>1, <3>1 DEF Phases
  <2>4. ASSUME NEW e \in Epochs, e # epoch PROVE streams[e] \in {"none", "gone"}
    <3>1. streams[e] # "up"
      BY <2>1, <2>3, <2>4, Numbers DEF Handles, Stored
    <3>2. streams[e] # "cut"
      BY DEF Quiet
    <3>. QED BY <2>1, <3>1, <3>2 DEF StreamsType
  <2>6. ASSUME NEW e \in Epochs, e # epoch PROVE loops[e].at \in {"none", "gone"}
    <3>1. loops[e].at \notin {"on", "storing"}
      BY <2>1, <2>3, <2>6, Numbers DEF Handles, Stored
    <3>. QED BY <2>1, <3>1 DEF LoopsType
  <2>7. ASSUME NEW e \in Epochs, e # epoch PROVE clocks[e] \in {"none", "gone"}
    <3>1. clocks[e] # "on"
      BY <2>1, <2>3, <2>7, Numbers DEF Clocked
    <3>. QED BY <2>1, <3>1 DEF ClocksType
  <2>5. ASSUME NEW c \in Controls, controls[c].at # "gone" PROVE controls[c].epoch = epoch
    <3>1. ~controls[c].cut
      BY <2>5 DEF Quiet
    <3>. QED BY <2>1, <2>3, <2>5, <3>1 DEF Handles, Alive
  <2>. QED BY <2>4, <2>5, <2>6, <2>7
<1>. QED BY <1>1, HandsInductive, PTL

\* A socket of a life is opened when those of the one before are closed, whatever
\* is aborted, refused or ends meanwhile: never a third, but while a session is
\* being retired.
THEOREM AtMostTwo == ASSUME ~Threads, Clients = {} PROVE Spec => []NeverAThird
<1>1. HInv => NeverAThird
  <2> SUFFICES ASSUME HInv, sup.mode # "swap" PROVE Cardinality(Sockets) <= 2
    BY DEF NeverAThird
  <2>1. Single
    BY DEF HInv
  <2> DEFINE S == {<<"stream", e>> : e \in {f \in Epochs : streams[f] \in {"up", "cut"}}}
             C == {<<"control", c>> : c \in {d \in Controls : Holding(d)}}
  <2>2. \A c \in Controls : Holding(c) => Alive(c)
    BY DEF Holding, Alive
  <2>3. CASE sup.at \in {"shake", "spawn"}
    <3>1. S = {} /\ C = {}
      BY <2>1, <2>2, <2>3 DEF Single, Linked
    <3>2. Sockets = {<<"session", sup.epoch>>}
      BY <2>3, <3>1 DEF Sockets
    <3>. QED BY <3>2, PairAtMostTwo
  <2>4. CASE sup.at \notin {"shake", "spawn"}
    <3>1. Sockets = S \union C
      BY <2>4 DEF Sockets
    <3>2. PICK s : \A x \in S : x = s
      BY <2>1 DEF Single, Linked
    <3>3. PICK c : \A x \in C : x = c
      BY <2>1, <2>2 DEF Single
    <3>4. Sockets \subseteq {s, c}
      BY <3>1, <3>2, <3>3
    <3>. QED BY <3>4, PairAtMostTwo
  <2>. QED BY <2>3, <2>4
<1>. QED BY <1>1, HandsInductive, PTL
=============================================================================
