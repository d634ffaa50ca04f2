---------------------------- MODULE LedgerProofs -----------------------------
(***************************************************************************)
(* Proofs about the ledger, for every set of calls and every cooldown.      *)
(***************************************************************************)
EXTENDS Ledger, TLAPS

\* Closing up a queue leaves a queue of the same calls.
LEMMA WithoutType ==
  ASSUME queue \in Seq(Dialers), NEW i \in 1 .. Len(queue)
  PROVE  Without(i) \in Seq(Dialers)
  <1>1. Len(queue) - 1 \in Nat
    OBVIOUS
  <1>2. \A j \in 1 .. Len(queue) - 1 :
          (IF j < i THEN queue[j] ELSE queue[j + 1]) \in Dialers
    OBVIOUS
  <1>3. QED
    BY <1>1, <1>2 DEF Without

\* The sleep covers the cooldown after either stamp, and no more.
LEMMA ReadyInCovers ==
  ASSUME TypeOK
  PROVE  /\ ReadyIn(touch) \in Ages
         /\ ReadyIn(touch) + touch.open >= Cooldown
         /\ ReadyIn(touch) + touch.close >= Cooldown
  BY LedgerAssumption DEF TypeOK, ReadyIn, Ages

LEMMA OlderAges ==
  ASSUME NEW age \in Ages
  PROVE  /\ Older(age) \in Ages
         /\ \A l \in Nat : l + age >= Cooldown =>
              (IF l > 0 THEN l - 1 ELSE 0) + Older(age) >= Cooldown
  BY LedgerAssumption DEF Older, Ages

LEMMA InitOK == Init => IInv
  BY LedgerAssumption DEF Init, IInv, TypeOK, Ages

\* Every step keeps the types, who has the turn, and the cover of its sleep.
LEMMA StepOK == IInv /\ [Next]_vars => IInv'
  <1> SUFFICES ASSUME IInv, [Next]_vars PROVE IInv'
    OBVIOUS
  <1> USE LedgerAssumption
  <1>t. TypeOK
    BY DEF IInv
  <1>1. ASSUME NEW d \in Dialers, Asks(d) PROVE IInv'
    <2>1. queue' \in Seq(Dialers)
      BY <1>1, <1>t DEF Asks, TypeOK
    <2>2. QED
      BY <1>1, <2>1 DEF Asks, IInv, TypeOK, Ages
  <1>2. ASSUME NEW d \in Dialers, Takes(d) PROVE IInv'
    <2>1. queue' \in Seq(Dialers)
      BY <1>2, <1>t DEF Takes, TypeOK
    <2>2. turn = Nobody
      BY <1>2 DEF Takes, MayTake
    <2>3. TypeOK'
      BY <1>2, <2>1, <1>t, ReadyInCovers DEF Takes, TypeOK
    <2>4. (\A e \in Dialers : at[e] \in {"sleeping", "dialing"} <=> turn = e)'
      BY <1>2, <2>2 DEF Takes, IInv, TypeOK
    <2>5. (left + syn >= Cooldown /\ left + heard >= Cooldown)'
      BY <1>2, <1>t, ReadyInCovers DEF Takes, IInv
    <2>6. (syn = touch.open)'
      BY <1>2 DEF Takes, IInv
    <2>7. QED
      BY <2>3, <2>4, <2>5, <2>6 DEF IInv
  <1>3. ASSUME NEW d \in Dialers, Dials(d) PROVE IInv'
    BY <1>3 DEF Dials, IInv, TypeOK, Ages
  <1>4. ASSUME NEW d \in Dialers, Connected(d) PROVE IInv'
    BY <1>4 DEF Connected, Yields, IInv, TypeOK, Ages
  <1>5. ASSUME NEW d \in Dialers, DialFails(d) PROVE IInv'
    BY <1>5 DEF DialFails, Yields, IInv, TypeOK, Ages
  <1>6. ASSUME NEW d \in Dialers, DroppedWaiting(d) PROVE IInv'
    <2>1. queue' \in Seq(Dialers)
      BY <1>6, <1>t, WithoutType DEF DroppedWaiting, TypeOK
    <2>2. QED
      BY <1>6, <2>1 DEF DroppedWaiting, IInv, TypeOK, Ages
  <1>7. ASSUME NEW d \in Dialers, Dropped(d) PROVE IInv'
    BY <1>7 DEF Dropped, Yields, IInv, TypeOK, Ages
  <1>8. ASSUME NEW d \in Dialers, Closes(d) PROVE IInv'
    BY <1>8 DEF Closes, IInv, TypeOK, Ages
  <1>9. ASSUME Tick PROVE IInv'
    <2>1. TypeOK'
      <3>1. left' \in Ages
        BY <1>9, <1>t DEF Tick, TypeOK, Ages
      <3>2. touch.open \in Ages /\ touch.close \in Ages /\ syn \in Ages /\ heard \in Ages
        BY <1>t DEF TypeOK
      <3>3. touch' \in [open : Ages, close : Ages] /\ syn' \in Ages /\ heard' \in Ages
        BY <1>9, <3>2, OlderAges DEF Tick
      <3>4. QED
        BY <1>9, <1>t, <3>1, <3>3 DEF Tick, TypeOK
    <2>2. (syn = touch.open)'
      BY <1>9 DEF Tick, IInv
    <2>3. turn # Nobody /\ at[turn] = "sleeping" =>
            left' + syn' >= Cooldown /\ left' + heard' >= Cooldown
      <3>1. left \in Nat /\ syn \in Ages /\ heard \in Ages
        BY <1>t DEF TypeOK, Ages
      <3>2. QED
        BY <1>9, <3>1, OlderAges DEF Tick, IInv
    <2>4. QED
      BY <1>9, <2>1, <2>2, <2>3 DEF Tick, IInv
  <1>10. CASE UNCHANGED vars
    BY <1>10 DEF vars, IInv, TypeOK
  <1>11. QED
    BY <1>1, <1>2, <1>3, <1>4, <1>5, <1>6, <1>7, <1>8, <1>9, <1>10 DEF Next, Call

\* The invariant holds of every behaviour: connect_to_timeout holds the turn
\* across the wait and the dial, so nobody else can have dialed in between.
THEOREM Inductive == Spec => []IInv
  BY InitOK, StepOK, PTL DEF Spec

THEOREM TypeCorrect == Spec => []TypeOK
  <1>1. IInv => TypeOK
    BY DEF IInv
  <1>2. QED
    BY <1>1, Inductive, PTL

\* Only a sleeper whose sleep is over dials, and its sleep covered the cooldown.
LEMMA GoesCovered ==
  ASSUME IInv, [Next]_vars, Goes
  PROVE  syn = Cooldown /\ heard = Cooldown
  <1>1. PICK d \in Dialers : at[d] = "sleeping" /\ at'[d] = "dialing"
    BY DEF Goes
  <1>t. TypeOK
    BY DEF IInv
  <1>2. Dials(d)
    <2>1. CASE UNCHANGED vars \/ Tick
      BY <1>1, <2>1 DEF vars, Tick
    <2>2. CASE \E e \in Dialers : Asks(e) \/ DroppedWaiting(e) \/ Dropped(e) \/ Closes(e)
      BY <1>1, <1>t, <2>2 DEF Asks, DroppedWaiting, Dropped, Closes, TypeOK
    <2>3. CASE \E e \in Dialers : Takes(e) \/ Connected(e) \/ DialFails(e)
      BY <1>1, <1>t, <2>3 DEF Takes, Connected, DialFails, TypeOK
    <2>4. CASE \E e \in Dialers : Dials(e)
      BY <1>1, <1>t, <2>4 DEF Dials, TypeOK
    <2>5. QED
      BY <2>1, <2>2, <2>3, <2>4 DEF Next, Call
  <1>3. turn = d /\ left = 0
    BY <1>1, <1>2 DEF IInv, Dials
  <1>4. left + syn >= Cooldown /\ left + heard >= Cooldown
    BY <1>1, <1>3, LedgerAssumption DEF IInv
  <1>5. QED
    BY <1>3, <1>4, <1>t, LedgerAssumption DEF TypeOK, Ages

\* Two dials of a peer are a cooldown apart, for every number of calls: the
\* promise the device depends on.
THEOREM Spaced == Spec => DialsSpaced
  <1>1. IInv /\ [Next]_vars => [Goes => syn = Cooldown]_vars
    BY GoesCovered
  <1>2. QED
    BY <1>1, Inductive, PTL DEF Spec, DialsSpaced

\* A dial keeps the cooldown after every close its call had read of.
THEOREM Heeded == Spec => ClosesHeeded
  <1>1. IInv /\ [Next]_vars => [Goes => heard = Cooldown]_vars
    BY GoesCovered
  <1>2. QED
    BY <1>1, Inductive, PTL DEF Spec, ClosesHeeded

=============================================================================
