------------------------------- MODULE Ledger --------------------------------
(***************************************************************************)
(* The connection ledger of one peer (session.rs): who may dial, and when.  *)
(* A call to Session::connect takes the peer's turn, asks the ledger once   *)
(* when the cooldown will be over, sleeps until then, stamps the open and   *)
(* dials.  Sessions close whenever they like, and stamp that too.  A call   *)
(* may be dropped at any of its awaits.                                     *)
(*                                                                         *)
(* Instants are kept as ages, in units of the clock, and an age of Cooldown *)
(* stands for every older instant and for `never`.                          *)
(***************************************************************************)
EXTENDS Naturals, Sequences

CONSTANTS
  Dialers,   \* the calls to connect, each with the session it returns
  Nobody,    \* the turn is free
  Cooldown   \* CONNECTION_COOLDOWN_MS

ASSUME LedgerAssumption == Nobody \notin Dialers /\ Cooldown \in Nat

VARIABLES
  at,      \* where each call is, or its session
  turn,    \* who holds PeerEntry.turn
  queue,   \* who waits for it: tokio's mutex is fair
  left,    \* what is left of the holder's sleep
  touch,   \* PeerTouch: the ages of last_open and last_close
  syn,     \* the age of the last dial the device saw
  heard    \* the age of the close the holder counted from

vars == <<at, turn, queue, left, touch, syn, heard>>

Ages == 0 .. Cooldown

TypeOK ==
  /\ at \in [Dialers -> {"idle", "waiting", "sleeping", "dialing", "open"}]
  /\ turn \in Dialers \union {Nobody}
  /\ queue \in Seq(Dialers)
  /\ left \in Ages
  /\ touch \in [open : Ages, close : Ages]
  /\ syn \in Ages /\ heard \in Ages

Init ==
  /\ at = [d \in Dialers |-> "idle"]
  /\ turn = Nobody /\ queue = <<>> /\ left = 0
  /\ touch = [open |-> Cooldown, close |-> Cooldown]
  /\ syn = Cooldown /\ heard = Cooldown

-----------------------------------------------------------------------------
\* Mutant: only closes count.
ReadyIn_Closes(t) == Cooldown - t.close

\* Mutant: only opens count.
ReadyIn_Opens(t) == Cooldown - t.open

\* ready_at: the cooldown counts from the later event.
ReadyIn(t) == Cooldown - (IF t.open < t.close THEN t.open ELSE t.close)

\* Mutant: nothing serialises the wait and the dial.
MayTake_Anybody(d) == d \in Dialers

\* The turn goes to who has waited longest.
MayTake(d) == turn = Nobody /\ Head(queue) = d

\* A waiter that is dropped leaves the queue, and the others close up.
Without(i) ==
  [j \in 1 .. Len(queue) - 1 |-> IF j < i THEN queue[j] ELSE queue[j + 1]]

-----------------------------------------------------------------------------
\* connect() asks for the turn.
Asks(d) ==
  /\ at[d] = "idle"
  /\ at' = [at EXCEPT ![d] = "waiting"]
  /\ queue' = Append(queue, d)
  /\ UNCHANGED <<turn, left, touch, syn, heard>>

\* It has the turn, reads the ledger, and goes to sleep.
Takes(d) ==
  /\ at[d] = "waiting" /\ queue # <<>> /\ MayTake(d)
  /\ at' = [at EXCEPT ![d] = "sleeping"]
  /\ turn' = d /\ queue' = Tail(queue)
  /\ left' = ReadyIn(touch) /\ heard' = touch.close
  /\ UNCHANGED <<touch, syn>>

\* note_open, and the first packet.
Dials(d) ==
  /\ at[d] = "sleeping" /\ left = 0
  /\ at' = [at EXCEPT ![d] = "dialing"]
  /\ touch' = [touch EXCEPT !.open = 0] /\ syn' = 0
  /\ UNCHANGED <<turn, queue, left, heard>>

\* Mutant: a call that fails, or is dropped, keeps the turn.
Yields_OnSuccess(d, to) == IF to = "open" THEN Nobody ELSE turn

\* The guard of the turn drops when the call is over, one way or the other.
Yields(d, to) == IF turn = d THEN Nobody ELSE turn

Connected(d) ==
  /\ at[d] = "dialing"
  /\ at' = [at EXCEPT ![d] = "open"]
  /\ turn' = Yields(d, "open")
  /\ UNCHANGED <<queue, left, touch, syn, heard>>

\* Refused, or timed out: there is no session whose drop would be stamped.
DialFails(d) ==
  /\ at[d] = "dialing"
  /\ at' = [at EXCEPT ![d] = "idle"]
  /\ turn' = Yields(d, "idle")
  /\ UNCHANGED <<queue, left, touch, syn, heard>>

\* The future is dropped while it waits for the turn ...
DroppedWaiting(d) ==
  /\ at[d] = "waiting"
  /\ at' = [at EXCEPT ![d] = "idle"]
  /\ \E i \in 1 .. Len(queue) : queue[i] = d /\ queue' = Without(i)
  /\ UNCHANGED <<turn, left, touch, syn, heard>>

\* ... or while it has it.
Dropped(d) ==
  /\ at[d] \in {"sleeping", "dialing"}
  /\ at' = [at EXCEPT ![d] = "idle"]
  /\ turn' = Yields(d, "idle")
  /\ UNCHANGED <<queue, left, touch, syn, heard>>

\* Session::close, or its drop: the only place a close is stamped.
Closes(d) ==
  /\ at[d] = "open"
  /\ at' = [at EXCEPT ![d] = "idle"]
  /\ touch' = [touch EXCEPT !.close = 0]
  /\ UNCHANGED <<turn, queue, left, syn, heard>>

\* Mutant: an age is not saturated.
Older_Unbounded(age) == age + 1

Older(age) == IF age < Cooldown THEN age + 1 ELSE age

\* The clock.  A sleep never ends early; it may end late.
Tick ==
  /\ touch' = [open |-> Older(touch.open), close |-> Older(touch.close)]
  /\ syn' = Older(syn) /\ heard' = Older(heard)
  /\ left' = IF left > 0 THEN left - 1 ELSE 0
  /\ UNCHANGED <<at, turn, queue>>

Call(d) == Takes(d) \/ Dials(d) \/ Connected(d) \/ DialFails(d)

Next ==
  \/ \E d \in Dialers :
       Asks(d) \/ Call(d) \/ DroppedWaiting(d) \/ Dropped(d) \/ Closes(d)
  \/ Tick

\* Tokio polls a call that can go on; a dial has a timeout; time passes.
\* Nobody has to call, to drop a call, or to close.
Fairness == WF_vars(Tick) /\ \A d \in Dialers : WF_vars(Call(d))

Spec == Init /\ [][Next]_vars /\ Fairness

-----------------------------------------------------------------------------
(***************************************************************************)
(* Properties.                                                              *)
(***************************************************************************)

Goes == \E d \in Dialers : at[d] = "sleeping" /\ at'[d] = "dialing"

\* Two dials of one peer are a cooldown apart, however many calls race and
\* whichever of them fail or are dropped: connect's turn and ready_at.
DialsSpaced == [][Goes => syn = Cooldown]_vars

\* A dial keeps the cooldown after every close that was stamped before its
\* call had the turn: connect's reading of the ledger.
ClosesHeeded == [][Goes => heard = Cooldown]_vars

\* Every call to connect gets its turn, whatever becomes of those before it.
Served == \A d \in Dialers : at[d] = "waiting" ~> at[d] # "waiting"

\* What the proofs need: the sleep of the turn's holder covers what is left of
\* the cooldown, and nobody else can have dialed since.
IInv ==
  /\ TypeOK
  /\ \A d \in Dialers : at[d] \in {"sleeping", "dialing"} <=> turn = d
  /\ syn = touch.open
  /\ turn # Nobody /\ at[turn] = "sleeping" =>
       left + syn >= Cooldown /\ left + heard >= Cooldown

=============================================================================
