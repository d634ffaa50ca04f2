------------------------------ MODULE Requests -------------------------------
(***************************************************************************)
(* The request lane (lane.rs, and the pending entries of core.rs): callers  *)
(* take a permit, register what they wait for, put the question on the      *)
(* stream's queue and wait for a value at their key, from whoever says it,  *)
(* or for the timeout.  The stream is lost and comes back meanwhile, and a  *)
(* caller may be dropped at any await.                                      *)
(*                                                                         *)
(* A value is the number of writes (set_param) that the device had applied  *)
(* to its key when it said it.                                              *)
(***************************************************************************)
EXTENDS Naturals, Sequences, FiniteSets

CONSTANTS
  Requests,   \* the calls, each made once
  Keys,       \* PendingKey
  Key,        \* what each call asks for
  Permits,    \* MAX_IN_FLIGHT_REQUESTS
  QueueSize,  \* COMMAND_QUEUE
  MaxWrites,  \* bound: writes to each key
  MaxPushes,  \* bound: what the device says unasked
  MaxLives    \* bound: lives of the stream

ASSUME RequestsAssumption ==
  /\ Key \in [Requests -> Keys] /\ Requests \intersect Keys = {}
  /\ Permits \in Nat \ {0} /\ QueueSize \in Nat \ {0}
  /\ MaxWrites \in Nat /\ MaxPushes \in Nat /\ MaxLives \in Nat \ {0}

VARIABLES
  at,       \* where each call is
  slot,     \* its oneshot: nothing yet, a value, or the sender dropped
  line,     \* who waits for a permit: tokio's semaphore is fair
  pending,  \* Core.pending: the calls registered
  life,     \* the stream: its epoch, and whether it is up, or torn down but
            \* still Open in the tree (ending), or down
  queue,    \* its command queue: calls and, for a write, keys
  inbox,    \* what the device has yet to read
  stream,   \* what the device said on the stream
  aside,    \* ... and on the control link, the dump's copies included
  dev,      \* the writes applied to each key
  \* Kept for the properties.
  via,      \* the life whose queue took each question
  heard,    \* the life in which each slot was filled
  written,  \* the writes to each key put on the queue
  behind,   \* how many of them had been when each call was made
  pushes

device == <<inbox, stream, aside, dev, pushes>>
calls  == <<at, slot, line, pending>>
kept   == <<via, heard, behind>>
vars   == <<calls, life, queue, device, kept, written>>

Values == 0 .. MaxWrites
Lives  == 1 .. MaxLives
Said   == [key : Keys, value : Values]

Empty  == [is |-> "empty", value |-> 0]
Closed == [is |-> "closed", value |-> 0]

TypeOK ==
  /\ at \in [Requests -> {"idle", "permit", "granted", "send", "reply",
                          "answered", "timeout", "disconnected", "cancelled"}]
  /\ slot \in [Requests -> {Empty, Closed} \union [is : {"value"}, value : Values]]
  /\ line \in Seq(Requests) /\ pending \subseteq Requests
  /\ life \in [epoch : Lives, is : {"up", "ending", "down"}]
  /\ queue \in Seq(Requests \union Keys) /\ Len(queue) <= QueueSize
  /\ inbox \in Seq(Requests \union Keys)
  /\ stream \in Seq(Said) /\ aside \in Seq(Said)
  /\ dev \in [Keys -> Values] /\ written \in [Keys -> Values]
  /\ via \in [Requests -> Lives \union {0}]
  /\ heard \in [Requests -> Lives \union {0}]
  /\ behind \in [Requests -> Values] /\ pushes \in 0 .. MaxPushes

Init ==
  /\ at = [r \in Requests |-> "idle"] /\ slot = [r \in Requests |-> Empty]
  /\ line = <<>> /\ pending = {}
  /\ life = [epoch |-> 1, is |-> "up"]
  /\ queue = <<>> /\ inbox = <<>> /\ stream = <<>> /\ aside = <<>>
  /\ dev = [k \in Keys |-> 0] /\ written = [k \in Keys |-> 0]
  /\ via = [r \in Requests |-> 0]
  /\ heard = [r \in Requests |-> 0]
  /\ behind = [r \in Requests |-> 0] /\ pushes = 0

-----------------------------------------------------------------------------
(***************************************************************************)
(* A call.                                                                  *)
(***************************************************************************)

Goes(r, to) == at' = [at EXCEPT ![r] = to]

\* A call is over, and what was kept of it is forgotten.
Ends(r, to) ==
  /\ Goes(r, to)
  /\ slot' = [slot EXCEPT ![r] = Empty] /\ via' = [via EXCEPT ![r] = 0]
  /\ heard' = [heard EXCEPT ![r] = 0] /\ behind' = [behind EXCEPT ![r] = 0]

\* Mutant: a timeout keeps its permit.
Holders_Timeout ==
  {r \in Requests : at[r] \in {"granted", "send", "reply", "timeout"}}

\* Who holds a permit: it comes back when the call is over or dropped.
Holders == {r \in Requests : at[r] \in {"granted", "send", "reply"}}

\* Mutant: the queue has no bound.
HasRoom_Always == TRUE

HasRoom == Len(queue) < QueueSize

\* start: the stream's state in the tree, then a permit.
Calls(r) ==
  /\ at[r] = "idle" /\ life.is # "down"
  /\ Goes(r, "permit") /\ line' = Append(line, r)
  /\ behind' = [behind EXCEPT ![r] = written[Key[r]]]
  /\ UNCHANGED <<slot, pending, life, queue, device, via, heard, written>>

CallsDown(r) ==
  /\ at[r] = "idle" /\ life.is = "down"
  /\ Goes(r, "disconnected")
  /\ UNCHANGED <<slot, line, pending, life, queue, device, kept, written>>

Granted(r) ==
  /\ at[r] = "permit" /\ Head(line) = r
  /\ Cardinality(Holders) < Permits
  /\ Goes(r, "granted") /\ line' = Tail(line)
  /\ UNCHANGED <<slot, pending, life, queue, device, kept, written>>

Registers(r) ==
  /\ at[r] = "granted"
  /\ Goes(r, "send") /\ pending' = pending \union {r}
  /\ UNCHANGED <<slot, line, life, queue, device, kept, written>>

\* Shared::enqueue: the current life's queue, which this call found at `via`.
FindsQueue(r) ==
  /\ at[r] = "send" /\ via[r] = 0 /\ life.is = "up"
  /\ via' = [via EXCEPT ![r] = life.epoch]
  /\ UNCHANGED <<calls, life, queue, device, heard, behind, written>>

QueueLives(r) == life.is = "up" /\ via[r] = life.epoch

Enqueues(r) ==
  /\ at[r] = "send" /\ QueueLives(r) /\ HasRoom
  /\ Goes(r, "reply") /\ queue' = Append(queue, r)
  /\ UNCHANGED <<slot, line, pending, life, device, kept, written>>

\* Mutant: an entry whose question was not sent is left behind.
Unregister_Kept(r) == pending

Unregister(r) == pending \ {r}

\* There is no queue, or it was closed while the call waited for room.
EnqueueFails(r) ==
  /\ at[r] = "send"
  /\ IF via[r] = 0 THEN life.is # "up" ELSE ~QueueLives(r)
  /\ Ends(r, "disconnected") /\ pending' = Unregister(r)
  /\ UNCHANGED <<line, life, queue, device, written>>

\* finish: the slot is looked at before the clock.
Answered(r) ==
  /\ at[r] = "reply" /\ slot[r] # Empty
  /\ Ends(r, IF slot[r] = Closed THEN "disconnected" ELSE "answered")
  /\ UNCHANGED <<line, pending, life, queue, device, written>>

TimesOut(r) ==
  /\ at[r] = "reply" /\ slot[r] = Empty
  /\ Ends(r, "timeout") /\ pending' = Unregister(r)
  /\ UNCHANGED <<line, life, queue, device, written>>

\* The line without r, who stood in it.
Without(r) ==
  LET i == CHOOSE j \in 1 .. Len(line) : line[j] = r
  IN  [j \in 1 .. Len(line) - 1 |-> IF j < i THEN line[j] ELSE line[j + 1]]

\* The caller's future is dropped: its permit comes back, its entry stays.
Cancelled(r) ==
  /\ at[r] \in {"permit", "send", "reply"}
  /\ Ends(r, "cancelled")
  /\ line' = IF at[r] = "permit" THEN Without(r) ELSE line
  /\ UNCHANGED <<pending, life, queue, device, written>>

\* set_param, put on the same queue.
Writes(k) ==
  /\ life.is = "up" /\ HasRoom /\ written[k] < MaxWrites
  /\ written' = [written EXCEPT ![k] = @ + 1]
  /\ queue' = Append(queue, k)
  /\ UNCHANGED <<calls, life, device, kept>>

-----------------------------------------------------------------------------
(***************************************************************************)
(* The wire, the device and the fold.                                       *)
(***************************************************************************)

\* run_stream writes the next command.
Sends ==
  /\ life.is = "up" /\ queue # <<>>
  /\ queue' = Tail(queue) /\ inbox' = Append(inbox, Head(queue))
  /\ UNCHANGED <<calls, life, stream, aside, dev, pushes, kept, written>>

Now(k) == [key |-> k, value |-> dev[k]]

\* The device applies a write without an echo, and answers a question or, at an
\* address it cannot answer, does not.
DeviceReads ==
  /\ inbox # <<>> /\ inbox' = Tail(inbox)
  /\ LET c == Head(inbox)
     IN  IF c \in Keys
         THEN dev' = [dev EXCEPT ![c] = @ + 1] /\ UNCHANGED stream
         ELSE /\ stream' \in {stream, Append(stream, Now(Key[c]))}
              /\ UNCHANGED dev
  /\ UNCHANGED <<calls, life, queue, aside, pushes, kept, written>>

\* It says a value unasked, on either wire.
DevicePushes(k) ==
  /\ life.is = "up" /\ pushes < MaxPushes /\ pushes' = pushes + 1
  /\ \/ stream' = Append(stream, Now(k)) /\ UNCHANGED aside
     \/ aside' = Append(aside, Now(k)) /\ UNCHANGED stream
  /\ UNCHANGED <<calls, life, queue, inbox, dev, kept, written>>

\* A oneshot whose receiver is gone takes nothing.
Told(waiters, what) ==
  slot' = [r \in Requests |-> IF r \in waiters /\ at[r] # "cancelled" THEN what
                             ELSE slot[r]]

\* settle_updates, deliver: every waiter on the key, and their entries go.
Settles(said) ==
  LET now == {r \in pending : Key[r] = said.key}
  IN  /\ pending' = pending \ now
      /\ Told(now, [is |-> "value", value |-> said.value])
      /\ heard' = [r \in Requests |-> IF slot'[r] # slot[r] THEN life.epoch
                                      ELSE heard[r]]

\* A value of a live life is folded, from one wire or the other.
Folds ==
  /\ life.is = "up"
  /\ \/ /\ stream # <<>> /\ stream' = Tail(stream) /\ Settles(Head(stream))
        /\ UNCHANGED aside
     \/ /\ aside # <<>> /\ aside' = Tail(aside) /\ Settles(Head(aside))
        /\ UNCHANGED stream
  /\ UNCHANGED <<at, line, life, queue, inbox, dev, pushes, via, behind,
                 written>>

-----------------------------------------------------------------------------
(***************************************************************************)
(* The life of the stream.                                                  *)
(***************************************************************************)

\* The tasks are aborted and the queue and the sockets go.  A write that the
\* device has not read is lost.
Loses ==
  /\ life.is = "up" /\ life' = [life EXCEPT !.is = "ending"]
  /\ queue' = <<>> /\ inbox' = <<>> /\ stream' = <<>> /\ aside' = <<>>
  /\ UNCHANGED <<calls, dev, pushes, kept, written>>

\* Mutant: the waiters of the old life are left waiting.
FailPending_None == UNCHANGED <<pending, slot>>

\* Mutant: the entries go and the senders do not.
FailPending_Silent == pending' = {} /\ UNCHANGED slot

\* fail_pending drops every sender.
FailPending ==
  /\ pending' = {}
  /\ Told(pending, Closed)

\* end_life.
EndLife ==
  /\ life.is = "ending" /\ life' = [life EXCEPT !.is = "down"]
  /\ FailPending
  /\ UNCHANGED <<at, line, queue, device, kept, written>>

\* The next life is up: after a cooldown, or where a session was retired as soon
\* as the next has shaken hands.  Registering and looking for the queue are two
\* locks with no await between, so only a thread held up for all of that could
\* still stand there, and such a call is left out.
Returns ==
  /\ life.is = "down" /\ life.epoch < MaxLives
  /\ \A r \in Requests : at[r] = "send" => via[r] # 0
  /\ life' = [epoch |-> life.epoch + 1, is |-> "up"]
  /\ written' = dev
  /\ UNCHANGED <<calls, queue, device, kept>>

Steps(r) ==
  \/ Granted(r) \/ Registers(r) \/ FindsQueue(r) \/ Enqueues(r)
  \/ EnqueueFails(r) \/ Answered(r) \/ TimesOut(r)

Next ==
  \/ \E r \in Requests :
       Calls(r) \/ CallsDown(r) \/ Steps(r) \/ Cancelled(r)
  \/ \E k \in Keys : Writes(k) \/ DevicePushes(k)
  \/ Sends \/ DeviceReads \/ Folds
  \/ Loses \/ EndLife \/ Returns

\* Tokio polls a call that can go on, its clock among what it waits for, and
\* the writer drains its queue or the socket ends.  The device owes nothing.
Fairness ==
  /\ \A r \in Requests : WF_vars(Steps(r))
  /\ WF_vars(Sends) /\ WF_vars(EndLife)

Spec == Init /\ [][Next]_vars /\ Fairness

-----------------------------------------------------------------------------
(***************************************************************************)
(* Properties.                                                              *)
(***************************************************************************)

\* An entry of the core has a caller that waits for it and has not been told,
\* or one that was dropped: register, unregister, deliver and fail_pending.
EntriesOwned ==
  \A r \in pending :
    /\ slot[r] = Empty
    /\ at[r] \in {"send", "reply"} \/ at[r] = "cancelled"

\* And a caller that waits without an entry has been told: no value or loss
\* passes it by.
NobodyForgotten ==
  \A r \in Requests :
    at[r] \in {"send", "reply"} /\ slot[r] = Empty => r \in pending

\* A question is never answered by a value of another life than the one whose
\* queue took it (end_life, fail_pending and the epoch of a fold).
OwnLifeAnswers ==
  [][\A r \in Requests : at[r] = "reply" /\ at'[r] = "answered" =>
       heard[r] = via[r]]_vars

Waiting(r) == at[r] \in {"send", "reply"}

Places == 1 .. Len(line)

\* What the proofs of these rest on.  The line holds those who wait for a
\* permit, each once.
Lined ==
  /\ \A r \in Requests : at[r] = "permit" <=> \E i \in Places : line[i] = r
  /\ \A i, j \in Places : line[i] = line[j] => i = j

OnTheWay(k) ==
  Cardinality({i \in 1 .. Len(queue) : queue[i] = k})
    + Cardinality({i \in 1 .. Len(inbox) : inbox[i] = k})

\* A write of this life is applied, or on its way; one of a life that is over
\* may be lost, and nothing of that life is under way.
Accounted ==
  /\ \A k \in Keys : dev[k] + OnTheWay(k) <= written[k]
  /\ life.is # "up" => queue = <<>> /\ inbox = <<>>

\* A call that waits for an answer was taken by a queue; one that has not been
\* told, by the queue of the life that is up or was until now.
TakenByThisLife ==
  \A r \in Requests :
    /\ at[r] = "reply" => via[r] # 0
    /\ via[r] # 0 => Waiting(r)
    /\ via[r] # 0 /\ slot[r] = Empty => via[r] = life.epoch /\ life.is # "down"

\* And a value in a slot is of the life that took, or may yet take, the
\* question; only those who wait have been told anything.
ToldByOwnLife ==
  \A r \in Requests :
    /\ slot[r] # Empty => Waiting(r)
    /\ slot[r].is = "value" => heard[r] = IF via[r] = 0 THEN life.epoch ELSE via[r]

IInv ==
  /\ TypeOK /\ Lined /\ Accounted
  /\ EntriesOwned /\ NobodyForgotten /\ TakenByThisLife /\ ToldByOwnLife

\* Every call ends, whatever the device says or does not: start and finish.
\* It needs a writer that goes on; a full queue has no timeout.
Resolves ==
  \A r \in Requests : at[r] = "permit" ~>
    at[r] \in {"answered", "timeout", "disconnected", "cancelled"}

\* request_param after set_param reads the write back (its doc: a push there
\* is equally current).  False: what was said before the write was applied, a
\* late reply, a push or the dump's copy, settles the question too.
ReadsBack ==
  [][\A r \in Requests : at[r] = "reply" /\ at'[r] = "answered" =>
       slot[r].value >= behind[r]]_vars

=============================================================================
