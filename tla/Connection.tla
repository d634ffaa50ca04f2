----------------------------- MODULE Connection -----------------------------
(***************************************************************************)
(* What a subscriber is promised of DeviceState.connection and .channels    *)
(* (state.rs, docs/11): which moves the stream, the control link and their  *)
(* summary make, whatever tasks, epochs and handles are behind them.        *)
(* Lifecycle implements it.                                                 *)
(***************************************************************************)
CONSTANTS
  Wanted,    \* a control link was asked for
  Retries,   \* a backoff is set
  Swaps      \* sessions are retired at an age

VARIABLES
  conn,      \* the connection
  stream,    \* the stream's channel
  control,   \* the control link's channel
  over       \* close() has said so, or connect() has failed

vars == <<conn, stream, control, over>>

Init == conn = "Disconnected" /\ stream = "Closed" /\ control = "Closed" /\ ~over

\* A session comes up: from connect(), or from a redial.
Opens ==
  /\ ~over
  /\ \/ stream = "Closed" /\ conn = "Disconnected"
     \/ stream = "Connecting" /\ conn = "Reconnecting"
  /\ control = "Closed"
  /\ stream' = "Open" /\ conn' = "Connected"
  /\ UNCHANGED <<control, over>>

\* An attempt at the control link leaves the connection as it was.
ControlDials ==
  /\ Wanted /\ stream = "Open" /\ control \in {"Closed", "Unavailable", "Lost"}
  /\ control' = "Connecting"
  /\ UNCHANGED <<conn, stream, over>>

ControlOpens ==
  /\ stream = "Open" /\ control = "Connecting"
  /\ control' = "Open" /\ conn' = "Connected"
  /\ UNCHANGED <<stream, over>>

ControlGoes ==
  /\ stream = "Open"
  /\ \/ control = "Connecting" /\ control' = "Unavailable"
     \/ control = "Open" /\ control' = "Lost"
  /\ conn' = "Degraded"
  /\ UNCHANGED <<stream, over>>

\* The stream ends, and the control link with it: lost, or retired.
Ends ==
  /\ stream = "Open"
  /\ control' = "Closed"
  /\ \/ stream' = "Lost" /\ conn' = IF Retries THEN "Reconnecting" ELSE "Disconnected"
     \/ Swaps /\ stream' = "Closed" /\ conn' = "Reconnecting"
  /\ UNCHANGED over

\* A redial; without a backoff only the one that follows a retired session.
Dials ==
  /\ conn = "Reconnecting" /\ stream \in {"Closed", "Lost", "Unavailable"}
  /\ Retries \/ stream = "Closed"
  /\ stream' = "Connecting"
  /\ UNCHANGED <<conn, control, over>>

DialFails ==
  /\ stream = "Connecting"
  /\ stream' = "Unavailable"
  /\ UNCHANGED <<conn, control, over>>

\* The swap has failed and no backoff is set: said after the channel's move.
GivesUp ==
  /\ ~Retries
  /\ conn = "Reconnecting" /\ stream = "Unavailable"
  /\ conn' = "Disconnected"
  /\ UNCHANGED <<stream, control, over>>

\* close(): for good.
Closes ==
  /\ ~over /\ over' = TRUE
  /\ conn' = "Disconnected" /\ stream' = "Closed" /\ control' = "Closed"

\* The control link was required of the first life, and failed: connect()
\* returns the error, and no model.
ConnectFails ==
  /\ ~over /\ over' = TRUE
  /\ stream = "Open" /\ control = "Unavailable"
  /\ stream' = "Lost" /\ control' = "Closed" /\ conn' = "Disconnected"

Next ==
  Opens \/ ControlDials \/ ControlOpens \/ ControlGoes \/ Ends \/ Dials
    \/ DialFails \/ GivesUp \/ Closes \/ ConnectFails

Spec == Init /\ [][Next]_vars

\* The connection summarises the channels: Connected or Degraded exactly while
\* the stream is open, Degraded only for want of a control link that was asked
\* for, Connected never without it.
Summarises ==
  /\ conn \in {"Connected", "Degraded"} <=> stream = "Open"
  /\ conn = "Degraded" =>
       Wanted /\ control \in {"Unavailable", "Lost", "Connecting"}
  /\ conn = "Connected" => control \notin {"Unavailable", "Lost"}

=============================================================================
