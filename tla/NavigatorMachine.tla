-------------------------- MODULE NavigatorMachine --------------------------
(***************************************************************************)
(* The pure Navigator state machine (`NavigatorState`, model/nav.rs): it    *)
(* knows nothing of time or sockets.  Each entry point maps a state to the  *)
(* next state and the set of actions the runtime must carry out.            *)
(*                                                                         *)
(* The source returns the actions as an ordered list.  No transition emits  *)
(* two actions whose order matters except Send before StartSettle, and that *)
(* order only matters when the send is refused; the runtime module treats   *)
(* that case itself, so a set is enough.                                    *)
(***************************************************************************)
EXTENDS Naturals

CONSTANTS
  Rig,     \* the flat rig indices callers aim at and the device reports
  None     \* Option::None

ASSUME RigAssumption ==
  /\ Rig \subseteq 0 .. 65535
  /\ None \notin Rig

MaybeRig == Rig \union {None}

MachineState ==
  [aim : MaybeRig, sent : MaybeRig, in_flight : BOOLEAN, awaiting : BOOLEAN]

\* NavigatorState::default().
Fresh == [aim |-> None, sent |-> None, in_flight |-> FALSE, awaiting |-> FALSE]

Send(i)     == [do |-> "Send", index |-> i]
StartSettle == [do |-> "StartSettle", index |-> None]
StartWindow == [do |-> "StartWindow", index |-> None]
Settled(i)  == [do |-> "Settled", index |-> i]
Dropped(i)  == [do |-> "Dropped", index |-> i]

Step(state, actions) == [state |-> state, actions |-> actions]

(***************************************************************************)
(* Send the aim if nothing is in flight and it is not the index already on  *)
(* the wire.  A send closes any open window.                                *)
(***************************************************************************)
Pump(s) ==
  IF s.in_flight \/ s.aim = None \/ s.sent = s.aim
    THEN Step(s, {})
    ELSE Step([s EXCEPT !.sent = s.aim, !.in_flight = TRUE, !.awaiting = FALSE],
              {Send(s.aim), StartSettle})

OnNavigate(s, target) == Pump([s EXCEPT !.aim = target])

\* Mutant: the settle forgets to open the window.
OnSettleElapsed_NoWindow(s) == Pump([s EXCEPT !.in_flight = FALSE])

(***************************************************************************)
(* The settle timer: the move is no longer in flight; an aim that is still  *)
(* the sent index opens its window; then whatever the aim is now is pumped. *)
(***************************************************************************)
OnSettleElapsed(s) ==
  LET opens  == s.aim # None /\ s.aim = s.sent
      pumped == Pump([s EXCEPT !.in_flight = FALSE, !.awaiting = @ \/ opens])
  IN  Step(pumped.state,
           pumped.actions \union (IF opens THEN {StartWindow} ELSE {}))

OnWindowElapsed(s) ==
  IF ~s.awaiting \/ s.aim = None
    THEN Step(s, {})
    ELSE Step([s EXCEPT !.aim = None, !.sent = None, !.awaiting = FALSE],
              {Dropped(s.aim)})

\* Mutant: a matching position ends the flight early.
OnPosition_EndsFlight(s, index) ==
  IF s.aim # index THEN Step(s, {}) ELSE Step(Fresh, {Settled(index)})

\* A position report retires only an equal aim; it never shortens the flight.
OnPosition(s, index) ==
  IF s.aim # index
    THEN Step(s, {})
    ELSE Step([s EXCEPT !.aim = None, !.sent = None, !.awaiting = FALSE],
              {Settled(index)})

\* The {aim, in_flight} mirrored into the snapshot.
Navigation(s) == [aim |-> s.aim, in_flight |-> s.in_flight]

=============================================================================
