------------------------------- MODULE Surface -------------------------------
(***************************************************************************)
(* The model's own calls (model/mod.rs, control.rs, lane.rs): the bytes     *)
(* each puts on the stream's queue, the device that acts on them, and what  *)
(* a read gives back.                                                       *)
(*                                                                         *)
(* A call is one step up to its first wait, and one read runs at a time:    *)
(* several of them are in Requests, the Navigator's locks and clocks in     *)
(* Navigator, the bytes cut by a read in Receive.  A name of a slot or of a *)
(* control is a string.  A call that is refused has no message, and is no   *)
(* step.                                                                    *)
(***************************************************************************)
EXTENDS Tree

CONSTANTS
  Settings,     \* the setters it calls: which, for what slot, to what
  Commands,     \* its other calls that send: which, and what it is given
  Aims,         \* the rigs it navigates to
  Asks,         \* the reads it makes
  Writes,       \* the values it feeds to apply_cbor
  Mutes,        \* the sets of addresses a device may not answer for
  Texts,        \* the device's texts, by address
  RigCount,     \* how many rigs it has
  CommandQueue, \* COMMAND_QUEUE
  MaxInFlight,  \* MAX_IN_FLIGHT_REQUESTS
  MaxReplies,   \* bound on the messages on their way to us
  MaxCalls      \* bound on the client's calls

ASSUME SurfaceAssumption ==
  /\ None \notin Nat /\ None \notin BOOLEAN /\ None \notin Seq(Byte)
  /\ None \notin Header /\ None # REDACTED
  /\ RigCount \in Nat \ {0} /\ RigCount <= 65535 /\ MaxCalls \in Nat /\ MaxReplies \in Nat
  /\ CommandQueue \in Nat \ {0} /\ MaxInFlight \in Nat \ {0}
  /\ \A a \in DOMAIN Texts : a \in 0 .. HUGE - 1 /\ Texts[a] \in Seq(Byte \ {0})

VARIABLES
  queue,      \* the stream's command queue: each item one message or two
  gear,       \* the device
  incoming,   \* its messages on their way to us
  tree,       \* the model's state
  nav,        \* the Navigator's machine
  call,       \* the read in progress, or the last one
  sent,       \* the rigs the Navigator has queued a load for
  promised,   \* what the setters meant the leaves to be
  calls       \* how many calls there have been

surface == <<queue, gear, incoming, tree, nav, call, sent, promised, calls>>

U16 == 0 .. 65535
Nav == INSTANCE NavigatorMachine WITH Rig <- U16

PRODUCT    == 0
CC_CHANNEL == 0

-----------------------------------------------------------------------------
(***************************************************************************)
(* Control::message.                                                        *)
(***************************************************************************)

\* One Control Change: a pedal's value, a switch's 1 or 0, or a press.
CC == [WahPedal |-> 1, PitchPedal |-> 4, VolumePedal |-> 7, Panorama |-> 10,
       MorphPedal |-> 11, DelayMix |-> 68, DelayFeedback |-> 69, ReverbMix |-> 70,
       ReverbTime |-> 71, Gain |-> 72, MonitorVolume |-> 73, RotaryFast |-> 33,
       DelayInfinity |-> 34, Freeze |-> 35, TunerMode |-> 31, BankPreselect |-> 47,
       MorphButton |-> 80, ToggleAllModules |-> 16, TapTempo |-> 30]
SLOT_ENABLE_CC == [A |-> 17, B |-> 18, C |-> 19, D |-> 20, X |-> 22, MOD |-> 24,
                   DLY |-> 27, REV |-> 29]
Presses == {"ToggleAllModules", "TapTempo"}
CC_LOAD_SLOT_1      == 50
CC_EFFECT_BUTTON_I  == 75
CC_BANK_SELECT_MSB  == 0
CC_BANK_SELECT_LSB  == 32
PROGRAM_CHANGE_STATUS == 192
CONTROL_CHANGE_STATUS == 176
RIG_LOAD_CONTROLLERS  == 48 .. 54

clamp(v, low, high) == IF v < low THEN low ELSE IF v > high THEN high ELSE v
program_change(channel, program) ==
  <<PROGRAM_CHANGE_STATUS + channel, program % 128>>

\* A press and its release: a button left held is given up by the device.
tap(controller) == control_change(CC_CHANNEL, controller, 1)
                     \o control_change(CC_CHANNEL, controller, 0)

Control(name, v) == [name |-> name, value |-> v]
message(c) ==
  CASE c.name \in Presses -> control_change(CC_CHANNEL, CC[c.name], 1)
    [] c.name \in DOMAIN CC \ Presses -> control_change(CC_CHANNEL, CC[c.name], c.value)
    [] c.name = "SlotEnable" ->
         control_change(CC_CHANNEL, SLOT_ENABLE_CC[c.value[1]], c.value[2])
    [] c.name = "Up"       -> tap(48)
    [] c.name = "Down"     -> tap(49)
    [] c.name = "LoadSlot" -> tap(CC_LOAD_SLOT_1 + clamp(c.value, 1, 5) - 1)
    [] c.name = "EffectButton" ->
         control_change(CC_CHANNEL, CC_EFFECT_BUTTON_I + clamp(c.value, 1, 4) - 1, 1)
    [] c.name = "ProgramChange" -> program_change(CC_CHANNEL, c.value)
    [] c.name = "BankSelect" ->
         control_change(CC_CHANNEL, CC_BANK_SELECT_MSB, c.value[1])
           \o control_change(CC_CHANNEL, CC_BANK_SELECT_LSB, c.value[2])

-----------------------------------------------------------------------------
(***************************************************************************)
(* The calls that send: each a message, None if it is refused.              *)
(***************************************************************************)

EFFECT_SLOTS == <<"A", "B", "C", "D", "X", "MOD", "DLY", "REV">>
SlotAt(name) == CHOOSE i \in DOMAIN EFFECT_SLOTS : EFFECT_SLOTS[i] = name
effect_slot_page(name) ==
  IF \E i \in DOMAIN EFFECT_SLOTS : EFFECT_SLOTS[i] = name
    THEN EFFECT_PAGES[SlotAt(name)] ELSE None

set_param(page, number, v) == set_single(PRODUCT, page, number, v)
set_gain(v)           == set_param(10, 4, v)
set_rig_volume(v)     == set_param(4, 1, v)
set_main_volume(v)    == set_param(127, 0, v)
set_monitor_volume(v) == set_param(127, 2, v)
set_effect_enabled(name, on) ==
  LET page == effect_slot_page(name)
  IN  IF page = None THEN None ELSE set_param(page, 3, IF on THEN 1 ELSE 0)
set_effect_mix(name, v) ==
  LET page == effect_slot_page(name)
  IN  IF page = None THEN None ELSE set_param(page, 4, v)

\* Mutant: the tempo is not clamped to fourteen bits.
set_tempo_bpm_Unclamped(bpm) == set_param(4, 0, bpm * TEMPO_BPM_SCALE)

set_tempo_bpm(bpm) == set_param(4, 0, clamp(bpm * TEMPO_BPM_SCALE, 0, FULL_SCALE))

\* Any of the setters, and the leaf it means with what it means it to be.
Setter(s) ==
  CASE s.call = "set_gain"           -> set_gain(s.to)
    [] s.call = "set_rig_volume"     -> set_rig_volume(s.to)
    [] s.call = "set_main_volume"    -> set_main_volume(s.to)
    [] s.call = "set_monitor_volume" -> set_monitor_volume(s.to)
    [] s.call = "set_effect_enabled" -> set_effect_enabled(s.slot, s.to)
    [] s.call = "set_effect_mix"     -> set_effect_mix(s.slot, s.to)
    [] s.call = "set_tempo_bpm"      -> set_tempo_bpm(s.to)
Meant(s) ==
  CASE s.call = "set_gain"           -> <<<<"AmpGain", 0>>, s.to>>
    [] s.call = "set_rig_volume"     -> <<<<"RigVolume", 0>>, s.to>>
    [] s.call = "set_main_volume"    -> <<<<"MainVolume", 0>>, s.to>>
    [] s.call = "set_monitor_volume" -> <<<<"MonitorVolume", 0>>, s.to>>
    [] s.call = "set_effect_enabled" -> <<<<"EffectOn", SlotAt(s.slot) - 1>>, s.to>>
    [] s.call = "set_effect_mix"     -> <<<<"EffectMix", SlotAt(s.slot) - 1>>, s.to>>
    [] s.call = "set_tempo_bpm"      -> <<<<"TempoBpm", 0>>, clamp(s.to, 0, 255)>>

\* What loads a rig is the Navigator's.
send_control(c) ==
  IF c.name \in {"LoadSlot", "Up", "Down", "ProgramChange", "BankSelect"} THEN None
  ELSE message(c)

\* The actions with a name of their own: a Control each.
Actions == [tap_tempo |-> "TapTempo", tuner_mode |-> "TunerMode",
            morph_button |-> "MorphButton", morph_pedal |-> "MorphPedal",
            freeze |-> "Freeze", rotary_fast |-> "RotaryFast",
            delay_infinity |-> "DelayInfinity", wah_pedal |-> "WahPedal",
            toggle_all_modules |-> "ToggleAllModules", panorama |-> "Panorama",
            effect_button |-> "EffectButton", pitch_pedal |-> "PitchPedal",
            volume_pedal |-> "VolumePedal"]
action(name, v) == send_control(Control(Actions[name], v))

\* Preselects; the number is cut to eight bits here and to seven on the wire.
bank(n) == send_control(Control("BankPreselect", (IF n = 0 THEN 0 ELSE n - 1) % 256))

\* Mutant: only the first message of the bytes is looked at.
loads_a_rig_First(midi) ==
  /\ midi # <<>>
  /\ \/ Head(midi) \div 16 = PROGRAM_CHANGE_STATUS \div 16
     \/ /\ Head(midi) \div 16 = CONTROL_CHANGE_STATUS \div 16
        /\ Len(midi) > 1 /\ midi[2] \in RIG_LOAD_CONTROLLERS

loads_a_rig(midi) ==
  \E i \in DOMAIN midi :
    \/ midi[i] \div 16 = PROGRAM_CHANGE_STATUS \div 16
    \/ /\ midi[i] \div 16 = CONTROL_CHANGE_STATUS \div 16
       /\ i < Len(midi) /\ midi[i + 1] \in RIG_LOAD_CONTROLLERS
send_raw(midi) == IF loads_a_rig(midi) THEN None ELSE midi

BEACON_DEFAULT_PARAM_SET == 2
send_beacon(init, tuner, lease) ==
  beacon(init, tuner, lease, BEACON_DEFAULT_PARAM_SET, PRODUCT)

\* Any of these calls, and set_param, which means no leaf.
Sends(c) ==
  CASE c.call = "send_raw"     -> send_raw(c.of)
    [] c.call = "send_control" -> send_control(c.of)
    [] c.call = "bank"         -> bank(c.of)
    [] c.call = "send_beacon"  -> send_beacon(c.of[1], c.of[2], c.of[3])
    [] c.call = "set_param"    -> set_param(c.of[1], c.of[2], c.of[3])
    [] OTHER                   -> action(c.call, c.of)

\* What their types, and the docs of the setters, let a caller give, and what
\* the reads build.
SetTo(s) ==
  \/ s.call \in {"set_gain", "set_rig_volume", "set_main_volume", "set_monitor_volume",
                 "set_effect_mix"} /\ s.to \in 0 .. FULL_SCALE
  \/ s.call = "set_effect_enabled" /\ s.to \in BOOLEAN
  \/ s.call = "set_tempo_bpm" /\ s.to \in U16
GivenTo(c) ==
  CASE c.call = "send_raw"     -> c.of \in Seq(Byte)
    [] c.call = "send_control" ->
         \/ c.of.name \in {"LoadSlot", "Up", "Down", "ProgramChange", "BankSelect"}
         \/ c.of.name \in DOMAIN CC \union {"EffectButton"} /\ c.of.value \in Nat
         \/ c.of.name = "SlotEnable" /\ c.of.value \in (DOMAIN SLOT_ENABLE_CC) \X Nat
    [] c.call = "bank"         -> c.of \in Nat
    [] c.call = "send_beacon"  -> c.of \in BOOLEAN \X BOOLEAN \X Byte
    [] c.call = "set_param"    -> c.of \in Byte \X Byte \X U16
    [] OTHER                   -> c.call \in DOMAIN Actions /\ c.of \in Nat
IsSysEx(msg) == msg \in Seq(Byte) /\ msg # <<>> /\ Head(msg) = SYSEX

\* A message the device answers, and one that sets a parameter.
IsA(msg, functions) == Len(msg) >= 11 /\ msg[1] = SYSEX /\ msg[7] \in functions
IsQuestion(msg) ==
  IsA(msg, {FN.REQUEST_SINGLE, FN.REQUEST_STRING, FN.REQUEST_EXT,
            FN.REQUEST_EXT_STRING, FN.REQUEST_RENDERED})
IsSet(msg) == IsA(msg, {FN.SINGLE})

ASSUME CallsAssumption ==
  /\ \A s \in Settings : SetTo(s)
  /\ \A c \in Commands : GivenTo(c)
  /\ \A ask \in Asks : /\ ask \in Seq({ask[i] : i \in DOMAIN ask})
                       /\ \A i \in DOMAIN ask : IsSysEx(ask[i].msg) /\ IsQuestion(ask[i].msg)

-----------------------------------------------------------------------------
(***************************************************************************)
(* The device: what it does with a message, and what it says.               *)
(***************************************************************************)

NumAddresses ==
  {r.address : r \in {s \in STATE_ROUTES : s.kind \notin {"Text", "Multi"}}}
AtRig(g) == g.params[BANK] * BANK_SLOTS + g.params[SLOT]

\* A rig's settings, by its place.
Params(i) == [a \in NumAddresses |->
                CASE a = BANK -> i \div BANK_SLOTS
                  [] a = SLOT -> i % BANK_SLOTS
                  [] OTHER    -> (4000 + 64 * i) % (FULL_SCALE + 1)]
NewGear(i, mute) == [params |-> Params(i), armed |-> None, loads |-> <<>>,
                     says |-> <<>>, mute |-> mute]

\* Past its last rig it stays where it is, and says so.
LoadRig(g, i) ==
  LET at == IF i \in 0 .. RigCount - 1 THEN Params(i) ELSE g.params
  IN  [g EXCEPT !.params = at, !.armed = None,
         !.says = @ \o <<ExtParam(BANK, at[BANK]), ExtParam(SLOT, at[SLOT])>>]

\* A controller pressed on our wire; a slot loads in the bank armed before it.
Pressed(g, controller, v) ==
  LET bankOf == IF g.armed = None THEN g.params[BANK] ELSE g.armed
      target == CASE controller = 48 -> AtRig(g) + 1
                  [] controller = 49 -> AtRig(g) - 1
                  [] OTHER -> bankOf * BANK_SLOTS + controller - CC_LOAD_SLOT_1
  IN  IF controller = CC.BankPreselect THEN [g EXCEPT !.armed = v]
      ELSE IF controller \in RIG_LOAD_CONTROLLERS /\ v # 0
        THEN LoadRig([g EXCEPT !.loads = Append(@, target)], target)
        ELSE g

\* The next message of its bytes; one cut short, or of another kind, is nothing.
Played(m) ==
  LET b    == m.rest
      kind == Head(b) \div 16
  IN  IF Len(b) < 2 THEN m
      ELSE IF kind = PROGRAM_CHANGE_STATUS \div 16
        THEN [gear |-> LoadRig([m.gear EXCEPT !.loads = Append(@, b[2])], b[2]),
              rest |-> SubSeq(b, 3, Len(b))]
      ELSE IF kind = CONTROL_CHANGE_STATUS \div 16 /\ Len(b) > 2
        THEN [gear |-> Pressed(m.gear, b[2], b[3]), rest |-> SubSeq(b, 4, Len(b))]
      ELSE [m EXCEPT !.rest = SubSeq(b, 4, Len(b))]
Midi(g, bytes) ==
  Through(LAMBDA m, byte : Played(m), [gear |-> g, rest |-> bytes], bytes).gear

\* A parameter is set without an echo, and asked for unless the device is mute.
SysEx(g, msg) ==
  LET h    == parse(msg)
      flat == h.page * 128 + h.number
      wide == ext_decode(SubSeq(msg, 9, 13))
      reply(address, m) ==
        IF address \in g.mute THEN g ELSE [g EXCEPT !.says = Append(@, m)]
      known(address, m) == IF address \in NumAddresses THEN reply(address, m) ELSE g
      named(address, m) == IF address \in DOMAIN Texts THEN reply(address, m) ELSE g
      text(address) == Append(Texts[address], 0)
  IN  IF h = None THEN g ELSE
      CASE h.function = FN.SINGLE /\ Len(h.vals) >= 2 /\ flat \in NumAddresses ->
             [g EXCEPT !.params[flat] = u14(h.vals[1], h.vals[2])]
        [] h.function = FN.REQUEST_SINGLE ->
             known(flat, sysex(2, 0, FN.SINGLE, h.page, h.number, u14_split(g.params[flat])))
        [] h.function = FN.REQUEST_EXT -> known(wide, ExtParam(wide, g.params[wide]))
        [] h.function = FN.REQUEST_STRING ->
             named(flat, sysex(2, 0, FN.STRING, h.page, h.number, text(flat)))
        [] h.function = FN.REQUEST_EXT_STRING -> named(wide, ExtString(wide, text(wide)))
        [] h.function = FN.REQUEST_RENDERED /\ Len(h.vals) = 2 ->
             named(flat, sysex(2, 0, FN.RENDERED, h.page, h.number, h.vals \o text(flat)))
        [] OTHER -> g

Hears(g, msg) == IF Head(msg) = SYSEX THEN SysEx(g, msg) ELSE Midi(g, msg)

-----------------------------------------------------------------------------
(***************************************************************************)
(* The Navigator, as the calls and the folds drive it.                      *)
(***************************************************************************)

\* Both messages are one item, but need room for two.  A bank has seven bits.
send_load(i) ==
  <<message(Control("BankPreselect", i \div BANK_SLOTS)),
    message(Control("LoadSlot", (i % BANK_SLOTS) + 1))>>
CanLoad(i) == i \in 0 .. 128 * BANK_SLOTS - 1 /\ tree.stream_open
                /\ Len(queue) + 2 <= CommandQueue

\* A load the queue refuses takes the aim with it.
Execute(step) ==
  LET loads == {a.index : a \in {b \in step.actions : b.do = "Send"}} IN
  \/ /\ loads = {}
     /\ nav' = step.state /\ UNCHANGED <<queue, sent>>
  \/ \E i \in loads :
       IF CanLoad(i)
         THEN /\ nav' = step.state
              /\ queue' = Append(queue, send_load(i)) /\ sent' = Append(sent, i)
         ELSE nav' = Nav!Fresh /\ UNCHANGED <<queue, sent>>

\* Every position of a fold, in order.
Told(machine, positions) ==
  Through(LAMBDA m, p : Nav!OnPosition(m, p).state, machine, positions)

Aimed == aimed_rig_index(tree, nav.aim)
step_rig(delta) ==
  IF Aimed = None \/ clamp(Aimed + delta, 0, 65535) = Aimed THEN None
  ELSE clamp(Aimed + delta, 0, 65535)
step_bank(forward) == step_rig(IF forward THEN BANK_SLOTS ELSE -BANK_SLOTS)
select_slot(s) ==
  IF s \notin 1 .. BANK_SLOTS \/ Aimed = None THEN None
  ELSE (Aimed \div BANK_SLOTS) * BANK_SLOTS + s - 1

-----------------------------------------------------------------------------
(***************************************************************************)
(* Reads: what is asked for, what answers it, and what comes of it.         *)
(***************************************************************************)

Key(shape, address, v) == [shape |-> shape, address |-> address, value |-> v]
Ask(key, msg) == [key |-> key, msg |-> msg]

request_param(page, number) ==
  <<Ask(Key("Num", page * 128 + number, None), request_single(PRODUCT, page, number))>>
request_text(page, number) ==
  <<Ask(Key("Text", page * 128 + number, None), request_string(PRODUCT, page, number))>>
request_ext_param(a) ==
  <<Ask(Key("Num", a, None), request_extended_param(PRODUCT, a))>>
request_ext_string(a) ==
  <<Ask(Key("Text", a, None), request_extended_string(PRODUCT, a))>>
request_render(page, number, v) ==
  <<Ask(Key("Render", page * 128 + number, v),
        request_rendered_string(PRODUCT, page, number, v))>>

request_for(row) ==
  LET page   == (row.address \div 128) % 256
      number == row.address % 128
  IN  IF row.kind = "Text"
        THEN IF row.address < EXTENDED_ADDRESS_BASE THEN request_text(page, number)
             ELSE request_ext_string(row.address)
        ELSE IF row.address < EXTENDED_ADDRESS_BASE THEN request_param(page, number)
             ELSE request_ext_param(row.address)

\* refresh, and its rig, bank and position subsets: the rows in table order.
refresh(group) ==
  LET rows    == {r \in STATE_ROUTES : r.request /\ group \in {None, r.refresh}}
      rank(r) == Cardinality({s \in rows : s.address <= r.address})
      row(i)  == CHOOSE r \in rows : rank(r) = i
  IN  Concat([i \in 1 .. Cardinality(rows) |-> request_for(row(i))])

Severity == [Ok |-> 0, Unreadable |-> 1, Timeout |-> 2, Disconnected |-> 3]
worse(w, e) == IF Severity[w] >= Severity[e] THEN w ELSE e

\* No answer is on its way, and nobody's question.
NothingOut == incoming = <<>> /\ \A i \in DOMAIN queue : ~IsQuestion(Head(queue[i]))

NoCall == [at |-> "none", todo |-> <<>>, asked |-> {}, keys |-> {}, worst |-> "Ok",
           reply |-> None, single |-> FALSE, stable |-> TRUE]
Calling(ask) == [NoCall EXCEPT !.at = "reading", !.todo = ask,
                   !.asked = {ask[i].key : i \in DOMAIN ask},
                   !.single = (Len(ask) = 1), !.stable = NothingOut]

\* What an update or a rendered text settles, and with what.
Settles(decoded, address) ==
  CASE decoded.kind = "Num"  -> {<<Key("Num", address, None), decoded.num>>}
    [] decoded.kind = "Text" -> {<<Key("Text", address, None),
         IF is_sensitive(address) THEN REDACTED ELSE decoded.vals>>}
    [] decoded.kind = "Block" ->
         {<<Key("Num", address + i - 1, None), decoded.vals[i]>> : i \in DOMAIN decoded.vals}
Rendered(r) == {<<Key("Render", r.page * 128 + r.number, r.value), r.text>>}

\* The read once some answers are in.  A number at a page's address that is
\* wider than the stream's word is not the stream's answer.
Settled(c, answers) ==
  LET ours == {a \in answers : a[1] \in c.keys}
      fit(a) == \/ a[1].shape # "Num" \/ a[1].address >= EXTENDED_ADDRESS_BASE
                \/ a[2] <= FULL_SCALE \/ ~c.single
  IN  IF ours = {} THEN c
      ELSE LET a == CHOOSE b \in ours : TRUE
           IN  [c EXCEPT !.keys = @ \ {b[1] : b \in ours}, !.reply = IF c.single THEN a[2] ELSE @,
                         !.worst = IF fit(a) THEN @ ELSE worse(@, "Unreadable")]

\* A call is over when all of it has been sent and settled.
Done(c) == IF c.at = "reading" /\ c.todo = <<>> /\ c.keys = {}
             THEN [c EXCEPT !.at = "done"] ELSE c
Disturbed(c) == IF c.at = "done" THEN NoCall ELSE [c EXCEPT !.stable = FALSE]

-----------------------------------------------------------------------------
(***************************************************************************)
(* Steps.                                                                   *)
(***************************************************************************)

May   == calls < MaxCalls
Calls == May /\ calls' = calls + 1 /\ call' = Disturbed(call)

\* enqueue: waits for room.
Enqueue(msg) ==
  /\ tree.stream_open /\ Len(queue) < CommandQueue
  /\ queue' = Append(queue, <<msg>>)

Set(s) ==
  /\ Calls /\ Setter(s) # None /\ Enqueue(Setter(s))
  /\ promised' = [promised EXCEPT ![Meant(s)[1]] = Meant(s)[2]]
  /\ UNCHANGED <<gear, incoming, tree, nav, sent>>

Unpromised == [l \in Leaves |-> None]
Command(c) ==
  /\ Calls /\ Sends(c) # None /\ Enqueue(Sends(c))
  /\ promised' = IF IsSet(Sends(c)) THEN Unpromised ELSE promised
  /\ UNCHANGED <<gear, incoming, tree, nav, sent>>

navigate_to(target) ==
  /\ Calls /\ target # None
  /\ Execute(Nav!OnNavigate(nav, target))
  /\ UNCHANGED <<gear, incoming, tree, promised>>

\* The Navigator's timers, in their own time.
TimerElapses ==
  /\ \/ nav.in_flight /\ Execute(Nav!OnSettleElapsed(nav))
     \/ nav.awaiting  /\ Execute(Nav!OnWindowElapsed(nav))
  /\ call' = IF sent' = sent THEN call ELSE Disturbed(call)
  /\ UNCHANGED <<gear, incoming, tree, promised, calls>>

\* fold_updates of one value, the caller's own; not of a negative one.
apply_cbor(address, v) ==
  LET u == Update("Control", "Live", address, Num(v))
      o == apply_update(tree, u)
  IN  /\ May /\ calls' = calls + 1 /\ v >= 0
      /\ tree' = o.tree /\ nav' = Told(nav, o.positions)
      /\ call' = Done(Settled(Disturbed(call), Settles(u.decoded, address)))
      /\ UNCHANGED <<queue, gear, incoming, sent, promised>>

\* Bound: nothing else is called beside a long burst.
Read(ask) ==
  /\ May /\ call.at # "reading"
  /\ calls' = IF Len(ask) > 2 THEN MaxCalls ELSE calls + 1
  /\ call' = Calling(ask)
  /\ UNCHANGED <<queue, gear, incoming, tree, nav, sent, promised>>

\* start: the next row is refused, or goes out when the lane and the queue have
\* room; what is refused does not stop the others.
StartRow ==
  LET a        == Head(call.todo)
      next     == [call EXCEPT !.todo = Tail(@)]
      row      == route(a.key.address)
      readable == row # None => row.wire # "Control"
      refused(e) == /\ call' = Done([next EXCEPT !.worst = worse(@, e)])
                    /\ UNCHANGED queue
  IN  /\ call.at = "reading" /\ call.todo # <<>>
      /\ \/ ~readable /\ refused("Unreadable")
         \/ readable /\ ~tree.stream_open /\ refused("Disconnected")
         \/ /\ readable /\ Cardinality(call.keys) < MaxInFlight
            /\ Enqueue(a.msg)
            /\ call' = [next EXCEPT !.keys = @ \union {a.key}]
      /\ UNCHANGED <<gear, incoming, tree, nav, sent, promised, calls>>

\* The writer takes an item, and the device what comes of its frames.
HearsAll(g, msgs) == Through(Hears, g, msgs)

Moved(g) == IF g.loads # gear.loads THEN Unpromised ELSE promised

WriteItem ==
  LET item == Head(queue)
      wire == Concat([i \in DOMAIN item |-> frame(item[i])])
      g    == HearsAll(gear, UnframerPush(NewUnframer, wire).out)
  IN  /\ queue # <<>> /\ tree.stream_open /\ Len(incoming) < MaxReplies
      /\ queue' = Tail(queue)
      /\ gear' = [g EXCEPT !.says = <<>>] /\ incoming' = incoming \o g.says
      /\ promised' = Moved(g)
      /\ call' = IF g.loads # gear.loads THEN Disturbed(call) ELSE call
      /\ UNCHANGED <<tree, nav, sent, calls>>

\* The player's foot takes the next rig.
PlayerSteps ==
  LET g == LoadRig(gear, AtRig(gear) + 1) IN
  /\ May /\ calls' = calls + 1 /\ tree.stream_open /\ Len(incoming) < MaxReplies
  /\ gear' = [g EXCEPT !.says = <<>>] /\ incoming' = incoming \o g.says
  /\ promised' = Unpromised
  /\ call' = Disturbed(call)
  /\ UNCHANGED <<queue, tree, nav, sent>>

\* The stream task folds a message.
Hear ==
  LET msg  == Head(incoming)
      said == decode_stream(msg)
      o    == apply(tree, msg)
      answers == (IF said.update = None THEN {}
                  ELSE Settles(said.update.decoded, said.update.address))
                   \union (IF said.rendered = None THEN {} ELSE Rendered(said.rendered))
  IN  /\ incoming # <<>> /\ tree.stream_open
      /\ incoming' = Tail(incoming)
      /\ tree' = o.tree /\ nav' = Told(nav, o.positions)
      /\ call' = Done(Settled(call, answers))
      /\ UNCHANGED <<queue, gear, sent, promised, calls>>

\* finish: nothing has come, and nothing is on its way.
ReplyTimesOut(k) ==
  /\ k \in call.keys /\ queue = <<>> /\ incoming = <<>>
  /\ call' = Done([call EXCEPT !.keys = @ \ {k}, !.worst = worse(@, "Timeout")])
  /\ UNCHANGED <<queue, gear, incoming, tree, nav, sent, promised, calls>>

\* The stream is lost: what is pending fails, the aim is forgotten.
Lose ==
  /\ tree.stream_open
  /\ tree' = [tree EXCEPT !.stream_open = FALSE]
  /\ queue' = <<>> /\ incoming' = <<>> /\ nav' = Nav!Fresh
  /\ call' = IF call.keys = {} THEN call
             ELSE Done([call EXCEPT !.keys = {}, !.worst = worse(@, "Disconnected")])
  /\ UNCHANGED <<gear, sent, promised, calls>>

SurfaceInit ==
  /\ queue = <<>> /\ incoming = <<>> /\ sent = <<>> /\ calls = 0
  /\ \E mute \in Mutes : gear = NewGear(0, mute)
  /\ tree = NewTree /\ nav = Nav!Fresh /\ call = NoCall
  /\ promised = Unpromised

Serve ==
  \/ \E s \in Settings : Set(s)
  \/ \E c \in Commands : Command(c)
  \/ \E i \in Aims : navigate_to(i)
  \/ \E d \in {-1, 1} : navigate_to(step_rig(d))
  \/ \E f \in BOOLEAN : navigate_to(step_bank(f))
  \/ \E s \in 0 .. BANK_SLOTS + 1 : navigate_to(select_slot(s))
  \/ \E w \in Writes : apply_cbor(w[1], w[2])
  \/ \E ask \in Asks : Read(ask)
  \/ StartRow \/ WriteItem \/ Hear \/ TimerElapses \/ Lose \/ PlayerSteps
  \/ \E k \in call.keys : ReplyTimesOut(k)

=============================================================================
