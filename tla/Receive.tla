------------------------------- MODULE Receive -------------------------------
(***************************************************************************)
(* From the device's two sockets to what a reader of them knows: the bytes  *)
(* cut into reads anywhere, the unframer and the decoder that put them      *)
(* together again, and the three readers of the control channel.  They are  *)
(* the model's link, which reads the stream as well and folds both into one *)
(* tree, StateSnapshot::fetch, and CborSession (cbor.rs).                   *)
(*                                                                         *)
(* Each read is decoded and folded in one step.  What happens between the   *)
(* steps of a fold, and the locks, are in Funnel.                           *)
(*                                                                         *)
(* An action names what it computes with a quantifier over one value, which *)
(* TLC evaluates once, and a LET each time it is used.                      *)
(***************************************************************************)
EXTENDS Cbor, Tree

CONSTANTS
  Rigs,         \* the rigs: [bank, slot, name, tempo, volume], as on the wire
  Morph,        \* the morph position, which the stream never carries
  Secret,       \* the text of a sensitive address
  Tick,         \* the session counter's value in the item sent before the dump
  Residue,      \* what is left of the handshake before the stream's first frame
  ReadSizes,    \* how many bytes a read may take
  TailSizes,    \* how many the acceptance's tail may take, besides
  Capacity,     \* of a CborSession's broadcast channel
  Subscribers,  \* of a CborSession
  MaxLoads      \* bound on the device's rig loads

ASSUME ReceiveAssumption ==
  /\ ReadSizes \subseteq Nat \ {0} /\ TailSizes \subseteq Nat
  /\ MaxLoads \in Nat /\ Capacity \in Nat \ {0} /\ None \notin Rigs

VARIABLES
  rig,       \* the rig the device has loaded
  since,     \* the rigs it has had since the dump was asked for
  loads,     \* how many it has loaded, up to MaxLoads
  dumping,   \* the items of the dump still to be written, None before it is asked
  wire,      \* per link, the bytes written and not yet read
  due,       \* per link, the messages not yet wholly read, and how far off
             \* the end of each is
  exact,     \* per link, every read so far has yielded just what it ended
  reader,    \* who reads the control channel
  unframer, decoder,
  pending,   \* ControlLink.pending: the items of the handshake's tail
  ends,      \* how many ends of the dump have been seen (the model's link)
  tree,      \* the tree, or the snapshot folder's scratch
  told,      \* the position the Navigator was last told
  strings,   \* SnapshotFolder.strings
  answer,    \* what fetch returned
  log,       \* the values a CborSession has sent
  initial,   \* CborSession.initial: the receiver of the opening burst
  start      \* per subscriber, where in the log its receiver began

device == <<rig, since, loads, dumping>>
bytes  == <<wire, due, exact, unframer, decoder, pending>>
model  == <<ends, tree, told>>
fetch  == <<strings, answer>>
watch  == <<log, initial, start>>
vars   == <<device, bytes, reader, model, fetch, watch>>

Links == {"stream", "control"}

-----------------------------------------------------------------------------
(***************************************************************************)
(* What the device writes.                                                  *)
(***************************************************************************)

\* A rig load on the stream: the position in two extended parameters, then the
\* rig's name and the block of its settings.
StreamSays(r) ==
  <<ExtParam(BANK, r.bank), ExtParam(SLOT, r.slot),
    sysex(2, 0, FN.STRING, 0, 1, Append(r.name, 0)),
    sysex(2, 0, FN.MULTI, 4, 0, u14_split(r.tempo) \o u14_split(r.volume))>>

\* The same on the control channel, with a source flag before the selector.
Single(address, value) ==
  Tag(1, Array(<<Whole(-1), Whole(1), Whole(address), Whole(value)>>))
Run(base, values) ==
  Array(<<Whole(2), Whole(base)>> \o [i \in DOMAIN values |-> Whole(values[i])])
String(address, text) == Array(<<Whole(4), Whole(address), Str(text)>>)
ControlSays(r) ==
  <<Single(BANK, r.bank), Single(SLOT, r.slot), String(1, r.name),
    Run(512, <<r.tempo, r.volume>>)>>

\* The dump: a system section and a rig section, each with its end.
DumpOf(r) ==
  <<Run(BANK, <<r.bank, r.slot>>), String(200008, Secret), Run(DUMP_END, <<0>>),
    String(1, r.name), Run(512, <<r.tempo, r.volume>>), Run(119, <<Morph>>),
    Run(DUMP_END, <<0>>)>>

\* An item on the wire has filler after it.
OnWire(link, m) == IF link = "stream" THEN frame(m) ELSE encode(m) \o <<FILLER>>

\* What a link has to carry once the messages are written on it: the bytes, and
\* how far off each message's end is, the filler after it aside.
RECURSIVE Written(_, _, _, _)
Written(link, w, d, messages) ==
  IF messages = <<>> THEN [wire |-> w, due |-> d]
  ELSE LET more == w \o OnWire(link, Head(messages))
           end  == Len(more) - (IF link = "stream" THEN 0 ELSE 1)
       IN  Written(link, more, Append(d, [what |-> Head(messages), end |-> end]),
                   Tail(messages))

Send(stream, control) ==
  LET s == Written("stream", wire.stream, due.stream, stream)
      c == Written("control", wire.control, due.control, control)
  IN  /\ wire' = [stream |-> s.wire, control |-> c.wire]
      /\ due'  = [stream |-> s.due, control |-> c.due]
      /\ UNCHANGED <<exact, unframer, decoder, pending>>

Opened == dumping # None

\* A rig is loaded: by a player's foot, or by whoever else has a session.
Load(r) ==
  /\ loads < MaxLoads /\ r # rig
  /\ loads' = loads + 1 /\ rig' = r
  /\ since' = IF Opened THEN since \union {r} ELSE since
  /\ Send(IF reader = "model" THEN StreamSays(r) ELSE <<>>,
          IF Opened THEN ControlSays(r) ELSE <<>>)
  /\ UNCHANGED <<dumping, reader, model, fetch, watch>>

\* The dump's next item, whatever has been pushed in between.
WriteDump ==
  /\ Opened /\ dumping # <<>>
  /\ dumping' = Tail(dumping)
  /\ Send(<<>>, <<Head(dumping)>>)
  /\ UNCHANGED <<rig, since, loads, reader, model, fetch, watch>>

-----------------------------------------------------------------------------
(***************************************************************************)
(* Reading.                                                                 *)
(***************************************************************************)

Took(link, n) == SubSeq(wire[link], 1, n)

\* n bytes leave the wire; whether what they were decoded to is what ends there.
Take(link, n, decoded) ==
  LET ended == {i \in DOMAIN due[link] : due[link][i].end <= n}
      rest  == SubSeq(due[link], Cardinality(ended) + 1, Len(due[link]))
  IN  /\ n \in 1 .. Len(wire[link])
      /\ wire' = [wire EXCEPT ![link] = SubSeq(@, n + 1, Len(@))]
      /\ due' = [due EXCEPT ![link] =
                   [i \in DOMAIN rest |-> [rest[i] EXCEPT !.end = @ - n]]]
      /\ exact' = [exact EXCEPT ![link] =
                     @ /\ decoded = [i \in 1 .. Cardinality(ended) |-> due[link][i].what]]

\* A read takes a number of bytes that is allowed, or all there are.
SomeRead(link) ==
  {IF n < Len(wire[link]) THEN n ELSE Len(wire[link]) : n \in ReadSizes}

\* Mutant: the Navigator hears of the first position of a read only.
Told_First(positions) == IF positions = <<>> THEN told ELSE Head(positions)

\* The Navigator hears of every position, in order.
Told(positions) == IF positions = <<>> THEN told ELSE Last(positions)

RECURSIVE FoldMessages(_, _)
FoldMessages(o, msgs) ==
  IF msgs = <<>> THEN o
  ELSE LET step == apply(o.tree, Head(msgs))
       IN  FoldMessages(Outcome(step.tree, <<>>, FALSE,
                                o.positions \o step.positions), Tail(msgs))

\* run_stream's read arm: unframe, decode, fold.
ReadStream(n) ==
  \E u \in {UnframerPush(unframer, Took("stream", n))} :
  \E fold \in {FoldMessages(Nothing(tree), u.out)} :
    /\ Take("stream", n, u.out)
    /\ unframer' = [u EXCEPT !.out = <<>>]
    /\ tree' = fold.tree /\ told' = Told(fold.positions)
    /\ UNCHANGED <<device, decoder, pending, reader, ends, fetch, watch>>

\* ControlLink::open: the acceptance's tail, which may be nothing, is decoded,
\* and the dump is asked for.
Open(n) ==
  /\ ~Opened
  /\ \E d \in {DecoderPush(NewDecoder, Took("control", n))} :
       /\ \/ n = 0 /\ UNCHANGED <<wire, due, exact>>
          \/ Take("control", n, d.out)
       /\ decoder' = [d EXCEPT !.out = <<>>] /\ pending' = d.out
  /\ dumping' = DumpOf(rig) /\ since' = {rig}
  /\ tree' = IF reader = "model" THEN begin_dump(tree) ELSE tree
  /\ UNCHANGED <<rig, loads, unframer, reader, ends, told, fetch, watch>>

\* What the next ControlLink::read makes of n bytes: the tail's items first.
Pushed(n) == IF pending # <<>> THEN [decoder EXCEPT !.out = pending]
             ELSE DecoderPush(decoder, Took("control", n))

ControlRead(n, d) ==
  /\ pending' = <<>> /\ UNCHANGED unframer
  /\ \/ pending # <<>> /\ n = 0 /\ UNCHANGED <<wire, due, exact, decoder>>
     \/ /\ pending = <<>>
        /\ Take("control", n, d.out)
        /\ decoder' = [d EXCEPT !.out = <<>>]

\* Mutant: the system section's end is taken for the dump's.
DUMP_END_RUNS_First == 1

\* The dump ends with the second of its end runs.
DUMP_END_RUNS == 2

\* The updates of a read: the dump's up to the run that ends it, live after.
Phased(items) ==
  LET runs   == dump_end_indices(items)
      ending == {i \in runs : ends + Cardinality({j \in runs : j <= i}) = DUMP_END_RUNS}
      cut    == IF ends = DUMP_END_RUNS THEN 0
                ELSE IF ending = {} THEN Len(items) ELSE CHOOSE i \in ending : TRUE
  IN  updates(SubSeq(items, 1, cut), "Dump")
        \o updates(SubSeq(items, cut + 1, Len(items)), "Live")

RECURSIVE FoldAll(_, _)
FoldAll(o, us) ==
  IF us = <<>> THEN o
  ELSE LET step == apply_update(o.tree, Head(us))
       IN  FoldAll(Outcome(step.tree, <<>>, FALSE, o.positions \o step.positions),
                   Tail(us))

\* run_control's read arm: a read without an item is passed over.
ModelReads(n) ==
  /\ reader = "model" /\ Opened
  /\ \E d \in {Pushed(n)} :
     \E fold \in {FoldAll(Nothing(tree), Phased(d.out))} :
     \E seen \in {ends + Cardinality(dump_end_indices(d.out))} :
       /\ ControlRead(n, d)
       /\ ends' = IF seen > DUMP_END_RUNS THEN DUMP_END_RUNS ELSE seen
       /\ tree' = IF ends < DUMP_END_RUNS /\ seen >= DUMP_END_RUNS
                    THEN end_dump(fold.tree) ELSE fold.tree
       /\ told' = Told(fold.positions)
  /\ UNCHANGED <<device, reader, fetch, watch>>

-----------------------------------------------------------------------------
(***************************************************************************)
(* StateSnapshot::fetch.                                                    *)
(***************************************************************************)

\* SnapshotFolder::fold: every value as a live one into the scratch tree, every
\* text kept by its address.
Scratch(items) ==
  FoldAll(Nothing(tree), updates(items, "Live")).tree

\* Mutant: the texts are kept as they came.
Strings_Clear(items) ==
  LET texts == SelectSeq(walk(items), LAMBDA e : e.decoded.kind = "Text" /\ Addressable(e))
  IN  strings \o [i \in DOMAIN texts |-> <<texts[i].address, texts[i].decoded.vals>>]

Strings(items) ==
  LET texts == SelectSeq(walk(items), LAMBDA e : e.decoded.kind = "Text" /\ Addressable(e))
  IN  strings \o [i \in DOMAIN texts |->
        <<texts[i].address, IF is_sensitive(texts[i].address) THEN REDACTED
                            ELSE texts[i].decoded.vals>>]

is_complete(t) ==
  \A f \in {"CurrentBank", "CurrentRigSlot", "MorphPosition"} : t.leaf[<<f, 0>>] # None

snapshot(t, texts) ==
  [bank |-> current_bank(t), slot |-> current_rig_slot(t),
   morph |-> t.leaf[<<"MorphPosition", 0>>], strings |-> texts]

\* One turn of fetch_with's loop: it returns as soon as all three are known.
FetchReads(n) ==
  /\ reader = "fetch" /\ answer = None /\ Opened
  /\ \E d \in {Pushed(n)} :
       ControlRead(n, d) /\ tree' = Scratch(d.out) /\ strings' = Strings(d.out)
  /\ answer' = IF is_complete(tree') THEN snapshot(tree', strings') ELSE None
  /\ UNCHANGED <<device, reader, ends, told, watch>>

\* The deadline passes: what there is is returned.
FetchTimesOut ==
  /\ reader = "fetch" /\ answer = None /\ Opened
  /\ answer' = snapshot(tree, strings)
  /\ UNCHANGED <<device, bytes, reader, model, strings, watch>>

-----------------------------------------------------------------------------
(***************************************************************************)
(* CborSession.                                                             *)
(***************************************************************************)

\* ingest: every number goes to whoever has a receiver.
SessionReads(n) ==
  /\ reader = "session" /\ Opened
  /\ \E d \in {Pushed(n)} : ControlRead(n, d) /\ log' = log \o numeric_values(d.out)
  /\ UNCHANGED <<device, reader, model, fetch, initial, start>>

\* subscribe: the first gets the receiver opened before the first read.
Subscribe(s) ==
  /\ reader = "session" /\ Opened /\ start[s] = None
  /\ start' = [start EXCEPT ![s] = IF initial THEN 0 ELSE Len(log)]
  /\ initial' = FALSE
  /\ UNCHANGED <<device, bytes, reader, model, fetch, log>>

\* Drop aborts the ingest task.
DropSession ==
  /\ reader = "session" /\ Opened
  /\ reader' = "dropped"
  /\ UNCHANGED <<device, bytes, model, fetch, watch>>

-----------------------------------------------------------------------------
\* The control socket has been accepted; a tick of the counter has been pushed
\* on it already.  The stream's first read is the end of its handshake.
Init ==
  /\ rig \in Rigs /\ since = {} /\ loads = 0 /\ dumping = None
  /\ reader \in {"model", "fetch", "session"}
  /\ wire = [stream |-> IF reader = "model" THEN Residue ELSE <<>>,
             control |-> encode(Single(102405, Tick))]
  /\ due = [stream |-> <<>>,
            control |-> <<[what |-> Single(102405, Tick),
                           end |-> Len(encode(Single(102405, Tick)))]>>]
  /\ exact = [l \in Links |-> TRUE]
  /\ unframer = NewUnframer /\ decoder = NewDecoder /\ pending = <<>>
  /\ ends = 0 /\ told = None
  /\ tree = [NewTree EXCEPT !.stream_open = (reader = "model")]
  /\ strings = <<>> /\ answer = None
  /\ log = <<>> /\ initial = TRUE /\ start = [s \in Subscribers |-> None]

Next ==
  \/ \E r \in Rigs : Load(r)
  \/ WriteDump
  \/ \E n \in SomeRead("stream") : ReadStream(n)
  \/ \E n \in TailSizes \union SomeRead("control") : Open(n)
  \/ \E n \in SomeRead("control") \union {0} :
       ModelReads(n) \/ FetchReads(n) \/ SessionReads(n)
  \/ FetchTimesOut
  \/ \E s \in Subscribers : Subscribe(s)
  \/ DropSession

Spec == Init /\ [][Next]_vars

-----------------------------------------------------------------------------
(***************************************************************************)
(* Properties.                                                              *)
(***************************************************************************)

\* However the bytes are cut into reads, and with what is left of a handshake
\* before the first frame or filler between the items, each read yields exactly
\* the messages whose last byte it holds: none lost, none spliced, none late
\* (midi3.rs push; cbor.rs Decoder::push).
Reassembled == \A l \in Links : exact[l]

Drained == wire = [l \in Links |-> <<>>] /\ pending = <<>>

\* The last number under an address that a receiver from the start has heard.
Heard(a) ==
  LET at == {i \in DOMAIN log : log[i].address = a}
  IN  IF at = {} THEN None ELSE log[Max(at)].decoded.num

Early == \E s \in Subscribers : start[s] = 0

\* What the reader has of the device, and what the device has.
Known ==
  IF reader = "session"
    THEN <<Heard(BANK), Heard(SLOT), Heard(513), Heard(119)>>
    ELSE <<current_bank(tree), current_rig_slot(tree),
           tree.leaf[<<"RigVolume", 0>>], tree.leaf[<<"MorphPosition", 0>>]>>
Actual == <<rig.bank, rig.slot, rig.volume, Morph>>

\* Once every byte is read, a reader knows the device as it is, whichever link
\* said so last and whatever the dump said in between: nothing torn, nothing of
\* an earlier rig, and all of it once the dump is out.  A reader of one link
\* alone is held to it while no rig is loaded behind the dump's back.
SettlesOnDevice ==
  /\ Opened /\ Drained /\ answer = None /\ reader # "dropped"
  /\ reader # "model" => since = {rig}
  /\ reader = "session" => Early /\ Len(log) <= Capacity
  => /\ \A i \in DOMAIN Known : Known[i] \in {None, Actual[i]}
     /\ dumping = <<>> => None \notin {Known[i] : i \in DOMAIN Known}

\* The Navigator was last told the rig the device is at, once both links are
\* drained: positions torn by a read or repeated by the other link do not stick
\* (routes.rs position_report).
NavigatorTold ==
  reader = "model" /\ Drained /\ told # None => told = rig.bank * BANK_SLOTS + rig.slot

\* fetch returns before its deadline when the dump is out, with a bank the device
\* has had since it was asked; and never a secret (cbor.rs fetch_with).  The slot
\* is not spoken for: bank and slot are folded one after the other, so a load in
\* between can leave the new bank beside the slot of the rig before.
FetchAnswers ==
  /\ answer # None => \A i \in DOMAIN answer.strings : answer.strings[i][2] # Secret
  /\ answer # None => answer.bank \in {None} \union {r.bank : r \in since}
  /\ reader = "fetch" /\ Drained /\ dumping = <<>> => answer # None
=============================================================================
