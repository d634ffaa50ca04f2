-------------------------------- MODULE Tree --------------------------------
(***************************************************************************)
(* The typed state tree and its one funnel: the routing table (generated.rs,*)
(* STATE_ROUTES), the eight rules of apply_update and the events they raise *)
(* (routes.rs), and what the state derives from its leaves (state.rs).      *)
(*                                                                         *)
(* The tree is a record: `leaf` maps a field and its slot to what it holds  *)
(* (None: not seen), `stream_open` is channels.stream = Open, `dump` and    *)
(* `touched` are the dump guard.                                            *)
(***************************************************************************)
EXTENDS Wire

CONSTANT REDACTED     \* the placeholder a secret's text is stored as

BANK_SLOTS  == 5
METER_COUNT == 11
FULL_SCALE  == 16383
TEMPO_BPM_SCALE       == 64
EXTENDED_ADDRESS_BASE == 128 * 128
METER_BASE            == 15950
BANK == 100701     \* CURRENT_BANK_ADDRESS
SLOT == 100702     \* CURRENT_RIG_SLOT_ADDRESS
EFFECT_PAGES == <<50, 51, 52, 53, 56, 58, 60, 61>>

-----------------------------------------------------------------------------
(***************************************************************************)
(* The routing table.                                                       *)
(***************************************************************************)

\* A row as most are: slow, taken from both wires, deduped, asked for.
Row(address, field, slot, kind) ==
  [address |-> address, field |-> field, slot |-> slot, kind |-> kind,
   lane |-> "Slow", wire |-> "Both", dedupe |-> TRUE, request |-> TRUE,
   refresh |-> None]
Fast(row)             == [row EXCEPT !.lane = "Fast", !.request = FALSE]
From(only, row)      == [row EXCEPT !.wire = only, !.request = FALSE]
Every(row)            == [row EXCEPT !.dedupe = FALSE]
Refreshed(group, row) == [row EXCEPT !.refresh = group]

RigRows ==
  {Refreshed("Rig", Row(r[1], r[2], 0, "Text")) :
     r \in {<<1, "RigName">>, <<2, "RigAuthor">>, <<3, "RigDate">>,
            <<4, "RigComment">>, <<16, "AmpName">>, <<32, "CabinetName">>}}
  \union {Row(512, "TempoBpm", 0, "Bpm"), Row(513, "RigVolume", 0, "U14"),
          Row(1282, "AmpOn", 0, "Bool"), Row(1284, "AmpGain", 0, "U14"),
          [Row(1538, "CabinetOn", 0, "Bool") EXCEPT !.request = FALSE],
          From("Control", Row(119, "MorphPosition", 0, "U14"))}

EffectRows ==
  UNION {LET base == EFFECT_PAGES[i] * 128
         IN  {Refreshed("Rig", Row(base, "EffectType", i - 1, "U14")),
              Refreshed("Rig", Row(base + 3, "EffectOn", i - 1, "Bool")),
              [Row(base + 4, "EffectMix", i - 1, "U14") EXCEPT !.request = FALSE]} :
         i \in DOMAIN EFFECT_PAGES}

RealtimeRows ==
  {Fast(From("Stream", Every(Row(80, "MorphButton", 0, "Bool")))),
   Fast(From("Stream", Every(Row(15872, "BeatPulse", 0, "Bool")))),
   Fast(From("Stream", Row(15887, "TunerDeviance", 0, "U14"))),
   From("Stream", Row(16084, "TunerNote", 0, "U7")),
   Fast(Every(Row(102405, "SessionCounter", 0, "U35")))}
  \union {Fast(From("Stream", Every(Row(METER_BASE + s, "Status", s, "Multi")))) :
            s \in 0 .. METER_COUNT - 1}

SystemRows ==
  {Row(16256, "MainVolume", 0, "U14"), Row(16257, "HeadphoneVolume", 0, "U14"),
   Row(16258, "MonitorVolume", 0, "U14"),
   Refreshed("Position", Row(BANK, "CurrentBank", 0, "U16")),
   Refreshed("Position", Row(SLOT, "CurrentRigSlot", 0, "U16"))}
  \union {Refreshed("Bank", Row(19200 + 5 * k + s,
             <<"BankRigName", "BankAmpName", "BankCabinetName">>[k + 1], s, "Text")) :
            k \in 0 .. 2, s \in 0 .. BANK_SLOTS - 1}

STATE_ROUTES == RigRows \union EffectRows \union RealtimeRows \union SystemRows

\* An address has one row, and a leaf one address.
ASSUME RoutesAssumption ==
  \A r, s \in STATE_ROUTES :
    r.address = s.address \/ (r.field = s.field /\ r.slot = s.slot) => r = s

RouteTable == [a \in {r.address : r \in STATE_ROUTES} |->
                 CHOOSE r \in STATE_ROUTES : r.address = a]
route(address) == IF address \in DOMAIN RouteTable THEN RouteTable[address] ELSE None

-----------------------------------------------------------------------------
(***************************************************************************)
(* The tree.                                                                *)
(***************************************************************************)

Leaves == {<<r.field, r.slot>> : r \in STATE_ROUTES}

\* DeviceState::new(): nothing seen, the meters at zero.
NewTree == [leaf |-> [l \in Leaves |-> IF l[1] = "Status" THEN 0 ELSE None],
            stream_open |-> FALSE, dump |-> FALSE, touched |-> {}]

begin_dump(t) == [t EXCEPT !.dump = TRUE,  !.touched = {}]
end_dump(t)   == [t EXCEPT !.dump = FALSE, !.touched = {}]

current_bank(t)     == t.leaf[<<"CurrentBank", 0>>]
current_rig_slot(t) == t.leaf[<<"CurrentRigSlot", 0>>]

\* None until both halves are known, and for a product past sixteen bits.
current_rig_index(t) ==
  IF current_bank(t) = None \/ current_rig_slot(t) = None THEN None
  ELSE LET flat == current_bank(t) * BANK_SLOTS + current_rig_slot(t)
       IN  IF flat > 65535 THEN None ELSE flat

aimed_rig_index(t, aim) == IF aim # None THEN aim ELSE current_rig_index(t)

-----------------------------------------------------------------------------
(***************************************************************************)
(* The rules.                                                               *)
(***************************************************************************)

\* Rule 3: only while a stream is there to supply the better copy.
refuses(row, source, stream_open) ==
  stream_open /\ row.wire = "Stream" /\ source = "Control"

\* Rule 4: the shapes a kind takes.
accepts(kind, decoded) ==
  CASE decoded.kind = "Text"  -> kind = "Text"
    [] decoded.kind = "Num"   -> kind # "Text"
    [] decoded.kind = "Block" -> kind = "Multi"

\* Rule 5: the value stored, None when it is out of the row's range.  A short
\* frame is filled with zeros and a long one cut.
decode(row, address, decoded) ==
  LET n == decoded.num IN
  CASE decoded.kind = "Block" ->
         [i \in 1 .. METER_COUNT |->
            IF i <= Len(decoded.vals) THEN decoded.vals[i] ELSE 0]
    [] row.kind = "Text" ->
         IF is_sensitive(address) THEN REDACTED ELSE decoded.vals
    [] row.kind \in {"U14", "Multi"} -> IF n > FULL_SCALE THEN None ELSE n
    [] row.kind = "U16"  -> IF n > 65535 THEN None ELSE n
    [] row.kind = "U35"  -> n      \* HUGE is a value of 35 bits
    [] row.kind = "U7"   -> n % 128
    [] row.kind = "Bool" -> n # 0
    [] row.kind = "Bpm"  -> IF n > FULL_SCALE THEN None ELSE n \div TEMPO_BPM_SCALE

Outcome(tree, events, slow, positions) ==
  [tree |-> tree, events |-> events, slow_changed |-> slow, positions |-> positions]
Nothing(t) == Outcome(t, <<>>, FALSE, <<>>)

\* Rule 2: a number of the stream at a page and a number is still an event.
untracked(t, u) ==
  IF /\ u.source = "Stream" /\ u.decoded.kind = "Num"
     /\ u.address < EXTENDED_ADDRESS_BASE /\ u.decoded.num <= 65535
    THEN Outcome(t, <<<<"ParamChanged", u.address, u.decoded.num>>>>, FALSE, <<>>)
    ELSE Nothing(t)

\* What a position row tells the Navigator, folded or deduped.
position_report(t, field) ==
  IF field \in {"CurrentBank", "CurrentRigSlot"} /\ current_rig_index(t) # None
    THEN <<current_rig_index(t)>> ELSE <<>>

\* Rule 8: the leaf written.  The momentaries store nothing; a frame replaces
\* the eleven meters, a single meter its own.
Stores(row) == row.field \notin {"MorphButton", "BeatPulse"}
write(t, row, value, whole) ==
  IF whole
    THEN [t EXCEPT !.leaf = [l \in Leaves |-> IF l[1] = "Status" THEN value[l[2] + 1]
                                              ELSE t.leaf[l]]]
    ELSE IF Stores(row) THEN [t EXCEPT !.leaf[<<row.field, row.slot>>] = value] ELSE t

\* The row's events, from the tree as written.  The generic event says what
\* arrived on the wire for a switch, and the value stored otherwise.
events(t, row, value, raw) ==
  LET clamped == IF raw > 65535 THEN 65535 ELSE raw
      number  == row.address % 128
      f       == row.field
  IN  CASE f = "RigName" -> <<<<"StringTag", number>>, <<"RigChanged">>>>
        [] f \in {"RigAuthor", "RigDate", "RigComment", "AmpName", "CabinetName"} ->
             <<<<"StringTag", number>>>>
        [] f \in {"BankRigName", "BankAmpName", "BankCabinetName"} ->
             <<<<"BankPreview", number>>>>
        [] f \in {"EffectType", "EffectOn", "EffectMix"} ->
             <<<<"EffectChanged", row.slot>>>>
        [] f \in {"CurrentBank", "CurrentRigSlot"} ->
             <<<<"CurrentPosition", current_bank(t), current_rig_slot(t)>>>>
        [] f = "Status" ->
             <<<<"Status", [s \in 0 .. METER_COUNT - 1 |-> t.leaf[<<"Status", s>>]]>>>>
        [] f \in {"AmpOn", "CabinetOn"} -> <<<<"ParamChanged", row.address, clamped>>>>
        [] f \in {"RigVolume", "AmpGain", "MainVolume", "HeadphoneVolume",
                  "MonitorVolume"} -> <<<<"ParamChanged", row.address, value>>>>
        [] f = "SessionCounter" -> <<<<"SessionCounter">>>>
        [] OTHER -> <<<<f, value>>>>

\* Rules 5 to 8, for an update its row takes.
Fold(t, row, u) ==
  LET value   == decode(row, u.address, u.decoded)
      marked  == IF t.dump /\ u.phase = "Live"
                   THEN [t EXCEPT !.touched = @ \union {u.address}] ELSE t
      old     == IF Stores(row) THEN t.leaf[<<row.field, row.slot>>] ELSE None
      written == write(marked, row, value, u.decoded.kind = "Block")
  IN  CASE value = None -> Nothing(t)
        [] value # None /\ t.dump /\ u.phase = "Dump" /\ u.address \in t.touched ->
             Nothing(t)
        [] OTHER ->
             IF row.dedupe /\ old = value
               THEN Outcome(marked, <<>>, FALSE, position_report(t, row.field))
               ELSE Outcome(written, events(written, row, value, u.decoded.num),
                            row.lane = "Slow", position_report(written, row.field))

\* Rules 1 to 4.
ApplyOne(t, u) ==
  LET row == route(u.address)
  IN  IF row = None THEN untracked(t, u)
      ELSE IF refuses(row, u.source, t.stream_open) \/ ~accepts(row.kind, u.decoded)
        THEN untracked(t, u)
        ELSE Fold(t, row, u)

\* Outcomes one after the other, merged.
Merged(out, u) ==
  LET step == ApplyOne(out.tree, u)
  IN  Outcome(step.tree, out.events \o step.events,
              out.slow_changed \/ step.slow_changed, out.positions \o step.positions)
ApplyAll(out, us) == Through(Merged, out, us)

\* The funnel: a block that is not the meter frame is folded value by value.
apply_update(t, u) ==
  LET elements == [i \in DOMAIN u.decoded.vals |->
                     [u EXCEPT !.address = @ + i - 1,
                               !.decoded = Num(u.decoded.vals[i])]]
  IN  IF u.decoded.kind = "Block" /\ u.address # METER_BASE THEN ApplyAll(Nothing(t), elements)
      ELSE ApplyOne(t, u)

\* DeviceState::apply: one message of the stream.
apply(t, msg) ==
  LET said == decode_stream(msg)
  IN  IF said.update # None THEN apply_update(t, said.update)
      ELSE IF said.rendered # None
        THEN Outcome(t, <<<<"RenderedString", said.rendered>>>>, FALSE, <<>>)
        ELSE Nothing(t)

=============================================================================
