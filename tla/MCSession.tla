----------------------------- MODULE MCSession ------------------------------
(* One device and one other client on the network; a greeting of all three   *)
(* protocols, of the stream alone, and of none; and a client of the stream    *)
(* whose calls are each made once or twice.                                   *)
EXTENDS Session

MCMac     == <<48>>
MCReplies == [d \in {"device"} |-> DISCOVERY_HEADER \o field(<<78, 65, 77, 69, 75>>) \o <<0>>]
MCOffers  == {<<PROTOCOL_REQUEST_RESPONSE, PROTOCOL_CBOR_CONTROL, PROTOCOL_MIDI3_STREAM>>,
              <<PROTOCOL_MIDI3_STREAM>>, <<>>}

Setting(name, slot, v) == [call |-> name, slot |-> slot, to |-> v]
SettingsMade ==
  {Setting("set_gain", None, 16383), Setting("set_rig_volume", None, 0),
   Setting("set_main_volume", None, 129), Setting("set_monitor_volume", None, 1),
   Setting("set_tempo_bpm", None, 120), Setting("set_tempo_bpm", None, 300),
   Setting("set_effect_enabled", "REV", FALSE), Setting("set_effect_mix", "A", 5000),
   Setting("set_effect_mix", "nope", 1)}

Made(name, given) == [call |-> name, of |-> given]
CommandsMade ==
  {Made("send_control", Control(name, 1)) :
     name \in DOMAIN CC \union {"Up", "Down", "LoadSlot"}}
  \union {Made("send_control", Control("SlotEnable", <<"DLY", 1>>)),
          Made("send_control", Control("ProgramChange", 3)),
          Made("send_control", Control("BankSelect", <<0, 1>>)),
          Made("effect_button", 9), Made("tuner_mode", 0),
          Made("bank", 3), Made("bank", 130),
          Made("send_raw", <<\HB0, 30, 1>> \o tap(51)),
          Made("send_raw", <<\HC1, 1>>), Made("send_raw", <<\HB0, 47, 1>>),
          Made("send_beacon", <<TRUE, TRUE, 30>>), Made("set_param", <<10, 4, 20000>>)}

MCAims == {0, 7, 12, 640}
MCWrites == {<<1284, 20000>>, <<SLOT, 2>>, <<513, -1>>}
AsksMade == {refresh(None), refresh("Rig"), refresh("Bank"), refresh("Position"),
           request_param(10, 4), request_param(4, 0), request_param(50, 4),
           request_param(0, 119), request_param(0, 80), request_text(0, 1), request_ext_param(BANK),
           request_ext_string(200008), request_render(10, 4, 8192)}
\* TLC evaluates a definition once, but what stands for a constant each time.
MCSettings == SettingsMade
MCCommands == CommandsMade
MCAsks     == AsksMade
MCMutes == {{}, {1284}}
TextsMade == [a \in {r.address : r \in STATE_ROUTES} \union {200008} |-> <<65 + (a % 26)>>]
MCTexts == TextsMade

=============================================================================
