------------------------------- MODULE Session -------------------------------
(***************************************************************************)
(* A session from its beginning: a device is found, one of its protocols is *)
(* selected, and on the stream the model's own calls go out and come back.  *)
(* The control link ends with its opening here (Receive and Lifecycle take  *)
(* it from there), and a stream that is lost is not dialed again            *)
(* (Lifecycle).                                                             *)
(***************************************************************************)
EXTENDS Discovery, Opening, Surface

vars == <<discovery, opening, surface>>

Init == DiscoveryInit /\ OpeningInit /\ SurfaceInit

\* The caller takes a device the poll has found, and lets the port go.
Connect(ip, kind) ==
  /\ poller.at = "done" /\ ip \in Found
  /\ Dial(ip, kind)
  /\ poller' = Poller("idle") /\ port' = "free"
  /\ UNCHANGED <<lan, polled, surface>>

\* The stream's life begins: stream_opened.  A stream that had to take another
\* protocol goes no further here, nor one whose tail is cut by a pause.
Opened ==
  /\ client.at = "open" /\ client.selected = PROTOCOL_MIDI3_STREAM /\ ~paused
  /\ client' = [Idle EXCEPT !.at = "handed"]
  /\ inbox' = <<>> /\ peer' = NoPeer /\ UNCHANGED paused
  /\ tree' = [tree EXCEPT !.stream_open = TRUE]
  /\ UNCHANGED <<discovery, queue, gear, incoming, nav, call, sent, promised, calls>>

Finding == client.at = "idle" /\ UNCHANGED <<opening, surface>>
Opens   == UNCHANGED <<discovery, surface>>

Next ==
  \/ client.at = "idle" /\ Discover /\ Finding
  \/ Tick /\ Finding
  \/ \E ip \in Found, kind \in {"stream", "control"} : Connect(ip, kind)
  \/ OpenStep /\ Opens
  \/ PeerStep /\ Opens
  \/ Opened
  \/ client.at = "handed" /\ Serve /\ UNCHANGED <<discovery, opening>>

\* The poll's clock and its deadline, and the opening's own steps and timers.
Spec == /\ Init /\ [][Next]_vars
        /\ WF_vars(Tick /\ Finding) /\ WF_vars(PollEnds /\ Finding)
        /\ WF_vars(OpenStep /\ Opens)

-----------------------------------------------------------------------------
(***************************************************************************)
(* Properties.                                                              *)
(***************************************************************************)

\* Only a device is dialed, however many polls echo; a control link opens on
\* its own protocol or not at all; and unless the device has paused inside a
\* line for longer than the idle gap, an opened session is in the protocol the
\* device serves, and has of its bytes all but those still on their way, in
\* order (discovery.rs is_poll; session.rs select_protocol, response_tail).
OpensRight ==
  /\ client.ip \in Devices \union {None}
  /\ client.at = "open" =>
       /\ client.kind = "control" => client.selected = PROTOCOL_CBOR_CONTROL
       /\ ~paused =>
            /\ peer.protocol = client.selected
            /\ \A i \in DOMAIN client.tail : client.tail[i] = Data(i - 1)
            /\ (Len(client.tail) + Len(inbox)) % 3 = peer.next

\* A poll and an opening end, whatever the network and the device do: a device
\* that is silent, that never pauses, or that hangs up (discovery.rs poll;
\* session.rs read_available_within).
OpeningEnds ==
  /\ poller.at = "listening" ~> poller.at # "listening"
  /\ client.at \in {"dial", "greeting", "reply"} ~> client.at \in {"open", "failed"}

\* Every rig the device loads by our wire is one the Navigator sent, in the
\* order it sent them: no call beside it loads a rig, or comes between the two
\* messages of a load and sends it elsewhere (mod.rs send_raw, send_control;
\* nav.rs send_load).
LoadsAreAimed == IsPrefix(gear.loads, sent)

\* What the tree shows for an address, and what a reader is given for a text.
Leaf(a)  == tree.leaf[<<route(a).field, route(a).slot>>]
Shown(a) == IF is_sensitive(a) THEN REDACTED ELSE Texts[a]

\* A read that returns Ok, with nothing else going on and no question of an
\* earlier call still out, has read the device: its reply and the leaf of every
\* row it asked for are what the device holds, and what the last setter of each
\* meant (mod.rs setters, requests; lane.rs refresh).
ReadsShowDevice ==
  call.at = "done" /\ call.worst = "Ok" /\ call.stable =>
    \A k \in call.asked :
      LET a == k.address
          row == route(a)
          holds == IF k.shape = "Num" THEN gear.params[a] ELSE Shown(a)
      IN  /\ call.single => call.reply = holds
          /\ row # None /\ k.shape = "Num" /\ Stores(row) =>
               /\ Leaf(a) = decode(row, a, Num(holds))
               /\ promised[<<row.field, row.slot>>] \in {None, Leaf(a)}
          /\ row # None /\ k.shape = "Text" /\ row.kind = "Text" => Leaf(a) = holds

=============================================================================
