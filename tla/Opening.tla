------------------------------- MODULE Opening -------------------------------
(***************************************************************************)
(* Opening a session on a socket (session.rs): the greeting, the protocol   *)
(* chosen and its acknowledgement, each read until the device pauses, and   *)
(* what came with the acknowledgement.  open_stream (links.rs) takes what   *)
(* it can get, ControlLink::open (cbor.rs) its own protocol or none.        *)
(*                                                                         *)
(* A GUID is shortened to two bytes, the 256 bytes of a read to MaxRead.    *)
(* The wait for the ledger before a dial is in Ledger.                      *)
(***************************************************************************)
EXTENDS Wire

CONSTANTS
  Offers,     \* the lists of protocols a device may offer
  Sizes,      \* how many bytes a read may take
  MaxRead,    \* how many end a read_available
  InFlight    \* bound on the stream's bytes on their way

ASSUME OpeningAssumption ==
  /\ Sizes \subseteq Nat \ {0} /\ MaxRead \in Nat \ {0} /\ InFlight \in Nat

VARIABLES
  client,   \* the opening: what for, at which device, where it is
  inbox,    \* the bytes on their way to it
  peer,     \* the device's end
  paused    \* the device has paused inside a line for longer than the idle gap

opening == <<client, inbox, peer, paused>>

CRLF == <<13, 10>>
HANDSHAKE_LIST_END      == <<46>>
HANDSHAKE_ACCEPT_PREFIX == 43
HANDSHAKE_REJECT_PREFIX == 45
PROTOCOL_MIDI3_STREAM     == <<83, 125>>
PROTOCOL_CBOR_CONTROL     == <<67, 125>>
PROTOCOL_REQUEST_RESPONSE == <<82, 125>>

Idle == [at |-> "idle", kind |-> None, ip |-> None, waits |-> "first",
         buf |-> <<>>, selected |-> None, tail |-> <<>>]
NoPeer == [at |-> "none", offers |-> <<>>, asked |-> None, protocol |-> None,
           next |-> 0, gone |-> FALSE]

OpeningInit ==
  client = Idle /\ inbox = <<>> /\ peer = NoPeer /\ paused = FALSE

-----------------------------------------------------------------------------
(***************************************************************************)
(* The device's end.                                                        *)
(***************************************************************************)

Greeting(offers) ==
  Concat([i \in DOMAIN offers |-> offers[i] \o CRLF]) \o HANDSHAKE_LIST_END \o CRLF

\* It fits in one read.
ASSUME GreetingAssumption ==
  \A o \in Offers : o \in Seq(Seq(Byte)) /\ Len(Greeting(o)) < MaxRead

\* What it streams once it serves a protocol: three bytes over and over, a line
\* end among them.
Data(i) == <<13, 10, 7>>[(i % 3) + 1]

Open == client.at \in {"greeting", "reply"}

\* It greets when it gets to it.
Greets ==
  /\ Open /\ peer.at = "quiet" /\ ~peer.gone
  /\ peer' = [peer EXCEPT !.at = "greeted"]
  /\ inbox' = inbox \o Greeting(peer.offers)
  /\ UNCHANGED <<client, paused>>

\* It accepts what it has offered.
Answers ==
  LET offered == \E i \in DOMAIN peer.offers : peer.offers[i] = peer.asked IN
  /\ Open /\ peer.at = "greeted" /\ peer.asked # None /\ ~peer.gone
  /\ peer' = [peer EXCEPT !.at = "serving",
                          !.protocol = IF offered THEN peer.asked ELSE None]
  /\ inbox' = inbox \o <<IF offered THEN HANDSHAKE_ACCEPT_PREFIX
                                    ELSE HANDSHAKE_REJECT_PREFIX>> \o peer.asked \o CRLF
  /\ UNCHANGED <<client, paused>>

\* It pushes at once, and never need pause.
Streams ==
  /\ Open /\ peer.protocol # None /\ ~peer.gone /\ Len(inbox) < InFlight
  /\ peer' = [peer EXCEPT !.next = (@ + 1) % 3]
  /\ inbox' = Append(inbox, Data(peer.next))
  /\ UNCHANGED <<client, paused>>

HangsUp ==
  /\ Open /\ ~peer.gone
  /\ peer' = [peer EXCEPT !.gone = TRUE]
  /\ UNCHANGED <<client, inbox, paused>>

-----------------------------------------------------------------------------
(***************************************************************************)
(* The client's end.                                                        *)
(***************************************************************************)

\* The names up to the list's end, one to a line; an empty line is none.
parse_protocol_list(bytes) ==
  LET ending(i) == i \notin DOMAIN bytes \/ bytes[i] \in {13, 10}
      line(i)   == SubSeq(bytes, i, Min({e \in i .. Len(bytes) : ending(e + 1)}))
      starts    == {i \in DOMAIN bytes : ~ending(i) /\ ending(i - 1)}
      names     == {i \in starts : \A j \in starts : j <= i => line(j) # HANDSHAKE_LIST_END}
      nth(n)    == CHOOSE i \in names : Cardinality({j \in names : j <= i}) = n
  IN  [n \in 1 .. Cardinality(names) |-> line(nth(n))]

\* Mutant: a control link falls back like the stream does.
Chosen_FallsBack(kind, offered) ==
  LET want == IF kind = "stream" THEN PROTOCOL_MIDI3_STREAM ELSE PROTOCOL_CBOR_CONTROL
  IN  IF \E i \in DOMAIN offered : offered[i] = want THEN want
      ELSE IF offered = <<>> THEN None ELSE Head(offered)

\* The protocol wanted if it is offered; for the stream, else the first that is.
Chosen(kind, offered) ==
  LET want == IF kind = "stream" THEN PROTOCOL_MIDI3_STREAM ELSE PROTOCOL_CBOR_CONTROL
  IN  IF \E i \in DOMAIN offered : offered[i] = want THEN want
      ELSE IF kind = "control" \/ offered = <<>> THEN None ELSE Head(offered)

\* What followed the acknowledgement's line end.
response_tail(response) ==
  LET at == {i \in 1 .. Len(response) - 1 : SubSeq(response, i, i + 1) = CRLF}
  IN  IF at = {} THEN <<>> ELSE SubSeq(response, Min(at) + 2, Len(response))

Fails == client' = [Idle EXCEPT !.at = "failed", !.kind = client.kind]

\* connect_to_timeout: the dial.
Dial(ip, kind) ==
  /\ client.at = "idle"
  /\ client' = [Idle EXCEPT !.at = "dial", !.kind = kind, !.ip = ip]
  /\ UNCHANGED <<inbox, peer, paused>>
DialEnds ==
  /\ client.at = "dial"
  /\ \/ Fails /\ UNCHANGED peer      \* refused, or out of time
     \/ /\ client' = [client EXCEPT !.at = "greeting"]
        /\ \E o \in Offers : peer' = [NoPeer EXCEPT !.at = "quiet", !.offers = o]
  /\ UNCHANGED <<inbox, paused>>

\* The greeting has been read: the choice is written, unless there is none, or
\* the device has hung up and the write fails.
GreetingRead(buf) ==
  LET chosen == Chosen(client.kind, parse_protocol_list(buf)) IN
  \/ /\ chosen # None
     /\ client' = [client EXCEPT !.at = "reply", !.waits = "first", !.buf = <<>>,
                                 !.selected = chosen]
     /\ peer' = [peer EXCEPT !.asked = chosen]
  \/ /\ chosen = None \/ peer.gone
     /\ Fails /\ UNCHANGED peer

\* select_protocol_within: silence and a '-' are failures.  The preamble, and a
\* control link's trigger, are written.
ReplyRead(buf) ==
  /\ UNCHANGED peer
  /\ IF buf = <<>> \/ Head(buf) = HANDSHAKE_REJECT_PREFIX
       THEN Fails
       ELSE \/ client' = [client EXCEPT !.at = "open", !.buf = <<>>,
                                        !.tail = response_tail(buf)]
            \/ peer.gone /\ Fails

\* A read_available_within is over.
HasRead(buf) == IF client.at = "greeting" THEN GreetingRead(buf) ELSE ReplyRead(buf)

\* One read of it: MaxRead bytes end it.
Reads(n) ==
  LET took == SubSeq(inbox, 1, n)
      buf  == client.buf \o took
  IN  /\ Open /\ n \in 1 .. Len(inbox)
      /\ inbox' = SubSeq(inbox, n + 1, Len(inbox))
      /\ IF Len(buf) >= MaxRead THEN HasRead(buf)
         ELSE /\ client' = [client EXCEPT !.buf = buf, !.waits = "idle"]
              /\ UNCHANGED peer
      /\ UNCHANGED paused

\* The line being read has come to its end.
WholeLine ==
  LET b == client.buf IN
  IF client.at = "greeting"
    THEN b = <<>> \/ b = Greeting(peer.offers)
    ELSE b = <<>> \/ \E i \in 1 .. Len(b) - 1 : SubSeq(b, i, i + 1) = CRLF

\* Mutant: the wait for the first byte has no bound.
MayElapse_First(waits) == waits = "idle"

\* Each wait is bounded: the first byte's, and the gap after it.
MayElapse(waits) == waits \in {"first", "idle"}

\* The timer goes off.  With bytes still to come that is a pause.
Elapses ==
  /\ Open /\ MayElapse(client.waits)
  /\ client.waits = "first" => inbox = <<>>
  /\ paused' = (paused \/ ~WholeLine)
  /\ HasRead(client.buf)
  /\ UNCHANGED inbox

\* The device has hung up: what has come in before is still good.
Eof ==
  /\ Open /\ peer.gone /\ inbox = <<>>
  /\ IF client.buf = <<>> THEN Fails /\ UNCHANGED peer ELSE HasRead(client.buf)
  /\ UNCHANGED <<inbox, paused>>

\* A read takes a number of bytes that is allowed, or all there are.
OpenStep ==
  \/ DialEnds \/ Elapses \/ Eof
  \/ \E n \in Sizes : Reads(IF n < Len(inbox) THEN n ELSE Len(inbox))

PeerStep == Greets \/ Answers \/ Streams \/ HangsUp

=============================================================================
