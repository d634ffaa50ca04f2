------------------------------ MODULE Discovery ------------------------------
(***************************************************************************)
(* Finding a device (discovery.rs, protocol.rs): the UDP port one process   *)
(* holds, the poll broadcast on it again and again, and the datagrams that  *)
(* come back: the devices' answers, but also this client's own poll and     *)
(* those of other clients, which broadcast to the same port.                *)
(***************************************************************************)
EXTENDS Wire

CONSTANTS
  Devices,      \* the addresses of the devices
  Strangers,    \* the addresses of other clients
  Self,         \* this client's address
  MAC,          \* the address a poll carries, as bytes
  ReplyOf,      \* what each device answers
  ListenFor,    \* Options.listen_for, in ticks
  RepeatEvery   \* Options.repeat_every, in ticks

ASSUME DiscoveryAssumption ==
  /\ Self \notin Devices /\ Strangers \intersect (Devices \union {Self}) = {}
  /\ ListenFor \in Nat \ {0} /\ RepeatEvery \in Nat \ {0}
  /\ MAC \in Seq(Byte) /\ Len(MAC) < 250     \* its field's length is a byte

VARIABLES
  port,     \* who holds the UDP port: "free", "ours" or "theirs"
  poller,   \* the poll in progress: where it is, the ticks left, the ticks to
            \* the next round, and the replies by address
  lan,      \* the datagrams on their way to the port
  polled    \* the devices that have an answer to give

discovery == <<port, poller, lan, polled>>

-----------------------------------------------------------------------------
(***************************************************************************)
(* The tag stream.                                                          *)
(***************************************************************************)

DISCOVERY_HEADER == <<68, 83, 67, 86>>               \* "DSCV"
POLL_MAC_PREFIX  == <<77, 65, 67, 35>>               \* "MAC#"
POLL_PAYLOAD     == <<80, 79, 76, 76, 58, 41>>       \* "POLL:)"
POLL_KEY         == SubSeq(POLL_PAYLOAD, 1, 4)

\* A field's length counts its own byte.
field(content) == <<Len(content) + 1>> \o content

build_poll_request(mac) ==
  DISCOVERY_HEADER \o field(POLL_MAC_PREFIX \o mac) \o field(POLL_PAYLOAD) \o <<0>>

Graphic(bytes) == \A i \in DOMAIN bytes : bytes[i] \in 33 .. 126

\* Where the fields begin: after a header, if four bytes look like one and the
\* fifth like a length.
detect_header(buf) ==
  IF /\ Len(buf) >= 5 /\ Graphic(SubSeq(buf, 1, 4))
     /\ buf[5] = 0 \/ 4 + buf[5] <= Len(buf)
    THEN 4 ELSE 0

\* The next field, up to the terminator or the end; one that overruns spoils all.
FieldTaken(p) ==
  LET length == Head(p.rest) IN
  IF p.rest = <<>> \/ length = 0 \/ p.overrun THEN p
  ELSE IF length > Len(p.rest) THEN [p EXCEPT !.overrun = TRUE]
  ELSE [p EXCEPT !.fields = @ \union {SubSeq(p.rest, 2, length)},
                 !.rest = SubSeq(@, length + 1, Len(@))]

\* TagStream::parse, and of its key_values who they are.
key_values(buf) ==
  LET begun  == [rest |-> SubSeq(buf, detect_header(buf) + 1, Len(buf)),
                 fields |-> {}, overrun |-> FALSE]
      parsed == Through(LAMBDA p, byte : FieldTaken(p), begun, begun.rest)
  IN  IF parsed.overrun THEN {}
      ELSE {f \in parsed.fields : Len(f) >= 4 /\ Graphic(SubSeq(f, 1, 4))}

\* A poll, ours or another client's, is not a device's reply.
is_poll(pkt) == \E kv \in key_values(pkt) : SubSeq(kv, 1, 4) = POLL_KEY

-----------------------------------------------------------------------------
(***************************************************************************)
(* DiscoveryPort.                                                           *)
(***************************************************************************)

NoReplies == [ip \in Devices \union Strangers \union {Self} |-> None]
Poller(at) == [at |-> at, left |-> 0, next |-> 0, replies |-> NoReplies]

DiscoveryInit ==
  /\ port \in {"free", "theirs"}
  /\ poller = Poller("idle") /\ lan = {} /\ polled = {}

\* acquire: bound exclusively, or refused.
Acquire ==
  /\ poller.at = "idle"
  /\ port' = IF port = "free" THEN "ours" ELSE port
  /\ poller' = IF port = "free" THEN Poller("bound") ELSE Poller("failed")
  /\ UNCHANGED <<lan, polled>>

\* send_round: one target that takes the poll is enough.  It comes back to the
\* port it was sent from.
SendRound ==
  /\ lan' = lan \union {[from |-> Self, payload |-> build_poll_request(MAC)]}
  /\ polled' = Devices
RoundFails ==
  /\ poller' = Poller("failed") /\ port' = "free"
  /\ UNCHANGED <<lan, polled>>

\* poll: the first round.
StartPoll ==
  /\ poller.at = "bound"
  /\ \/ /\ poller' = [Poller("listening") EXCEPT !.left = ListenFor,
                                                  !.next = RepeatEvery]
        /\ SendRound /\ UNCHANGED port
     \/ RoundFails

Listening == poller.at = "listening" /\ poller.left > 0

\* A turn of the loop: what it received, and another round if one is due.
Turn(replies, rest) ==
  IF poller.next = 0
    THEN \/ /\ poller' = [poller EXCEPT !.replies = replies, !.next = RepeatEvery]
            /\ lan' = rest \union {[from |-> Self, payload |-> build_poll_request(MAC)]}
            /\ polled' = Devices /\ UNCHANGED port
         \/ RoundFails
    ELSE /\ poller' = [poller EXCEPT !.replies = replies]
         /\ lan' = rest /\ UNCHANGED <<port, polled>>

\* One reply for each address, the last one.
Receive(d) ==
  /\ Listening /\ d \in lan
  /\ Turn(IF is_poll(d.payload) THEN poller.replies
          ELSE [poller.replies EXCEPT ![d.from] = d.payload],
          lan \ {d})

WindowEnds == Listening /\ poller.next = 0 /\ Turn(poller.replies, lan)

ReceiveFails == Listening /\ RoundFails

Tick ==
  /\ Listening
  /\ poller' = [poller EXCEPT !.left = @ - 1, !.next = IF @ = 0 THEN 0 ELSE @ - 1]
  /\ UNCHANGED <<port, lan, polled>>

\* The deadline is the poll's, whatever has come in meanwhile.
PollEnds ==
  /\ poller.at = "listening" /\ poller.left = 0
  /\ poller' = [Poller("done") EXCEPT !.replies = poller.replies]
  /\ lan' = {} /\ polled' = {} /\ UNCHANGED port

\* A device answers a poll, sooner or later or not at all; other clients poll.
DeviceAnswers(ip) ==
  /\ poller.at = "listening" /\ ip \in polled
  /\ polled' = polled \ {ip}
  /\ lan' = lan \union {[from |-> ip, payload |-> ReplyOf[ip]]}
  /\ UNCHANGED <<port, poller>>
StrangerPolls(ip) ==
  /\ poller.at = "listening"
  /\ lan' = lan \union {[from |-> ip, payload |-> build_poll_request(MAC)]}
  /\ UNCHANGED <<port, poller, polled>>

Discover ==
  \/ Acquire \/ StartPoll \/ ReceiveFails \/ WindowEnds \/ PollEnds
  \/ \E d \in lan : Receive(d)
  \/ \E ip \in Devices : DeviceAnswers(ip)
  \/ \E ip \in Strangers : StrangerPolls(ip)

Found == {ip \in DOMAIN poller.replies : poller.replies[ip] # None}

=============================================================================
