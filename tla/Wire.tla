-------------------------------- MODULE Wire --------------------------------
(***************************************************************************)
(* The stream's bytes: the four-byte MIDI3 frames (midi3.rs), the SysEx     *)
(* messages inside them (nrpn.rs), and what a message decodes to before the *)
(* tree sees it (state.rs, decode_stream).                                  *)
(*                                                                         *)
(* A byte is a number below 256, a message a sequence of bytes, a text the  *)
(* sequence of its characters' bytes.  An Option is a value or None.        *)
(***************************************************************************)
EXTENDS Integers, SequencesExt

CONSTANT None     \* Option::None

\* TLC's integers stop at 2^31 - 1: HUGE stands for that and everything above.
\* As an address it is one that u32 cannot hold.
HUGE == 2147483647

Byte == 0 .. 255

MANUFACTURER_ID == <<0, 32, 51>>
DEVICE_OMNI     == 127

\* The bytes a SysEx message begins and ends with: F0 and F7.
SYSEX == 240
EOX   == 247

\* SysEx functions (generated.rs has them in hexadecimal).
FN == [SINGLE |-> 1, MULTI |-> 2, STRING |-> 3, EXT |-> 6,
       EXT_STRING |-> 7, RENDERED |-> 60, REQUEST_SINGLE |-> 65,
       REQUEST_MULTI |-> 66, REQUEST_STRING |-> 67, REQUEST_EXT |-> 70,
       REQUEST_EXT_STRING |-> 71, REQUEST_RENDERED |-> 124]

\* Where the elements of s take x, one after the other: FoldLeft, which TLC is
\* slow at, as a recursive function.
Through(step(_, _), x, s) ==
  LET run[i \in 0 .. Len(s)] == IF i = 0 THEN x ELSE step(run[i - 1], s[i])
  IN  run[Len(s)]

Concat(seqs) == Through(LAMBDA s, t : s \o t, <<>>, seqs)

-----------------------------------------------------------------------------
(***************************************************************************)
(* Frames: a tag and three bytes.                                           *)
(***************************************************************************)

TAG_CONT == 20

\* How many of the three bytes count; 0 for a tag that is none of the four.
Valid(tag) == CASE tag = TAG_CONT -> 3
                [] tag \in TAG_CONT + 1 .. TAG_CONT + 3 -> tag - TAG_CONT
                [] OTHER -> 0

frame(msg) ==
  LET groups == (Len(msg) + 2) \div 3
      count(g) == IF g = groups THEN Len(msg) - 3 * (g - 1) ELSE 3
      group(g) == <<TAG_CONT + (IF g = groups THEN count(g) ELSE 0)>>
                    \o [i \in 1 .. 3 |->
                          IF i <= count(g) THEN msg[3 * (g - 1) + i] ELSE 0]
  IN  Concat([g \in 1 .. groups |-> group(g)])

\* An Unframer, and the messages its last push completed.
Unframer    == [partial : Seq(Byte), current : Seq(Byte), out : Seq(Seq(Byte))]
NewUnframer == [partial |-> <<>>, current |-> <<>>, out |-> <<>>]

\* A turn of the loop.  A byte that is no tag is dropped, and the message in
\* progress with it.
Turned(u) ==
  LET tag     == Head(u.partial)
      current == u.current \o SubSeq(u.partial, 2, 1 + Valid(tag))
      rest    == SubSeq(u.partial, 5, Len(u.partial))
  IN  IF Valid(tag) = 0
        THEN [u EXCEPT !.partial = Tail(@), !.current = <<>>]
      ELSE IF tag = TAG_CONT
        THEN [u EXCEPT !.partial = rest, !.current = current]
      ELSE [partial |-> rest, current |-> <<>>, out |-> Append(u.out, current)]

Unframe[u \in Unframer] == IF Len(u.partial) < 4 THEN u ELSE Unframe[Turned(u)]

\* Mutant: the bytes short of a frame are dropped with the read they came in.
UnframerPush_DropsPartial(u, data) ==
  Unframe[[partial |-> data, current |-> u.current, out |-> <<>>]]

UnframerPush(u, data) == Unframe[[u EXCEPT !.partial = @ \o data, !.out = <<>>]]

-----------------------------------------------------------------------------
(***************************************************************************)
(* SysEx messages.                                                          *)
(***************************************************************************)

u14(msb, lsb)    == (msb % 128) * 128 + (lsb % 128)
u14_split(value) == <<(value \div 128) % 128, value % 128>>

\* Big-endian, seven bits a byte.  One more byte than 2^24 can take is HUGE.
Sevens == <<1, 128, 16384, 2097152, 268435456>>
Shifted(acc, byte) == IF acc >= 16777216 THEN HUGE ELSE acc * 128 + (byte % 128)
ext_decode(bytes) == Through(Shifted, 0, bytes)
ext_encode(value, n) == [i \in 1 .. n |-> (value \div Sevens[n - i + 1]) % 128]

sysex(product, device, function, page, number, values) ==
  <<SYSEX>> \o MANUFACTURER_ID
    \o <<product, device, function, 0, page, number>> \o values \o <<EOX>>

request_string(product, page, number) ==
  sysex(product, DEVICE_OMNI, FN.REQUEST_STRING, page, number, <<>>)
request_single(product, page, number) ==
  sysex(product, DEVICE_OMNI, FN.REQUEST_SINGLE, page, number, <<>>)
request_multi(product, page, number) ==
  sysex(product, DEVICE_OMNI, FN.REQUEST_MULTI, page, number, <<>>)
request_rendered_string(product, page, number, value) ==
  sysex(product, DEVICE_OMNI, FN.REQUEST_RENDERED, page, number, u14_split(value))
set_single(product, page, number, value) ==
  sysex(product, DEVICE_OMNI, FN.SINGLE, page, number, u14_split(value))

ExtRequest(product, function, address) ==
  <<SYSEX>> \o MANUFACTURER_ID \o <<product, DEVICE_OMNI, function, 0>>
    \o ext_encode(address, 5) \o <<EOX>>
request_extended_param(product, address) ==
  ExtRequest(product, FN.REQUEST_EXT, address)
request_extended_string(product, address) ==
  ExtRequest(product, FN.REQUEST_EXT_STRING, address)

\* The answers to them, the first of which the device pushes on its own as well.
ExtParam(address, value) ==
  <<SYSEX>> \o MANUFACTURER_ID \o <<2, 0, FN.EXT, 0>>
    \o ext_encode(address, 5) \o ext_encode(value, 5) \o <<EOX>>

ExtString(address, text) ==
  <<SYSEX>> \o MANUFACTURER_ID \o <<2, 0, FN.EXT_STRING, 0>>
    \o ext_encode(address, 5) \o text \o <<EOX>>

\* The beacon: `init` on a session's first, the lease in steps of two seconds.
beacon_flags(init, tuner) ==
  (IF init THEN 1 ELSE 0) + 2 + (IF tuner THEN 32 ELSE 0)
beacon(init, tuner, lease, param_set, product) ==
  <<SYSEX>> \o MANUFACTURER_ID
    \o <<product, DEVICE_OMNI, 126, 0, 64, param_set,
         beacon_flags(init, tuner), lease \div 2, EOX>>

control_change(channel, controller, value) ==
  <<176 + (channel % 16), controller % 128, value % 128>>

is_kemper_sysex(msg) ==
  /\ Len(msg) >= 5 /\ msg[1] = SYSEX
  /\ SubSeq(msg, 2, 4) = MANUFACTURER_ID
  /\ Last(msg) = EOX

\* NrpnHeader, with the bytes before the last; and its parse.
Header == [product : Byte, device : Byte, function : Byte, instance : Byte,
           page : Byte, number : Byte, vals : Seq(Byte)]
parse(msg) ==
  IF Len(msg) < 11 \/ msg[1] # SYSEX \/ SubSeq(msg, 2, 4) # MANUFACTURER_ID
    THEN None
    ELSE [product |-> msg[5], device |-> msg[6], function |-> msg[7],
          instance |-> msg[8], page |-> msg[9], number |-> msg[10],
          vals |-> SubSeq(msg, 11, Len(msg) - 1)]

until_nul(bytes) ==
  LET nuls == {i \in DOMAIN bytes : bytes[i] = 0}
  IN  IF nuls = {} THEN bytes ELSE SubSeq(bytes, 1, Min(nuls) - 1)

\* The consecutive values of a $02 block; an odd byte at the end is ignored.
multi_values(vals) ==
  [i \in 1 .. Len(vals) \div 2 |-> u14(vals[2 * i - 1], vals[2 * i])]

\* What the two extended forms share: the length, the function, the F7, and an
\* address that fits 32 bits.
ExtAddress(msg, function, least) ==
  IF Len(msg) < least \/ parse(msg) = None \/ msg[7] # function \/ Last(msg) # EOX
    THEN None
    ELSE LET a == ext_decode(SubSeq(msg, 9, 13)) IN IF a = HUGE THEN None ELSE a

\* cbor.rs: an address whose text is a secret of the device's.
SENSITIVE_ADDRESSES == {200008, 200009}
is_sensitive(addr)  == addr \in SENSITIVE_ADDRESSES

Num(n)    == [kind |-> "Num",   num |-> n, vals |-> <<>>]
Text(s)   == [kind |-> "Text",  num |-> 0, vals |-> s]
Block(vs) == [kind |-> "Block", num |-> 0, vals |-> vs]

Update(source, phase, address, decoded) ==
  [source |-> source, phase |-> phase, address |-> address, decoded |-> decoded]
Ignored == [rendered |-> None, update |-> None]
Live(address, decoded) ==
  [rendered |-> None, update |-> Update("Stream", "Live", address, decoded)]

parse_extended_param(msg) ==
  LET a == ExtAddress(msg, FN.EXT, 19)
  IN  IF a = None THEN Ignored
      ELSE Live(a, Num(ext_decode(SubSeq(msg, 14, 18))))

parse_extended_string(msg) ==
  LET a == ExtAddress(msg, FN.EXT_STRING, 14)
  IN  IF a = None THEN Ignored
      ELSE Live(a, Text(until_nul(SubSeq(msg, 14, Len(msg) - 1))))

\* A $3C reply is an event of its own and never routed.
parse_rendered_string(h) ==
  IF Len(h.vals) < 2 THEN Ignored
  ELSE [Ignored EXCEPT !.rendered =
         [page |-> h.page, number |-> h.number, value |-> u14(h.vals[1], h.vals[2]),
          text |-> until_nul(SubSeq(h.vals, 3, Len(h.vals)))]]

decode_stream(msg) ==
  LET h    == parse(msg)
      flat == h.page * 128 + h.number
  IN  IF h = None THEN Ignored ELSE
      CASE h.function = FN.EXT         -> parse_extended_param(msg)
        [] h.function = FN.EXT_STRING  -> parse_extended_string(msg)
        [] h.function = FN.STRING      -> Live(flat, Text(until_nul(h.vals)))
        [] h.function = FN.SINGLE /\ Len(h.vals) >= 2 ->
             Live(flat, Num(u14(h.vals[1], h.vals[2])))
        [] h.function = FN.MULTI       -> Live(flat, Block(multi_values(h.vals)))
        [] h.function = FN.RENDERED    -> parse_rendered_string(h)
        [] OTHER                       -> Ignored

=============================================================================
