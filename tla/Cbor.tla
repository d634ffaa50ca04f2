-------------------------------- MODULE Cbor --------------------------------
(***************************************************************************)
(* The control channel's items (cbor.rs): the streaming decoder with its    *)
(* filler and its resynchronisation, the encoder, and the walk that turns   *)
(* items into the updates the tree folds.                                   *)
(*                                                                         *)
(* A float is kept as its bits; an argument past TLC's integers is HUGE.    *)
(***************************************************************************)
EXTENDS Wire

FILLER    == \HC0
BREAK     == \HFF
MAX_DEPTH == 32
DUMP_TRIGGER == 102528
DUMP_END     == 100800

\* A Value: its kind, its number or bits, its bytes, the values inside it (a
\* map's keys and values in turn).
Value(kind, num, bytes, items) ==
  [kind |-> kind, num |-> num, bytes |-> bytes, items |-> items]
Whole(n)     == Value("Int", n, <<>>, <<>>)
Str(s)     == Value("Text", 0, s, <<>>)
Array(vs)  == Value("Array", 0, <<>>, vs)
Tag(t, v)  == Value("Tag", t, <<>>, <<v>>)

-----------------------------------------------------------------------------
(***************************************************************************)
(* parse_item: a value and how many bytes it took, or why there is none.    *)
(***************************************************************************)

Parsed(value, used) == [status |-> "ok", value |-> value, used |-> used]
Fail(why)  == [status |-> why, value |-> Whole(0), used |-> 0]
Incomplete == Fail("Incomplete")
Invalid    == Fail("Invalid")

RECURSIVE Saturating(_)
Saturating(bytes) ==
  IF bytes = <<>> THEN 0
  ELSE LET acc == Saturating(Front(bytes))
       IN  IF acc >= 2^23 THEN HUGE ELSE acc * 256 + Last(bytes)

\* parse_argument: the argument and the length of the head.
parse_argument(b, ai) ==
  LET width == CASE ai <= 23 -> 0 [] ai \in 24 .. 27 -> 2^(ai - 24) [] OTHER -> 9
  IN  CASE width = 0 -> Parsed(Whole(ai), 1)
        [] width = 9 -> Invalid
        [] Len(b) < 1 + width -> Incomplete
        [] OTHER -> Parsed(Whole(Saturating(SubSeq(b, 2, 1 + width))), 1 + width)

\* Well-formed UTF-8, overlong forms aside.
RECURSIVE Utf8(_)
Utf8(s) ==
  \/ s = <<>>
  \/ LET n == CASE s[1] < 128 -> 1 [] s[1] \in 194 .. 223 -> 2
                [] s[1] \in 224 .. 239 -> 3 [] s[1] \in 240 .. 244 -> 4
                [] OTHER -> Len(s) + 1
     IN  /\ n <= Len(s) /\ \A i \in 2 .. n : s[i] \in 128 .. 191
         /\ Utf8(SubSeq(s, n + 1, Len(s)))

StringOf(major, bytes) ==
  IF major = 3 /\ ~Utf8(bytes) THEN Invalid
  ELSE Parsed(Value(IF major = 2 THEN "Bytes" ELSE "Text", 0, bytes, <<>>), 0)

\* parse_simple: the two booleans, null, undefined, simples and floats.
parse_simple(ai, arg, head) ==
  Parsed(Value(IF ai <= 24 THEN "Simple" ELSE "Float", arg, <<>>, <<>>), head)

RECURSIVE parse_item(_, _)

\* `left` items from `off` on; of an indefinite item (left = -1) as many as come
\* before the break, which is looked for before every `stride`-th of them.
RECURSIVE ParseItems(_, _, _, _, _, _)
ParseItems(b, off, left, stride, depth, acc) ==
  LET rest == SubSeq(b, off + 1, Len(b))
      p    == parse_item(rest, depth + 1)
  IN  CASE left = 0 -> Parsed(Array(acc), off)
        [] left = -1 /\ Len(acc) % stride = 0 /\ rest = <<>> -> Incomplete
        [] left = -1 /\ Len(acc) % stride = 0 /\ Head(rest) = BREAK ->
             Parsed(Array(acc), off + 1)
        [] OTHER ->
             IF p.status # "ok" THEN p
             ELSE ParseItems(b, off + p.used, IF left = -1 THEN -1 ELSE left - 1,
                             stride, depth, Append(acc, p.value))

\* Chunks of the outer type until the break; any other item is invalid.
RECURSIVE ParseChunks(_, _, _, _, _)
ParseChunks(b, off, major, depth, acc) ==
  LET rest == SubSeq(b, off + 1, Len(b))
      p    == parse_item(rest, depth + 1)
      kind == IF major = 2 THEN "Bytes" ELSE "Text"
      whole == StringOf(major, acc)
  IN  CASE rest = <<>> -> Incomplete
        [] rest # <<>> /\ Head(rest) = BREAK -> [whole EXCEPT !.used = off + 1]
        [] OTHER ->
             IF p.status # "ok" THEN p
             ELSE IF p.value.kind # kind THEN Invalid
             ELSE ParseChunks(b, off + p.used, major, depth, acc \o p.value.bytes)

Rekind(p, kind, num) ==
  IF p.status = "ok"
    THEN [p EXCEPT !.value.kind = kind, !.value.num = num] ELSE p

parse_indefinite(b, major, depth) ==
  CASE major \in {2, 3} -> ParseChunks(b, 1, major, depth, <<>>)
    [] major = 4 -> ParseItems(b, 1, -1, 1, depth, <<>>)
    [] major = 5 -> Rekind(ParseItems(b, 1, -1, 2, depth, <<>>), "Map", 0)
    [] major = 7 -> Parsed(Value("Break", 0, <<>>, <<>>), 1)
    [] OTHER     -> Invalid

parse_definite(b, major, ai, depth) ==
  LET head == parse_argument(b, ai)
      arg  == head.value.num
      body == SubSeq(b, head.used + 1, head.used + arg)
  IN  IF head.status # "ok" THEN head ELSE
      CASE major = 0 -> head
        [] major = 1 -> Parsed(Whole(-1 - arg), head.used)
        [] major \in {2, 3} ->
             IF arg > Len(b) - head.used THEN Incomplete
             ELSE LET p == StringOf(major, body)
                  IN  IF p.status = "ok"
                        THEN [p EXCEPT !.used = head.used + arg] ELSE p
        [] major = 4 -> ParseItems(b, head.used, arg, 1, depth, <<>>)
        [] major = 5 ->
             Rekind(ParseItems(b, head.used,
                               IF arg >= 2^30 THEN HUGE ELSE 2 * arg,
                               2, depth, <<>>), "Map", 0)
        [] major = 6 -> Rekind(ParseItems(b, head.used, 1, 1, depth, <<>>),
                               "Tag", arg)
        [] OTHER -> parse_simple(ai, arg, head.used)

parse_item(b, depth) ==
  CASE depth > MAX_DEPTH -> Invalid
    [] depth <= MAX_DEPTH /\ b = <<>> -> Incomplete
    [] OTHER -> LET major == Head(b) \div 32
                    ai    == Head(b) % 32
                IN  IF ai = 31 THEN parse_indefinite(b, major, depth)
                    ELSE parse_definite(b, major, ai, depth)

-----------------------------------------------------------------------------
(***************************************************************************)
(* The streaming decoder.                                                   *)
(***************************************************************************)

NewDecoder == [buf |-> <<>>, filler |-> 0, out |-> <<>>]

is_text_head(b) == b \div 32 = 3

\* Past the filler, which is a 0xC0 not followed by a text head.  A last 0xC0 is
\* undecided: `off` is None, but the ones before it have been counted.
RECURSIVE skip_filler(_, _, _)
skip_filler(buf, off, filler) ==
  LET found(o) == [off |-> o, filler |-> filler]
  IN  IF off >= Len(buf) THEN found(off)
      ELSE IF buf[off + 1] # FILLER THEN found(off)
      ELSE IF off + 1 = Len(buf) THEN found(None)
      ELSE IF is_text_head(buf[off + 2]) THEN found(off)
      ELSE skip_filler(buf, off + 1, filler + 1)

RECURSIVE Decode(_, _)
Decode(d, off) ==
  LET skip    == skip_filler(d.buf, off, d.filler)
      counted == [d EXCEPT !.filler = skip.filler]
      from(o) == SubSeq(d.buf, o + 1, Len(d.buf))
  IN  IF skip.off = None THEN [counted EXCEPT !.buf = from(off)]
      ELSE LET p == parse_item(from(skip.off), 0)
           IN  CASE p.status = "Incomplete" ->
                      [counted EXCEPT !.buf = from(skip.off)]
                 [] p.status = "Invalid" -> Decode(counted, skip.off + 1)
                 [] OTHER -> Decode([counted EXCEPT !.out = Append(@, p.value)],
                                    skip.off + p.used)

\* Decoder::push: the items this read completed are in `out`.
DecoderPush(d, data) == Decode([d EXCEPT !.buf = @ \o data, !.out = <<>>], 0)

-----------------------------------------------------------------------------
(***************************************************************************)
(* Encoding.                                                                *)
(***************************************************************************)

BigEndian(n, width) == [i \in 1 .. width |-> (n \div 256^(width - i)) % 256]

\* The shortest head; arguments of eight bytes are past this model's numbers.
write_head(major, arg) ==
  CASE arg <= 23    -> <<major * 32 + arg>>
    [] arg \in 24 .. 255      -> <<major * 32 + 24, arg>>
    [] arg \in 256 .. 65535   -> <<major * 32 + 25>> \o BigEndian(arg, 2)
    [] OTHER                  -> <<major * 32 + 26>> \o BigEndian(arg, 4)

RECURSIVE encode(_)
encode(v) ==
  LET inside == Concat([i \in DOMAIN v.items |-> encode(v.items[i])])
  IN  CASE v.kind = "Int"    -> IF v.num < 0 THEN write_head(1, -1 - v.num)
                                             ELSE write_head(0, v.num)
        [] v.kind = "Bytes"  -> write_head(2, Len(v.bytes)) \o v.bytes
        [] v.kind = "Text"   -> write_head(3, Len(v.bytes)) \o v.bytes
        [] v.kind = "Array"  -> write_head(4, Len(v.items)) \o inside
        [] v.kind = "Map"    -> write_head(5, Len(v.items) \div 2) \o inside
        [] v.kind = "Tag"    -> write_head(6, v.num) \o inside
        [] v.kind = "Simple" -> write_head(7, v.num)
        [] v.kind = "Break"  -> <<BREAK>>

param_write(addr, value) == Tag(1, Array(<<Whole(1), Whole(addr), Whole(value)>>))
state_dump_request == param_write(DUMP_TRIGGER, 1)

-----------------------------------------------------------------------------
(***************************************************************************)
(* What the items say.                                                      *)
(***************************************************************************)

RECURSIVE as_array(_)
as_array(v) == CASE v.kind = "Array" -> v.items
                 [] v.kind = "Tag"   -> as_array(v.items[1])
                 [] OTHER            -> None

\* The fields after the source flags, a leading negative word.
Fields(v) ==
  LET fields == as_array(v)
  IN  IF fields = None THEN <<>>
      ELSE IF fields # <<>> /\ Head(fields).kind = "Int" /\ Head(fields).num < 0
        THEN Tail(fields) ELSE fields

IsInt(fields, i) == i <= Len(fields) /\ fields[i].kind = "Int"
Selector(fields) == IF IsInt(fields, 1) THEN fields[1].num ELSE None

\* walk: a single, a run of consecutive addresses, or a string.
Elements(v) ==
  LET f == Fields(v)
      numeric(a, x) == [address |-> a, decoded |-> Num(x)]
      run == [i \in 3 .. Len(f) |-> IF IsInt(f, i)
                THEN <<numeric(f[2].num + i - 3, f[i].num)>> ELSE <<>>]
  IN  IF ~IsInt(f, 2) THEN <<>>
      ELSE CASE Selector(f) = 1 /\ IsInt(f, 3) -> <<numeric(f[2].num, f[3].num)>>
             [] Selector(f) = 2 -> Concat([i \in 1 .. Len(f) - 2 |-> run[i + 2]])
             [] Selector(f) = 4 /\ Len(f) >= 3 /\ f[3].kind = "Text" ->
                  <<[address |-> f[2].num, decoded |-> Text(f[3].bytes)]>>
             [] OTHER -> <<>>

walk(items) == Concat([i \in DOMAIN items |-> Elements(items[i])])

\* u32::try_from.
Addressable(e) == e.address \in 0 .. HUGE - 1

\* numeric_values: what a CborSession hands out.
numeric_values(items) ==
  SelectSeq(walk(items), LAMBDA e : e.decoded.kind = "Num" /\ Addressable(e))

\* updates: what the model folds; a negative value is dropped here.
updates(items, phase) ==
  LET kept == SelectSeq(walk(items),
                        LAMBDA e : Addressable(e) /\ e.decoded.num >= 0)
  IN  [i \in DOMAIN kept |->
         Update("Control", phase, kept[i].address, kept[i].decoded)]

item_base(v) ==
  LET f == Fields(v)
  IN  IF Selector(f) \in {1, 2, 4} /\ IsInt(f, 2) THEN f[2].num ELSE None

dump_end_indices(items) == {i \in DOMAIN items : item_base(items[i]) = DUMP_END}

=============================================================================
