---------------------------- MODULE SurfaceProofs -----------------------------
(***************************************************************************)
(* More proofs about Session: that every rig the device loads by our wire   *)
(* is one the Navigator sent (Surface, over the theorems of SessionProofs). *)
(***************************************************************************)
EXTENDS SessionProofs

-----------------------------------------------------------------------------
(***************************************************************************)
(* Messages: what is put together comes apart again.                        *)
(***************************************************************************)

LEMMA SameSeq ==
  ASSUME NEW S, NEW s \in Seq(S), NEW T, NEW t \in Seq(T), Len(s) = Len(t),
         \A i \in 1 .. Len(s) : s[i] = t[i]
  PROVE  s = t
<1>1. s = [i \in 1 .. Len(s) |-> s[i]] /\ t = [i \in 1 .. Len(t) |-> t[i]]
  OBVIOUS
<1>. QED BY <1>1

LEMMA JoinedNat ==
  ASSUME NEW a \in Seq(Nat), NEW b \in Seq(Nat)
  PROVE  /\ a \o b \in Seq(Nat) /\ Len(a \o b) = Len(a) + Len(b)
         /\ \A i \in 1 .. Len(a) : (a \o b)[i] = a[i]
         /\ \A i \in 1 .. Len(b) : (a \o b)[Len(a) + i] = b[i]
BY Joined

\* A part of a sequence is what its elements are.
LEMMA PartIs ==
  ASSUME NEW s \in Seq(Nat), NEW y \in Seq(Nat), NEW k \in Nat, k + Len(y) <= Len(s),
         \A i \in 1 .. Len(y) : s[k + i] = y[i]
  PROVE  SubSeq(s, k + 1, k + Len(y)) = y
<1> DEFINE a == k + 1
           b == k + Len(y)
           u == SubSeq(s, a, b)
<1>1. Len(y) \in Nat /\ Len(s) \in Nat
  OBVIOUS
<1>2. a \in Nat /\ b \in Nat /\ 1 <= a /\ a <= b + 1 /\ b <= Len(s) /\ (b - a) + 1 = Len(y)
  BY <1>1
<1>3. \A i \in 1 .. Len(y) : (a + i) - 1 = k + i
  BY <1>1
<1> HIDE DEF a, b
<1>4. u \in Seq(Nat) /\ Len(u) = (b - a) + 1
      /\ \A i \in 1 .. (b - a) + 1 : u[i] = s[(a + i) - 1]
  BY <1>2, CutOfNat
<1> HIDE DEF u
<1>5. Len(u) = Len(y) /\ \A i \in 1 .. Len(u) : u[i] = y[i]
  BY <1>2, <1>3, <1>4
<1>6. u = y
  BY <1>4, <1>5, SameSeq
<1>. QED BY <1>6 DEF u, a, b

\* A message of its parts, and the parts of the message.
LEMMA Assembled ==
  ASSUME NEW q \in Seq(Nat), NEW vals \in Seq(Nat)
  PROVE  LET m == <<SYSEX>> \o MANUFACTURER_ID \o q \o vals \o <<EOX>>
             k == 4 + Len(q)
         IN  /\ m \in Seq(Nat) /\ Len(m) = k + Len(vals) + 1
             /\ m[1] = SYSEX /\ SubSeq(m, 2, 4) = MANUFACTURER_ID
             /\ \A i \in 1 .. Len(q) : m[4 + i] = q[i]
             /\ \A i \in 1 .. Len(vals) : m[k + i] = vals[i]
             /\ SubSeq(m, k + 1, k + Len(vals)) = vals
             /\ m[Len(m)] = EOX
<1> DEFINE a == <<SYSEX>>
           b == a \o MANUFACTURER_ID
           c == b \o q
           d == c \o vals
           e == <<EOX>>
           m == d \o e
           k == 4 + Len(q)
           n == Len(vals)
<1>1. a \in Seq(Nat) /\ Len(a) = 1 /\ a[1] = SYSEX /\ e \in Seq(Nat) /\ Len(e) = 1 /\ e[1] = EOX
  BY DEF SYSEX, EOX
<1>2. MANUFACTURER_ID \in Seq(Nat) /\ Len(MANUFACTURER_ID) = 3
  BY DEF MANUFACTURER_ID
<1>3. Len(q) \in Nat /\ n \in Nat
  OBVIOUS
<1> HIDE DEF a, e, n
<1>4. /\ b \in Seq(Nat) /\ Len(b) = 4 /\ b[1] = SYSEX
      /\ \A i \in 1 .. 3 : b[1 + i] = MANUFACTURER_ID[i]
  <2>1. /\ b \in Seq(Nat) /\ Len(b) = Len(a) + Len(MANUFACTURER_ID)
        /\ \A i \in 1 .. Len(a) : b[i] = a[i]
        /\ \A i \in 1 .. Len(MANUFACTURER_ID) : b[Len(a) + i] = MANUFACTURER_ID[i]
    BY <1>1, <1>2, JoinedNat
  <2> HIDE DEF b
  <2>. QED BY <1>1, <1>2, <2>1
<1> HIDE DEF b
<1>5. /\ c \in Seq(Nat) /\ Len(c) = k
      /\ \A i \in 1 .. 4 : c[i] = b[i]
      /\ \A i \in 1 .. Len(q) : c[4 + i] = q[i]
  <2>1. /\ c \in Seq(Nat) /\ Len(c) = Len(b) + Len(q)
        /\ \A i \in 1 .. Len(b) : c[i] = b[i]
        /\ \A i \in 1 .. Len(q) : c[Len(b) + i] = q[i]
    BY <1>4, JoinedNat
  <2> HIDE DEF c
  <2>. QED BY <1>4, <2>1
<1> HIDE DEF c
<1>6. /\ d \in Seq(Nat) /\ Len(d) = k + n
      /\ \A i \in 1 .. k : d[i] = c[i]
      /\ \A i \in 1 .. n : d[k + i] = vals[i]
  <2>1. /\ d \in Seq(Nat) /\ Len(d) = Len(c) + Len(vals)
        /\ \A i \in 1 .. Len(c) : d[i] = c[i]
        /\ \A i \in 1 .. Len(vals) : d[Len(c) + i] = vals[i]
    BY <1>5, JoinedNat
  <2> HIDE DEF d
  <2>. QED BY <1>5, <2>1 DEF n
<1> HIDE DEF d
<1>7. /\ m \in Seq(Nat) /\ Len(m) = k + n + 1
      /\ \A i \in 1 .. k + n : m[i] = d[i]
      /\ m[k + n + 1] = EOX
  <2>1. /\ m \in Seq(Nat) /\ Len(m) = Len(d) + Len(e)
        /\ \A i \in 1 .. Len(d) : m[i] = d[i]
        /\ \A i \in 1 .. Len(e) : m[Len(d) + i] = e[i]
    BY <1>1, <1>6, JoinedNat
  <2> HIDE DEF m
  <2>. QED BY <1>1, <1>6, <2>1
<1> HIDE DEF m
<1>8. \A i \in 1 .. 4 : m[i] = b[i]
  <2>1. \A i \in 1 .. 4 : i \in 1 .. k /\ i \in 1 .. k + n
    BY <1>3
  <2>. QED BY <1>5, <1>6, <1>7, <2>1
<1>9. \A i \in 1 .. Len(q) : m[4 + i] = q[i]
  <2>1. \A i \in 1 .. Len(q) : 4 + i \in 1 .. k /\ 4 + i \in 1 .. k + n
    BY <1>3
  <2>. QED BY <1>5, <1>6, <1>7, <2>1
<1>10. SubSeq(m, 2, 4) = MANUFACTURER_ID
  <2>1. 4 <= Len(m)
    BY <1>3, <1>7
  <2>2. /\ SubSeq(m, 2, 4) \in Seq(Nat) /\ Len(SubSeq(m, 2, 4)) = (4 - 2) + 1
        /\ \A i \in 1 .. (4 - 2) + 1 : SubSeq(m, 2, 4)[i] = m[(2 + i) - 1]
    BY <1>7, <2>1, Cut
  <2> DEFINE s == SubSeq(m, 2, 4)
  <2> HIDE DEF s
  <2>3. s \in Seq(Nat) /\ Len(s) = 3 /\ \A i \in 1 .. 3 : s[i] = MANUFACTURER_ID[i]
    <3>1. s \in Seq(Nat) /\ Len(s) = 3 /\ \A i \in 1 .. 3 : s[i] = m[(2 + i) - 1]
      BY <2>2 DEF s
    <3>2. \A i \in 1 .. 3 : (2 + i) - 1 = 1 + i /\ 1 + i \in 1 .. 4
      OBVIOUS
    <3>. QED BY <1>4, <1>8, <3>1, <3>2
  <2>4. s = MANUFACTURER_ID
    BY <1>2, <2>3, SameSeq
  <2>. QED BY <2>4 DEF s
<1>11. SubSeq(m, k + 1, k + n) = vals
  <2> DEFINE s == SubSeq(m, k + 1, k + n)
  <2>1. k + 1 \in Nat /\ k + n \in Nat /\ 1 <= k + 1 /\ k + 1 <= (k + n) + 1 /\ k + n <= Len(m)
    BY <1>3, <1>7
  <2>2. /\ s \in Seq(Nat) /\ Len(s) = ((k + n) - (k + 1)) + 1
        /\ \A i \in 1 .. ((k + n) - (k + 1)) + 1 : s[i] = m[((k + 1) + i) - 1]
    BY <1>7, <2>1, Cut
  <2> HIDE DEF s
  <2>3. ((k + n) - (k + 1)) + 1 = n /\ \A i \in 1 .. n : ((k + 1) + i) - 1 = k + i /\ k + i \in 1 .. k + n
    BY <1>3
  <2>4. Len(s) = n /\ \A i \in 1 .. n : s[i] = vals[i]
    BY <1>6, <1>7, <2>2, <2>3
  <2>5. s = vals
    BY <2>2, <2>4, SameSeq DEF n
  <2>. QED BY <2>5 DEF s
<1>12. m[1] = SYSEX
  BY <1>4, <1>8
<1>13. m = <<SYSEX>> \o MANUFACTURER_ID \o q \o vals \o <<EOX>>
  BY DEF m, d, c, b, a, e
<1>14. \A i \in 1 .. n : m[k + i] = vals[i]
  <2>1. \A i \in 1 .. n : k + i \in 1 .. k + n
    BY <1>3
  <2>. QED BY <1>6, <1>7, <2>1
<1>. QED BY <1>7, <1>9, <1>10, <1>11, <1>12, <1>13, <1>14 DEF n

LEMMA BytesAreNats == ASSUME NEW s \in Seq(Byte) PROVE s \in Seq(Nat)
<1>1. Byte \subseteq Nat
  BY DEF Byte
<1>. QED BY <1>1, SeqWider

\* A header and its values, as bytes and as they are parsed.
LEMMA SysexParsed ==
  ASSUME NEW p \in Byte, NEW d \in Byte, NEW f \in Byte, NEW page \in Byte, NEW number \in Byte,
         NEW values \in Seq(Byte)
  PROVE  LET m == sysex(p, d, f, page, number, values)
         IN  /\ m \in Seq(Byte) /\ Len(m) = 11 + Len(values) /\ m[1] = SYSEX /\ m[7] = f
             /\ parse(m) = [product |-> p, device |-> d, function |-> f, instance |-> 0,
                            page |-> page, number |-> number, vals |-> values]
             /\ parse(m) # None
<1> DEFINE q == <<p, d, f, 0, page, number>>
           m == <<SYSEX>> \o MANUFACTURER_ID \o q \o values \o <<EOX>>
           k == 4 + Len(q)
           n == Len(values)
           h == [product |-> p, device |-> d, function |-> f, instance |-> 0,
                 page |-> page, number |-> number, vals |-> values]
<1>1. q \in Seq(Byte) /\ Len(q) = 6 /\ q[1] = p /\ q[2] = d /\ q[3] = f /\ q[4] = 0
      /\ q[5] = page /\ q[6] = number
  BY DEF Byte
<1>2. sysex(p, d, f, page, number, values) = m
  BY DEF sysex
<1>3. <<SYSEX>> \in Seq(Byte) /\ MANUFACTURER_ID \in Seq(Byte) /\ <<EOX>> \in Seq(Byte)
  BY DEF SYSEX, EOX, MANUFACTURER_ID, Byte
<1> HIDE DEF q
<1>4. m \in Seq(Byte)
  BY <1>1, <1>3, Joined
<1>5. q \in Seq(Nat) /\ values \in Seq(Nat)
  BY <1>1, BytesAreNats
<1>6. /\ Len(m) = k + n + 1 /\ m[1] = SYSEX /\ SubSeq(m, 2, 4) = MANUFACTURER_ID
      /\ \A i \in 1 .. Len(q) : m[4 + i] = q[i]
      /\ SubSeq(m, k + 1, k + n) = values
  BY <1>5, Assembled
<1> HIDE DEF m
<1>7. n \in Nat /\ k = 10
  BY <1>1
<1>8. Len(m) = 11 + n /\ Len(m) - 1 = k + n /\ k + 1 = 11
  BY <1>6, <1>7
<1>9. m[5] = p /\ m[6] = d /\ m[7] = f /\ m[8] = 0 /\ m[9] = page /\ m[10] = number
  <2>1. \A i \in 1 .. 6 : m[4 + i] = q[i]
    BY <1>1, <1>6
  <2>2. m[4 + 1] = q[1] /\ m[4 + 2] = q[2] /\ m[4 + 3] = q[3] /\ m[4 + 4] = q[4]
        /\ m[4 + 5] = q[5] /\ m[4 + 6] = q[6]
    BY <2>1
  <2>. QED BY <1>1, <2>2
<1>10. SubSeq(m, 11, Len(m) - 1) = values
  BY <1>6, <1>8
<1>11. parse(m) = h
  <2>1. ~ (Len(m) < 11)
    BY <1>7, <1>8
  <2>. QED BY <1>6, <1>9, <1>10, <2>1 DEF parse
<1>12. h \in Header
  BY DEF Header, Byte
<1>13. h # None
  BY <1>12, SurfaceAssumption
<1>. QED BY <1>2, <1>4, <1>6, <1>8, <1>9, <1>11, <1>13

\* Fourteen bits come back.
LEMMA SplitBack ==
  ASSUME NEW v \in Nat
  PROVE  /\ u14_split(v) \in Seq(Byte) /\ Len(u14_split(v)) = 2
         /\ u14(u14_split(v)[1], u14_split(v)[2]) \in 0 .. FULL_SCALE
         /\ v <= FULL_SCALE => u14(u14_split(v)[1], u14_split(v)[2]) = v
<1> DEFINE a == (v \div 128) % 128
           b == v % 128
<1>1. a \in 0 .. 127 /\ b \in 0 .. 127 /\ a % 128 = a /\ b % 128 = b
  OBVIOUS
<1>2. v <= 16383 => a * 128 + b = v
  OBVIOUS
<1>3. u14_split(v) = <<a, b>>
  BY DEF u14_split
<1> HIDE DEF a, b
<1>. QED BY <1>1, <1>2, <1>3 DEF u14, Byte, FULL_SCALE

LEMMA U14Fits == ASSUME NEW a \in Byte, NEW b \in Byte PROVE u14(a, b) \in 0 .. FULL_SCALE
BY DEF u14, Byte, FULL_SCALE

\* A text ends where it was ended.
LEMMA TextBack ==
  ASSUME NEW t \in Seq(Byte \ {0})
  PROVE  Append(t, 0) \in Seq(Byte) /\ until_nul(Append(t, 0)) = t
<1> DEFINE s == Append(t, 0)
           n == Len(t)
           nuls == {i \in DOMAIN s : s[i] = 0}
<1>1. n \in Nat /\ t \in Seq(Byte)
  BY SeqWider
<1>2. /\ s \in Seq(Byte) /\ Len(s) = n + 1 /\ s[n + 1] = 0
      /\ \A i \in 1 .. n : s[i] = t[i]
  BY <1>1 DEF Byte
<1> HIDE DEF s
<1>3. nuls = {n + 1}
  <2>1. DOMAIN s = 1 .. n + 1
    BY <1>2
  <2>2. \A i \in 1 .. n : s[i] # 0
    BY <1>2
  <2>. QED BY <1>1, <1>2, <2>1, <2>2
<1>4. until_nul(s) = SubSeq(s, 1, Min(nuls) - 1)
  BY <1>3 DEF until_nul
<1> HIDE DEF nuls
<1>5. until_nul(s) = SubSeq(s, 1, n)
  <2>1. nuls \in SUBSET Nat /\ nuls # {}
    BY <1>1, <1>3
  <2>2. Min(nuls) \in nuls
    BY <2>1, Least
  <2>3. Min(nuls) - 1 = n
    BY <1>1, <1>3, <2>2
  <2>. QED BY <1>4, <2>3
<1>6. SubSeq(s, 1, n) = t
  <2> DEFINE u == SubSeq(s, 1, n)
  <2>1. 1 \in Nat /\ 1 <= n + 1 /\ n <= Len(s) /\ (n - 1) + 1 = n
    BY <1>1, <1>2
  <2>2. s \in Seq(Nat)
    BY <1>2, BytesAreNats
  <2>3. u \in Seq(Nat) /\ Len(u) = n /\ \A i \in 1 .. n : u[i] = s[(1 + i) - 1]
    BY <1>1, <2>1, <2>2, CutOfNat
  <2> HIDE DEF u
  <2>4. Len(u) = Len(t) /\ \A i \in 1 .. Len(u) : u[i] = t[i]
    BY <1>1, <1>2, <2>3
  <2>5. u = t
    BY <1>1, <2>3, <2>4, SameSeq
  <2>. QED BY <2>5 DEF u
<1>. QED BY <1>2, <1>5, <1>6 DEF s

\* A number of up to thirty-one bits comes back from its five bytes.
Shifts == INSTANCE Folding WITH step <- Shifted, Keeps <- OfBytes

LEMMA DivMod == ASSUME NEW w \in Nat, NEW a \in Nat, a = w \div 128 PROVE a * 128 + (w % 128) = w
OBVIOUS

LEMMA ShiftedOnce ==
  ASSUME NEW a \in Nat, a < 16777216, NEW c, c % 128 = c PROVE Shifted(a, c) = a * 128 + c
BY SMT DEF Shifted

LEMMA ShiftedIn ==
  ASSUME NEW a \in Nat, a < 16777216, NEW b \in Nat PROVE Shifted(a, b % 128) = a * 128 + (b % 128)
<1> DEFINE c == b % 128
<1>1. c % 128 = c
  OBVIOUS
<1> HIDE DEF c
<1>2. Shifted(a, c) = a * 128 + c
  BY <1>1, ShiftedOnce
<1>. QED BY <1>2 DEF c

LEMMA SevensDown ==
  ASSUME NEW v \in Nat, v < HUGE
  PROVE  LET p4 == v \div 128
             p3 == v \div 16384
             p2 == v \div 2097152
             p1 == v \div 268435456
         IN  /\ p1 \in Nat /\ p2 \in Nat /\ p3 \in Nat /\ p4 \in Nat
             /\ p1 < 128 /\ p2 < 2097152 /\ p3 < 2097152 /\ p4 < 16777216
             /\ p1 * 128 + (p2 % 128) = p2 /\ p2 * 128 + (p3 % 128) = p3
             /\ p3 * 128 + (p4 % 128) = p4 /\ p4 * 128 + (v % 128) = v
<1> DEFINE p4 == v \div 128
           p3 == v \div 16384
           p2 == v \div 2097152
           p1 == v \div 268435456
<1>1. p4 \in Nat /\ p4 < 16777216
  BY SMT DEF HUGE
<1>2. p3 \in Nat /\ p3 = p4 \div 128
  BY SMT
<1>3. p2 \in Nat /\ p2 = p3 \div 128
  BY SMT
<1>4. p1 \in Nat /\ p1 = p2 \div 128
  BY SMT
<1> HIDE DEF p1, p2, p3, p4
<1>5. p3 < 2097152 /\ p2 < 2097152 /\ p1 < 128
  <2>1. p3 < 131072
    BY <1>1, <1>2, SMT
  <2>2. p2 < 1024
    BY <1>2, <1>3, <2>1, SMT
  <2>3. p1 < 8
    BY <1>3, <1>4, <2>2, SMT
  <2>. QED BY <1>2, <1>3, <1>4, <2>1, <2>2, <2>3, SMT
<1>6. /\ p1 * 128 + (p2 % 128) = p2 /\ p2 * 128 + (p3 % 128) = p3
      /\ p3 * 128 + (p4 % 128) = p4
  BY <1>1, <1>2, <1>3, <1>4, DivMod
<1>7. p4 * 128 + (v % 128) = v
  BY <1>1, DivMod DEF p4
<1>. QED BY <1>1, <1>2, <1>3, <1>4, <1>5, <1>6, <1>7 DEF p1, p2, p3, p4

LEMMA EncodedIs ==
  ASSUME NEW v \in Nat, v < HUGE
  PROVE  LET e == ext_encode(v, 5)
         IN  /\ e \in Seq(Byte) /\ Len(e) = 5
             /\ e[1] = (v \div 268435456) % 128 /\ e[2] = (v \div 2097152) % 128
             /\ e[3] = (v \div 16384) % 128 /\ e[4] = (v \div 128) % 128 /\ e[5] = v % 128
<1> DEFINE e == ext_encode(v, 5)
<1>1. e = [i \in 1 .. 5 |-> (v \div Sevens[5 - i + 1]) % 128]
  BY DEF ext_encode
<1>2. /\ Sevens[1] = 1 /\ Sevens[2] = 128 /\ Sevens[3] = 16384 /\ Sevens[4] = 2097152
      /\ Sevens[5] = 268435456
  BY DEF Sevens
<1>3. v \in Nat /\ v \div 1 = v
  BY SMT
<1> HIDE DEF e
<1>4. /\ e[1] = (v \div 268435456) % 128 /\ e[2] = (v \div 2097152) % 128
      /\ e[3] = (v \div 16384) % 128 /\ e[4] = (v \div 128) % 128 /\ e[5] = v % 128
  <2>1. \A i \in 1 .. 5 : e[i] = (v \div Sevens[5 - i + 1]) % 128
    BY <1>1
  <2>2. /\ e[1] = (v \div Sevens[5]) % 128 /\ e[2] = (v \div Sevens[4]) % 128
        /\ e[3] = (v \div Sevens[3]) % 128 /\ e[4] = (v \div Sevens[2]) % 128
        /\ e[5] = (v \div Sevens[1]) % 128
    BY <2>1
  <2>. QED BY <1>2, <1>3, <2>2
<1>5. e[1] \in Byte /\ e[2] \in Byte /\ e[3] \in Byte /\ e[4] \in Byte /\ e[5] \in Byte
  <2>1. \A w \in Nat : w % 128 \in Byte
    BY DEF Byte
  <2>2. /\ v \div 268435456 \in Nat /\ v \div 2097152 \in Nat /\ v \div 16384 \in Nat
        /\ v \div 128 \in Nat
    BY SevensDown
  <2>. QED BY <1>4, <2>1, <2>2, SMT
<1>6. \A i \in 1 .. 5 : e[i] \in Byte
  <2>1. \A i \in 1 .. 5 : i = 1 \/ i = 2 \/ i = 3 \/ i = 4 \/ i = 5
    OBVIOUS
  <2>. QED BY <1>5, <2>1
<1>7. e = [i \in 1 .. 5 |-> e[i]]
  BY <1>1
<1>8. e \in Seq(Byte) /\ Len(e) = 5
  BY <1>6, <1>7, Listed
<1>. QED BY <1>4, <1>8 DEF e

LEMMA ExtBack ==
  ASSUME NEW v \in Nat, v < HUGE PROVE ext_decode(ext_encode(v, 5)) = v
<1> DEFINE e == ext_encode(v, 5)
           p4 == v \div 128
           p3 == v \div 16384
           p2 == v \div 2097152
           p1 == v \div 268435456
<1>1. /\ e \in Seq(Byte) /\ Len(e) = 5
      /\ e[1] = p1 % 128 /\ e[2] = p2 % 128
      /\ e[3] = p3 % 128 /\ e[4] = p4 % 128 /\ e[5] = v % 128
  BY EncodedIs
<1>2. /\ p1 \in Nat /\ p2 \in Nat /\ p3 \in Nat /\ p4 \in Nat
      /\ p1 < 128 /\ p2 < 2097152 /\ p3 < 2097152 /\ p4 < 16777216
      /\ p1 * 128 + (p2 % 128) = p2 /\ p2 * 128 + (p3 % 128) = p3
      /\ p3 * 128 + (p4 % 128) = p4 /\ p4 * 128 + (v % 128) = v
  BY SevensDown
<1> HIDE DEF e, p1, p2, p3, p4
<1>3. PICK g : /\ g[0] = 0
               /\ \A i \in 1 .. Len(e) : g[i] = Shifted(g[i - 1], e[i])
               /\ Shifts!Folded(0, e) = g[Len(e)]
  <2>1. Len(e) \in Nat
    BY <1>1
  <2>. QED BY <2>1, Shifts!FoldRuns
<1>4. /\ g[1] = Shifted(g[0], e[1]) /\ g[2] = Shifted(g[1], e[2]) /\ g[3] = Shifted(g[2], e[3])
      /\ g[4] = Shifted(g[3], e[4]) /\ g[5] = Shifted(g[4], e[5])
  <2>1. \A i \in 1 .. 5 : g[i] = Shifted(g[i - 1], e[i])
    BY <1>1, <1>3
  <2>. QED BY <2>1
<1>6. 0 < 16777216 /\ p1 < 16777216 /\ p2 < 16777216 /\ p3 < 16777216
  BY <1>2, SMT
<1>7. g[1] = p1
  <2>1. Shifted(0, p1 % 128) = 0 * 128 + (p1 % 128)
    BY <1>2, <1>6, ShiftedIn, SMT
  <2>2. Shifted(0, e[1]) = 0 * 128 + (p1 % 128)
    BY <1>1, <2>1
  <2>3. 0 * 128 + (p1 % 128) = p1
    BY <1>2
  <2>. QED BY <1>3, <1>4, <2>2, <2>3
<1>8. g[2] = p2
  <2>1. Shifted(p1, p2 % 128) = p1 * 128 + (p2 % 128)
    BY <1>2, <1>6, ShiftedIn, SMT
  <2>2. Shifted(p1, e[2]) = p1 * 128 + (p2 % 128)
    BY <1>1, <2>1
  <2>. QED BY <1>2, <1>4, <1>7, <2>2, SMT
<1>9. g[3] = p3
  <2>1. Shifted(p2, p3 % 128) = p2 * 128 + (p3 % 128)
    BY <1>2, <1>6, ShiftedIn, SMT
  <2>2. Shifted(p2, e[3]) = p2 * 128 + (p3 % 128)
    BY <1>1, <2>1
  <2>. QED BY <1>2, <1>4, <1>8, <2>2, SMT
<1>10. g[4] = p4
  <2>1. Shifted(p3, p4 % 128) = p3 * 128 + (p4 % 128)
    BY <1>2, <1>6, ShiftedIn, SMT
  <2>2. Shifted(p3, e[4]) = p3 * 128 + (p4 % 128)
    BY <1>1, <2>1
  <2>. QED BY <1>2, <1>4, <1>9, <2>2, SMT
<1>11. g[5] = v
  <2>1. Shifted(p4, v % 128) = p4 * 128 + (v % 128)
    BY <1>2, <1>6, ShiftedIn, SMT
  <2>2. Shifted(p4, e[5]) = p4 * 128 + (v % 128)
    BY <1>1, <2>1
  <2>. QED BY <1>2, <1>4, <1>10, <2>2, SMT
<1>12. ext_decode(e) = Shifts!Folded(0, e)
  BY DEF ext_decode, Through, Shifts!Folded
<1>. QED BY <1>1, <1>3, <1>11, <1>12 DEF e


\* What the device's answers say.
LEMMA Functions ==
  /\ FN.SINGLE = 1 /\ FN.MULTI = 2 /\ FN.STRING = 3 /\ FN.EXT = 6 /\ FN.EXT_STRING = 7
  /\ FN.RENDERED = 60 /\ FN.REQUEST_SINGLE = 65 /\ FN.REQUEST_STRING = 67
  /\ FN.REQUEST_EXT = 70 /\ FN.REQUEST_EXT_STRING = 71 /\ FN.REQUEST_RENDERED = 124
BY DEF FN

LEMMA HeaderIs ==
  ASSUME NEW p \in Byte, NEW d \in Byte, NEW f \in Byte, NEW page \in Byte, NEW number \in Byte,
         NEW vals \in Seq(Byte)
  PROVE  LET m == sysex(p, d, f, page, number, vals)
         IN  /\ m \in Seq(Byte) /\ parse(m) # None
             /\ parse(m).function = f /\ parse(m).page = page /\ parse(m).number = number
             /\ parse(m).vals = vals
<1> DEFINE m == sysex(p, d, f, page, number, vals)
<1>1. /\ m \in Seq(Byte) /\ parse(m) # None
      /\ parse(m) = [product |-> p, device |-> d, function |-> f, instance |-> 0,
                     page |-> page, number |-> number, vals |-> vals]
  BY SysexParsed
<1> HIDE DEF m
<1>2. /\ m \in Seq(Byte) /\ parse(m) # None
      /\ parse(m).function = f /\ parse(m).page = page /\ parse(m).number = number
      /\ parse(m).vals = vals
  BY <1>1
<1>. QED BY <1>2 DEF m

LEMMA SysexBytes ==
  ASSUME NEW p \in Byte, NEW d \in Byte, NEW f \in Byte, NEW page \in Byte, NEW number \in Byte,
         NEW vals \in Seq(Byte)
  PROVE  LET m == sysex(p, d, f, page, number, vals)
         IN  m \in Seq(Byte) /\ Len(m) = 11 + Len(vals) /\ m[1] = SYSEX /\ m[7] = f
<1> DEFINE m == sysex(p, d, f, page, number, vals)
           IsIt(x) == x \in Seq(Byte) /\ Len(x) = 11 + Len(vals) /\ x[1] = SYSEX /\ x[7] = f
<1>1. IsIt(m)
  BY SysexParsed
<1>. QED BY <1>1

LEMMA SaysBy ==
  ASSUME NEW m, parse(m) # None
  PROVE  LET h    == parse(m)
             flat == h.page * 128 + h.number
         IN  /\ h.function = FN.SINGLE /\ Len(h.vals) >= 2 =>
                  decode_stream(m) = Live(flat, Num(u14(h.vals[1], h.vals[2])))
             /\ h.function = FN.STRING => decode_stream(m) = Live(flat, Text(until_nul(h.vals)))
             /\ h.function = FN.RENDERED => decode_stream(m) = parse_rendered_string(h)
             /\ h.function = FN.EXT => decode_stream(m) = parse_extended_param(m)
             /\ h.function = FN.EXT_STRING => decode_stream(m) = parse_extended_string(m)
BY Functions DEF decode_stream

LEMMA JoinedByte ==
  ASSUME NEW a \in Seq(Byte), NEW b \in Seq(Byte)
  PROVE  /\ a \o b \in Seq(Byte) /\ Len(a \o b) = Len(a) + Len(b)
         /\ \A i \in 1 .. Len(a) : (a \o b)[i] = a[i]
         /\ \A i \in 1 .. Len(b) : (a \o b)[Len(a) + i] = b[i]
BY Joined

LEMMA Codes ==
  /\ 2 \in Byte /\ 0 \in Byte /\ FN.SINGLE \in Byte /\ FN.STRING \in Byte /\ FN.RENDERED \in Byte
  /\ FN.EXT \in Byte /\ FN.EXT_STRING \in Byte
BY Functions DEF Byte

LEMMA SingleSays ==
  ASSUME NEW page \in Byte, NEW number \in Byte, NEW v \in 0 .. FULL_SCALE
  PROVE  LET m == sysex(2, 0, FN.SINGLE, page, number, u14_split(v))
         IN  m \in Seq(Byte) /\ decode_stream(m) = Live(page * 128 + number, Num(v))
<1>1. v \in Nat /\ v <= FULL_SCALE
  BY DEF FULL_SCALE
<1>2. /\ u14_split(v) \in Seq(Byte) /\ Len(u14_split(v)) = 2
      /\ u14(u14_split(v)[1], u14_split(v)[2]) = v
  BY <1>1, SplitBack
<1> DEFINE vals == u14_split(v)
<1> HIDE DEF vals
<1>3. vals \in Seq(Byte) /\ Len(vals) = 2 /\ u14(vals[1], vals[2]) = v
  BY <1>2 DEF vals
<1> DEFINE f == FN.SINGLE
           two == 2
           zero == 0
<1>4. two \in Byte /\ zero \in Byte /\ f \in Byte
  BY Codes
<1> HIDE DEF f, two, zero
<1> DEFINE m == sysex(two, zero, f, page, number, vals)
<1>5. /\ m \in Seq(Byte) /\ parse(m) # None
      /\ parse(m).function = f /\ parse(m).page = page /\ parse(m).number = number
      /\ parse(m).vals = vals
  BY <1>3, <1>4, HeaderIs
<1> HIDE DEF m
<1>6. decode_stream(m) = Live(page * 128 + number, Num(v))
  <2>1. /\ parse(m).function = FN.SINGLE /\ Len(parse(m).vals) >= 2
        /\ u14(parse(m).vals[1], parse(m).vals[2]) = v
    <3>1. Len(vals) >= 2
      BY <1>3
    <3>. QED BY ONLY <3>1, <1>3, <1>5, Zenon DEF f
  <2>2. decode_stream(m) = Live(parse(m).page * 128 + parse(m).number,
                                Num(u14(parse(m).vals[1], parse(m).vals[2])))
    BY <1>5, <2>1, SaysBy
  <2>. QED BY <1>5, <2>1, <2>2
<1>. QED BY <1>5, <1>6 DEF m, f, two, zero, vals

LEMMA StringSays ==
  ASSUME NEW page \in Byte, NEW number \in Byte, NEW t \in Seq(Byte \ {0})
  PROVE  LET m == sysex(2, 0, FN.STRING, page, number, Append(t, 0))
         IN  m \in Seq(Byte) /\ decode_stream(m) = Live(page * 128 + number, Text(t))
<1> DEFINE vals == Append(t, 0)
           f == FN.STRING
           two == 2
           zero == 0
<1>3. vals \in Seq(Byte) /\ until_nul(vals) = t
  BY TextBack
<1> HIDE DEF vals
<1>4. two \in Byte /\ zero \in Byte /\ f \in Byte
  BY Codes
<1> HIDE DEF f, two, zero
<1> DEFINE m == sysex(two, zero, f, page, number, vals)
<1>5. /\ m \in Seq(Byte) /\ parse(m) # None
      /\ parse(m).function = f /\ parse(m).page = page /\ parse(m).number = number
      /\ parse(m).vals = vals
  BY <1>3, <1>4, HeaderIs
<1> HIDE DEF m
<1>6. decode_stream(m) = Live(page * 128 + number, Text(t))
  BY <1>3, <1>5, SaysBy DEF f
<1>. QED BY <1>5, <1>6 DEF m, f, two, zero, vals

LEMMA RenderedSays ==
  ASSUME NEW page \in Byte, NEW number \in Byte, NEW t \in Seq(Byte \ {0}),
         NEW w \in Seq(Byte), Len(w) = 2
  PROVE  LET m == sysex(2, 0, FN.RENDERED, page, number, w \o Append(t, 0))
         IN  /\ m \in Seq(Byte)
             /\ decode_stream(m) = [rendered |-> [page |-> page, number |-> number,
                                                  value |-> u14(w[1], w[2]), text |-> t],
                                    update |-> None]
<1> DEFINE s == Append(t, 0)
           vals == w \o s
           f == FN.RENDERED
           two == 2
           zero == 0
<1>1. /\ s \in Seq(Byte) /\ until_nul(s) = t
  BY TextBack
<1> HIDE DEF s
<1>3. /\ vals \in Seq(Byte) /\ Len(vals) = 2 + Len(s) /\ Len(s) \in Nat
      /\ vals[1] = w[1] /\ vals[2] = w[2]
      /\ \A i \in 1 .. Len(s) : vals[2 + i] = s[i]
  <2>1. /\ vals \in Seq(Byte) /\ Len(vals) = Len(w) + Len(s)
        /\ \A i \in 1 .. Len(w) : vals[i] = w[i]
        /\ \A i \in 1 .. Len(s) : vals[Len(w) + i] = s[i]
    BY <1>1, JoinedByte
  <2> HIDE DEF vals
  <2>. QED BY <1>1, <2>1
<1> HIDE DEF vals
<1>4. SubSeq(vals, 3, Len(vals)) = s
  <2> DEFINE u == SubSeq(vals, 3, Len(vals))
  <2>0. 3 \in Nat /\ Len(vals) \in Nat /\ 1 <= 3 /\ 3 <= Len(vals) + 1 /\ Len(vals) <= Len(vals)
        /\ (Len(vals) - 3) + 1 = Len(s)
    BY <1>3
  <2>1. vals \in Seq(Nat) /\ s \in Seq(Nat)
    BY <1>1, <1>3, BytesAreNats
  <2>2. u \in Seq(Nat) /\ Len(u) = (Len(vals) - 3) + 1
        /\ \A i \in 1 .. (Len(vals) - 3) + 1 : u[i] = vals[(3 + i) - 1]
    BY <2>0, <2>1, CutOfNat
  <2> HIDE DEF u
  <2>3. \A i \in 1 .. Len(s) : (3 + i) - 1 = 2 + i
    OBVIOUS
  <2>4. Len(u) = Len(s) /\ \A i \in 1 .. Len(u) : u[i] = s[i]
    BY <1>3, <2>0, <2>2, <2>3
  <2>5. u = s
    BY <2>1, <2>2, <2>4, SameSeq
  <2>. QED BY <2>5 DEF u
<1>5. two \in Byte /\ zero \in Byte /\ f \in Byte
  BY Codes
<1> HIDE DEF f, two, zero
<1> DEFINE m == sysex(two, zero, f, page, number, vals)
<1>6. /\ m \in Seq(Byte) /\ parse(m) # None
      /\ parse(m).function = f /\ parse(m).page = page /\ parse(m).number = number
      /\ parse(m).vals = vals
  BY <1>3, <1>5, HeaderIs
<1> HIDE DEF m
<1>7. decode_stream(m) = parse_rendered_string(parse(m))
  BY <1>6, SaysBy DEF f
<1>8. ~ (Len(vals) < 2)
  BY <1>3
<1>9. parse_rendered_string(parse(m)) =
        [rendered |-> [page |-> page, number |-> number, value |-> u14(w[1], w[2]), text |-> t],
         update |-> None]
  BY <1>1, <1>3, <1>4, <1>6, <1>8 DEF parse_rendered_string, Ignored
<1>10. /\ m \in Seq(Byte)
       /\ decode_stream(m) = [rendered |-> [page |-> page, number |-> number,
                                            value |-> u14(w[1], w[2]), text |-> t],
                              update |-> None]
  BY <1>6, <1>7, <1>9
<1>. QED BY <1>10 DEF m, vals, s, f, two, zero

\* An extended message is its address and what follows it.
Extended(q, y, rest) == <<SYSEX>> \o MANUFACTURER_ID \o q \o y \o rest \o <<EOX>>

ExtHas(m, q, y, rest) ==
  /\ Len(m) = 14 + Len(rest) /\ m[1] = SYSEX /\ SubSeq(m, 2, 4) = MANUFACTURER_ID
  /\ m[7] = q[3] /\ m[Len(m)] = EOX
  /\ SubSeq(m, 9, 13) = y /\ SubSeq(m, 14, 13 + Len(rest)) = rest

LEMMA ExtParts ==
  ASSUME NEW q \in Seq(Nat), Len(q) = 4, NEW y \in Seq(Nat), Len(y) = 5, NEW rest \in Seq(Nat)
  PROVE  ExtHas(Extended(q, y, rest), q, y, rest)
<1> DEFINE x == <<SYSEX>> \o MANUFACTURER_ID \o q
           z == <<EOX>>
           vals == y \o rest
           n == Len(rest)
           m == x \o y \o rest \o z
<1>1. Len(q) \in Nat /\ n \in Nat
  OBVIOUS
<1>2. <<SYSEX>> \in Seq(Nat) /\ MANUFACTURER_ID \in Seq(Nat) /\ z \in Seq(Nat)
  BY DEF SYSEX, EOX, MANUFACTURER_ID
<1>3. x \in Seq(Nat)
  <2>1. <<SYSEX>> \o MANUFACTURER_ID \in Seq(Nat)
    BY <1>2, JoinedNat
  <2>. QED BY <2>1, JoinedNat
<1> HIDE DEF x, z, n
<1>4. x \o y \o rest = x \o vals
  BY <1>3, ConcatAssociative
<1>5. /\ vals \in Seq(Nat) /\ Len(vals) = 5 + n
      /\ \A i \in 1 .. 5 : vals[i] = y[i]
      /\ \A i \in 1 .. n : vals[5 + i] = rest[i]
  <2>1. /\ vals \in Seq(Nat) /\ Len(vals) = Len(y) + Len(rest)
        /\ \A i \in 1 .. Len(y) : vals[i] = y[i]
        /\ \A i \in 1 .. Len(rest) : vals[Len(y) + i] = rest[i]
    BY JoinedNat
  <2> HIDE DEF vals
  <2>. QED BY <2>1 DEF n
<1> HIDE DEF vals
<1>6. m = x \o vals \o z
  BY <1>4
<1>7. m \in Seq(Nat)
  <2>1. x \o vals \in Seq(Nat)
    BY <1>3, <1>5, JoinedNat
  <2>. QED BY <1>2, <1>6, <2>1, JoinedNat
<1> HIDE DEF m
<1>8. m = <<SYSEX>> \o MANUFACTURER_ID \o q \o vals \o <<EOX>>
  BY <1>6 DEF x, z
<1> DEFINE w == <<SYSEX>> \o MANUFACTURER_ID \o q \o vals \o <<EOX>>
<1>9. /\ Len(w) = (4 + Len(q)) + Len(vals) + 1
      /\ w[1] = SYSEX /\ SubSeq(w, 2, 4) = MANUFACTURER_ID
      /\ \A i \in 1 .. Len(q) : w[4 + i] = q[i]
      /\ \A i \in 1 .. Len(vals) : w[(4 + Len(q)) + i] = vals[i]
      /\ w[Len(w)] = EOX
  BY <1>5, Assembled
<1> HIDE DEF w
<1>91. m = w
  BY <1>8 DEF w
<1>10. /\ Len(m) = (4 + Len(q)) + Len(vals) + 1
       /\ m[1] = SYSEX /\ SubSeq(m, 2, 4) = MANUFACTURER_ID
       /\ \A i \in 1 .. Len(q) : m[4 + i] = q[i]
       /\ \A i \in 1 .. Len(vals) : m[(4 + Len(q)) + i] = vals[i]
       /\ m[Len(m)] = EOX
  BY <1>9, <1>91
<1>11. Len(m) = 14 + n /\ \A i \in 1 .. 5 + n : m[8 + i] = vals[i]
  BY <1>1, <1>5, <1>10
<1>12. m[7] = q[3]
  <2>1. \A i \in 1 .. 4 : m[4 + i] = q[i]
    BY <1>10
  <2>2. m[4 + 3] = q[3]
    BY <2>1
  <2>. QED BY <2>2
<1>13. SubSeq(m, 9, 13) = y
  <2>1. \A i \in 1 .. 5 : i \in 1 .. 5 + n
    BY <1>1
  <2>2. \A i \in 1 .. Len(y) : m[8 + i] = y[i]
    BY <1>5, <1>11, <2>1
  <2>3. 8 + Len(y) <= Len(m)
    BY <1>1, <1>11
  <2>4. SubSeq(m, 8 + 1, 8 + Len(y)) = y
    BY <1>7, <2>2, <2>3, PartIs
  <2>5. 8 + 1 = 9 /\ 8 + Len(y) = 13
    OBVIOUS
  <2>. QED BY ONLY <2>4, <2>5
<1>14. SubSeq(m, 14, 13 + n) = rest
  <2>1. \A i \in 1 .. n : 5 + i \in 1 .. 5 + n /\ 13 + i = 8 + (5 + i)
    BY <1>1
  <2>2. \A i \in 1 .. Len(rest) : m[13 + i] = rest[i]
    BY <1>5, <1>11, <2>1 DEF n
  <2>3. 13 + Len(rest) <= Len(m)
    BY <1>1, <1>11 DEF n
  <2>4. SubSeq(m, 13 + 1, 13 + Len(rest)) = rest
    BY <1>7, <2>2, <2>3, PartIs
  <2>5. 13 + 1 = 14 /\ 13 + Len(rest) = 13 + n
    BY DEF n
  <2>. QED BY ONLY <2>4, <2>5
<1>15. m = Extended(q, y, rest)
  BY DEF m, x, z, Extended
<1>. QED BY <1>10, <1>11, <1>12, <1>13, <1>14, <1>15 DEF n, ExtHas

LEMMA HeaderOf ==
  ASSUME NEW p \in Byte, NEW d \in Byte, NEW f \in Byte, NEW i \in Byte, NEW page \in Byte,
         NEW number \in Byte, NEW vals \in Seq(Byte)
  PROVE  [product |-> p, device |-> d, function |-> f, instance |-> i,
          page |-> page, number |-> number, vals |-> vals] \in Header
BY DEF Header

\* What a message parses to.
LEMMA ParsedAs ==
  ASSUME NEW m \in Seq(Byte), Len(m) >= 11, m[1] = SYSEX, SubSeq(m, 2, 4) = MANUFACTURER_ID
  PROVE  /\ parse(m) \in Header /\ parse(m) # None
         /\ parse(m).function = m[7] /\ parse(m).page = m[9] /\ parse(m).number = m[10]
         /\ parse(m).vals = SubSeq(m, 11, Len(m) - 1)
<1> DEFINE vs == SubSeq(m, 11, Len(m) - 1)
           h == [product |-> m[5], device |-> m[6], function |-> m[7], instance |-> m[8],
                 page |-> m[9], number |-> m[10], vals |-> vs]
<1>1. Len(m) \in Nat /\ ~ (Len(m) < 11)
  OBVIOUS
<1>2. parse(m) = h
  BY <1>1 DEF parse
<1>3. /\ m[5] \in Byte /\ m[6] \in Byte /\ m[7] \in Byte /\ m[8] \in Byte /\ m[9] \in Byte
      /\ m[10] \in Byte
  BY <1>1
<1>4. vs \in Seq(Byte)
  <2>1. 11 \in Nat /\ Len(m) - 1 \in Nat /\ 1 <= 11 /\ 11 <= (Len(m) - 1) + 1 /\ Len(m) - 1 <= Len(m)
    BY <1>1
  <2>. QED BY <2>1, Cut
<1> HIDE DEF vs
<1>5. h \in Header
  BY <1>3, <1>4, HeaderOf
<1>6. \A x \in Header : x # None
  BY SurfaceAssumption
<1>7. /\ h.function = m[7] /\ h.page = m[9] /\ h.number = m[10]
      /\ h.vals = vs
  OBVIOUS
<1> HIDE DEF h
<1>. QED BY <1>2, <1>5, <1>6, <1>7 DEF vs

LEMMA ExtHead ==
  ASSUME NEW q \in Seq(Byte), Len(q) = 4, NEW y \in Seq(Byte), Len(y) = 5, NEW rest \in Seq(Byte)
  PROVE  Extended(q, y, rest) \in Seq(Byte)
<1>1. <<SYSEX>> \in Seq(Byte) /\ MANUFACTURER_ID \in Seq(Byte) /\ <<EOX>> \in Seq(Byte)
  BY DEF SYSEX, EOX, MANUFACTURER_ID, Byte
<1>2. <<SYSEX>> \o MANUFACTURER_ID \in Seq(Byte)
  BY <1>1, JoinedByte
<1>3. <<SYSEX>> \o MANUFACTURER_ID \o q \in Seq(Byte)
  BY <1>2, JoinedByte
<1>4. <<SYSEX>> \o MANUFACTURER_ID \o q \o y \in Seq(Byte)
  BY <1>3, JoinedByte
<1>5. <<SYSEX>> \o MANUFACTURER_ID \o q \o y \o rest \in Seq(Byte)
  BY <1>4, JoinedByte
<1>. QED BY <1>1, <1>5, JoinedByte DEF Extended

LEMMA ExtOfBytes ==
  ASSUME NEW q, NEW y, NEW rest, q \in Seq(Byte), Len(q) = 4, y \in Seq(Byte), Len(y) = 5,
         rest \in Seq(Byte)
  PROVE  ExtHas(Extended(q, y, rest), q, y, rest)
<1>1. q \in Seq(Nat) /\ y \in Seq(Nat) /\ rest \in Seq(Nat)
  BY BytesAreNats
<1>2. Len(q) = 4 /\ Len(y) = 5
  OBVIOUS
<1>. QED BY ONLY <1>1, <1>2, ExtParts

LEMMA ExtIs ==
  ASSUME NEW f \in Byte, NEW a \in Nat, a < HUGE, NEW rest \in Seq(Byte)
  PROVE  LET m == Extended(<<2, 0, f, 0>>, ext_encode(a, 5), rest)
         IN  /\ m \in Seq(Byte) /\ Len(m) = 14 + Len(rest) /\ m[7] = f /\ Last(m) = EOX
             /\ parse(m) # None /\ parse(m).function = f
             /\ ext_decode(SubSeq(m, 9, 13)) = a /\ SubSeq(m, 14, 13 + Len(rest)) = rest
<1> DEFINE q == <<2, 0, f, 0>>
           y == ext_encode(a, 5)
           m == Extended(q, y, rest)
<1>1. q \in Seq(Byte) /\ Len(q) = 4 /\ q[3] = f
  BY DEF Byte
<1>2. y \in Seq(Byte) /\ Len(y) = 5 /\ ext_decode(y) = a
  BY EncodedIs, ExtBack
<1> HIDE DEF q, y
<1>3. m \in Seq(Byte)
  BY <1>1, <1>2, ExtHead
<1>4. ExtHas(m, q, y, rest)
  BY <1>1, <1>2, ExtOfBytes
<1> HIDE DEF m
<1>5. /\ Len(m) = 14 + Len(rest)
      /\ m[1] = SYSEX /\ SubSeq(m, 2, 4) = MANUFACTURER_ID
      /\ m[7] = q[3] /\ m[Len(m)] = EOX
      /\ SubSeq(m, 9, 13) = y /\ SubSeq(m, 14, 13 + Len(rest)) = rest
  BY <1>4 DEF ExtHas
<1>6. Len(rest) \in Nat /\ Len(m) >= 11
  BY <1>5
<1>7. parse(m) # None /\ parse(m).function = m[7]
  BY <1>3, <1>5, <1>6, ParsedAs
<1>8. Last(m) = EOX
  BY <1>5 DEF Last
<1>. QED BY <1>1, <1>2, <1>3, <1>5, <1>7, <1>8 DEF m, q, y

LEMMA ExtSays ==
  ASSUME NEW a \in Nat, a < HUGE, NEW v \in Nat, v < HUGE
  PROVE  ExtParam(a, v) \in Seq(Byte) /\ decode_stream(ExtParam(a, v)) = Live(a, Num(v))
<1> DEFINE f == FN.EXT
           rest == ext_encode(v, 5)
           m == Extended(<<2, 0, f, 0>>, ext_encode(a, 5), rest)
<1>1. f \in Byte
  BY Codes
<1>2. rest \in Seq(Byte) /\ Len(rest) = 5 /\ ext_decode(rest) = v
  BY EncodedIs, ExtBack
<1>3. ExtParam(a, v) = m
  BY DEF ExtParam, Extended
<1> HIDE DEF f, rest
<1>4. /\ m \in Seq(Byte) /\ Len(m) = 14 + Len(rest) /\ m[7] = f /\ Last(m) = EOX
      /\ parse(m) # None /\ parse(m).function = f
      /\ ext_decode(SubSeq(m, 9, 13)) = a /\ SubSeq(m, 14, 13 + Len(rest)) = rest
  BY <1>1, <1>2, ExtIs
<1> HIDE DEF m
<1>5. ~ (Len(m) < 19) /\ 13 + Len(rest) = 18 /\ a # HUGE
  BY <1>2, <1>4
<1>6. ExtAddress(m, FN.EXT, 19) = a
  BY <1>4, <1>5 DEF ExtAddress, f
<1>7. ext_decode(SubSeq(m, 14, 18)) = v
  BY <1>2, <1>4, <1>5
<1>8. a # None
  BY SurfaceAssumption
<1>9. parse_extended_param(m) = Live(a, Num(v))
  BY <1>6, <1>7, <1>8 DEF parse_extended_param
<1>10. decode_stream(m) = parse_extended_param(m)
  BY <1>4, SaysBy DEF f
<1>. QED BY <1>3, <1>4, <1>9, <1>10

LEMMA ExtStringSays ==
  ASSUME NEW a \in Nat, a < HUGE, NEW t \in Seq(Byte \ {0})
  PROVE  /\ ExtString(a, Append(t, 0)) \in Seq(Byte)
         /\ decode_stream(ExtString(a, Append(t, 0))) = Live(a, Text(t))
<1> DEFINE f == FN.EXT_STRING
           rest == Append(t, 0)
           m == Extended(<<2, 0, f, 0>>, ext_encode(a, 5), rest)
<1>1. f \in Byte
  BY Codes
<1>2. rest \in Seq(Byte) /\ until_nul(rest) = t
  BY TextBack
<1>3. ExtString(a, rest) = m
  BY DEF ExtString, Extended
<1> HIDE DEF f, rest
<1>4. /\ m \in Seq(Byte) /\ Len(m) = 14 + Len(rest) /\ m[7] = f /\ Last(m) = EOX
      /\ parse(m) # None /\ parse(m).function = f
      /\ ext_decode(SubSeq(m, 9, 13)) = a /\ SubSeq(m, 14, 13 + Len(rest)) = rest
  BY <1>1, <1>2, ExtIs
<1> HIDE DEF m
<1>5. Len(rest) \in Nat /\ ~ (Len(m) < 14) /\ Len(m) - 1 = 13 + Len(rest) /\ a # HUGE
  <2>1. Len(rest) \in Nat
    BY <1>2
  <2>. QED BY <1>4, <2>1
<1>6. ExtAddress(m, FN.EXT_STRING, 14) = a
  BY <1>4, <1>5 DEF ExtAddress, f
<1>7. SubSeq(m, 14, Len(m) - 1) = rest
  BY <1>4, <1>5
<1>8. a # None
  BY SurfaceAssumption
<1>9. parse_extended_string(m) = Live(a, Text(t))
  BY <1>2, <1>6, <1>7, <1>8 DEF parse_extended_string
<1>10. decode_stream(m) = parse_extended_string(m)
  BY <1>4, SaysBy DEF f
<1>. QED BY <1>3, <1>4, <1>9, <1>10 DEF rest

-----------------------------------------------------------------------------
(***************************************************************************)
(* The routing table: its rows, found by their addresses.                   *)
(***************************************************************************)

\* The leaf of an address.
LeafOf(a) == <<route(a).field, route(a).slot>>

\* What a number at an address makes of it.
Makes(a, v) == decode(route(a), a, Num(v))

\* A row whose address the wire can carry; a text is stored.
RowFits(r) ==
  /\ r = [x \in {"address", "field", "slot", "kind", "lane", "wire", "dedupe", "request",
                 "refresh"} |-> r[x]]
  /\ r.address \in Nat /\ r.address < HUGE
  /\ r.kind \in {"Text", "U14", "U16", "U35", "U7", "Bool", "Bpm", "Multi"}
  /\ r.kind = "Text" => r.field \notin {"MorphButton", "BeatPulse"}

Unasked(row) == [row EXCEPT !.request = FALSE]

LEMMA RowStaysFit ==
  ASSUME NEW r, RowFits(r), NEW x
  PROVE  /\ RowFits(Refreshed(x, r)) /\ RowFits(From(x, r)) /\ RowFits(Fast(r))
         /\ RowFits(Unasked(r)) /\ RowFits(Every(r))
BY DEF RowFits, Refreshed, From, Fast, Every, Unasked

LEMMA RowsStayFit ==
  \A r, x : RowFits(r) => /\ RowFits(Refreshed(x, r)) /\ RowFits(From(x, r)) /\ RowFits(Fast(r))
                         /\ RowFits(Unasked(r)) /\ RowFits(Every(r))
BY RowStaysFit

LEMMA RowIsFit ==
  ASSUME NEW a \in Nat, a < HUGE, NEW f, NEW s,
         NEW k \in {"Text", "U14", "U16", "U35", "U7", "Bool", "Bpm", "Multi"},
         k = "Text" => f \notin {"MorphButton", "BeatPulse"}
  PROVE  RowFits(Row(a, f, s, k))
<1> DEFINE r == Row(a, f, s, k)
<1>1. r = [y \in {"address", "field", "slot", "kind", "lane", "wire", "dedupe", "request",
                  "refresh"} |-> r[y]]
  BY DEF Row
<1>2. r.address = a /\ r.kind = k /\ r.field = f
  BY DEF Row
<1> HIDE DEF r
<1>3. RowFits(r)
  BY <1>1, <1>2 DEF RowFits
<1>. QED BY <1>3 DEF r

LEMMA RigRowsFit == \A r \in RigRows : RowFits(r)
<1> DEFINE T == {<<1, "RigName">>, <<2, "RigAuthor">>, <<3, "RigDate">>,
            <<4, "RigComment">>, <<16, "AmpName">>, <<32, "CabinetName">>}
<1>2. \A q \in T : RowFits(Refreshed("Rig", Row(q[1], q[2], 0, "Text")))
  <2> SUFFICES ASSUME NEW q \in T PROVE RowFits(Refreshed("Rig", Row(q[1], q[2], 0, "Text")))
    OBVIOUS
  <2> DEFINE a == q[1]
             f == q[2]
  <2>1. a \in Nat /\ a < HUGE /\ f \notin {"MorphButton", "BeatPulse"}
    BY SMT DEF HUGE
  <2> HIDE DEF a, f
  <2>2. RowFits(Row(a, f, 0, "Text"))
    BY <2>1, RowIsFit
  <2>3. RowFits(Refreshed("Rig", Row(a, f, 0, "Text")))
    BY <2>2, RowStaysFit
  <2>. QED BY <2>3 DEF a, f
<1> HIDE DEF T
<1> DEFINE b == Row(512, "TempoBpm", 0, "Bpm")
           v == Row(513, "RigVolume", 0, "U14")
           o == Row(1282, "AmpOn", 0, "Bool")
           g == Row(1284, "AmpGain", 0, "U14")
           c == Row(1538, "CabinetOn", 0, "Bool")
           m == Row(119, "MorphPosition", 0, "U14")
<1>3. RowFits(b) /\ RowFits(v) /\ RowFits(o) /\ RowFits(g) /\ RowFits(c) /\ RowFits(m)
  BY RowIsFit, SMT DEF HUGE
<1>4. RigRows = {Refreshed("Rig", Row(q[1], q[2], 0, "Text")) : q \in T}
                  \union {b, v, o, g, Unasked(c), From("Control", m)}
  BY SMT DEF RigRows, T, Unasked
<1> HIDE DEF T, b, v, o, g, c, m
<1>5. RowFits(Unasked(c)) /\ RowFits(From("Control", m))
  BY ONLY <1>3, RowsStayFit, Zenon
<1>. QED BY ONLY <1>2, <1>3, <1>4, <1>5, Zenon

LEMMA EffectPages == \A i \in DOMAIN EFFECT_PAGES : EFFECT_PAGES[i] \in 50 .. 61
BY DEF EFFECT_PAGES

LEMMA EffectRowsFit == \A r \in EffectRows : RowFits(r)
<1>1. ASSUME NEW i \in DOMAIN EFFECT_PAGES
      PROVE  LET base == EFFECT_PAGES[i] * 128
             IN  /\ RowFits(Refreshed("Rig", Row(base, "EffectType", i - 1, "U14")))
                 /\ RowFits(Refreshed("Rig", Row(base + 3, "EffectOn", i - 1, "Bool")))
                 /\ RowFits(Unasked(Row(base + 4, "EffectMix", i - 1, "U14")))
  <2> DEFINE base == EFFECT_PAGES[i] * 128
  <2>1. base \in Nat /\ base + 3 \in Nat /\ base + 4 \in Nat
        /\ base < HUGE /\ base + 3 < HUGE /\ base + 4 < HUGE
    BY EffectPages, SMT DEF HUGE
  <2> HIDE DEF base
  <2>2. /\ RowFits(Refreshed("Rig", Row(base, "EffectType", i - 1, "U14")))
        /\ RowFits(Refreshed("Rig", Row(base + 3, "EffectOn", i - 1, "Bool")))
        /\ RowFits(Unasked(Row(base + 4, "EffectMix", i - 1, "U14")))
    <3>1. /\ RowFits(Row(base, "EffectType", i - 1, "U14"))
          /\ RowFits(Row(base + 3, "EffectOn", i - 1, "Bool"))
          /\ RowFits(Row(base + 4, "EffectMix", i - 1, "U14"))
      BY <2>1, RowIsFit
    <3>. QED BY <3>1, RowStaysFit
  <2>. QED BY <2>2 DEF base
<1>. QED BY <1>1 DEF EffectRows, Unasked

LEMMA RealtimeRowsFit == \A r \in RealtimeRows : RowFits(r)
<1> DEFINE m == Row(80, "MorphButton", 0, "Bool")
           b == Row(15872, "BeatPulse", 0, "Bool")
           d == Row(15887, "TunerDeviance", 0, "U14")
           n == Row(16084, "TunerNote", 0, "U7")
           c == Row(102405, "SessionCounter", 0, "U35")
           meter(s) == Row(METER_BASE + s, "Status", s, "Multi")
           Meters == {Fast(From("Stream", Every(meter(s)))) : s \in 0 .. METER_COUNT - 1}
<1>1. RowFits(m) /\ RowFits(b) /\ RowFits(d) /\ RowFits(n) /\ RowFits(c)
  BY RowIsFit, SMT DEF HUGE
<1>2. \A s \in 0 .. METER_COUNT - 1 : RowFits(meter(s))
  BY RowIsFit, SMT DEF HUGE, METER_COUNT, METER_BASE
<1>3. RealtimeRows = {Fast(From("Stream", Every(m))), Fast(From("Stream", Every(b))),
                      Fast(From("Stream", d)), From("Stream", n), Fast(Every(c))}
                       \union Meters
  BY SMT DEF RealtimeRows
<1> HIDE DEF m, b, d, n, c, meter
<1>4. /\ RowFits(Fast(From("Stream", Every(m)))) /\ RowFits(Fast(From("Stream", Every(b))))
      /\ RowFits(Fast(From("Stream", d))) /\ RowFits(From("Stream", n)) /\ RowFits(Fast(Every(c)))
  BY ONLY <1>1, RowsStayFit, Zenon
<1>5. \A r \in Meters : RowFits(r)
  BY ONLY <1>2, RowsStayFit, Zenon
<1> HIDE DEF Meters
<1>. QED BY ONLY <1>3, <1>4, <1>5, Zenon

LEMMA SystemRowsFit == \A r \in SystemRows : RowFits(r)
<1> DEFINE v == Row(16256, "MainVolume", 0, "U14")
           h == Row(16257, "HeadphoneVolume", 0, "U14")
           m == Row(16258, "MonitorVolume", 0, "U14")
           b == Row(BANK, "CurrentBank", 0, "U16")
           t == Row(SLOT, "CurrentRigSlot", 0, "U16")
           name(k, s) == Refreshed("Bank", Row(19200 + 5 * k + s,
               <<"BankRigName", "BankAmpName", "BankCabinetName">>[k + 1], s, "Text"))
           Names == {name(k, s) : k \in 0 .. 2, s \in 0 .. BANK_SLOTS - 1}
<1>1. RowFits(v) /\ RowFits(h) /\ RowFits(m) /\ RowFits(b) /\ RowFits(t)
  BY RowIsFit, SMT DEF HUGE, BANK, SLOT
<1>2. SystemRows = {v, h, m, Refreshed("Position", b), Refreshed("Position", t)} \union Names
  BY SMT DEF SystemRows
<1>3. ASSUME NEW k \in 0 .. 2, NEW s \in 0 .. BANK_SLOTS - 1 PROVE RowFits(name(k, s))
  <2> DEFINE a == 19200 + 5 * k + s
             f == <<"BankRigName", "BankAmpName", "BankCabinetName">>[k + 1]
  <2>1. a \in Nat /\ a < HUGE
    BY SMT DEF HUGE, BANK_SLOTS
  <2>2. f \notin {"MorphButton", "BeatPulse"}
    <3>1. k = 0 \/ k = 1 \/ k = 2
      OBVIOUS
    <3>. QED BY <3>1
  <2> HIDE DEF a, f
  <2>3. RowFits(Row(a, f, s, "Text"))
    BY <2>1, <2>2, RowIsFit
  <2>4. RowFits(Refreshed("Bank", Row(a, f, s, "Text")))
    BY <2>3, RowStaysFit
  <2>. QED BY <2>4, SMT DEF a, f
<1> HIDE DEF v, h, m, b, t, name
<1>4. RowFits(Refreshed("Position", b)) /\ RowFits(Refreshed("Position", t))
  BY ONLY <1>1, RowsStayFit, Zenon
<1>5. \A r \in Names : RowFits(r)
  BY <1>3, SMT
<1> HIDE DEF Names
<1>. QED BY ONLY <1>1, <1>2, <1>4, <1>5, Zenon

LEMMA RowsFit == \A r \in STATE_ROUTES : RowFits(r)
BY RigRowsFit, EffectRowsFit, RealtimeRowsFit, SystemRowsFit DEF STATE_ROUTES

\* A row is what its address routes to.
LEMMA RouteIs ==
  ASSUME NEW r \in STATE_ROUTES
  PROVE  route(r.address) = r /\ LeafOf(r.address) = <<r.field, r.slot>> /\ <<r.field, r.slot>> \in Leaves
<1> DEFINE a == r.address
           c == CHOOSE x \in STATE_ROUTES : x.address = a
<1>1. c \in STATE_ROUTES /\ c.address = a
  OBVIOUS
<1>2. c = r
  BY <1>1, RoutesAssumption
<1>3. route(a) = c
  BY DEF route, RouteTable
<1>. QED BY <1>2, <1>3 DEF LeafOf, Leaves

\* A parameter's row: a number, with a leaf of its own.
LEMMA NumberRow ==
  ASSUME NEW a \in NumAddresses
  PROVE  /\ route(a) \in STATE_ROUTES /\ route(a).address = a /\ RowFits(route(a))
         /\ route(a).kind \notin {"Text", "Multi"}
         /\ a \in Nat /\ a < HUGE /\ LeafOf(a) \in Leaves
<1>1. PICK r \in STATE_ROUTES : r.address = a /\ r.kind \notin {"Text", "Multi"}
  BY DEF NumAddresses
<1>2. route(a) = r /\ LeafOf(a) \in Leaves
  BY <1>1, RouteIs
<1>3. RowFits(r)
  BY RowsFit
<1>. QED BY <1>1, <1>2, <1>3 DEF RowFits

-----------------------------------------------------------------------------
(***************************************************************************)
(* The tree: a fold never opens or closes the stream, nor begins a dump.    *)
(***************************************************************************)

\* A sequence of what does not matter, and a message of any bytes.
IsSeq(s) == \E S : s \in Seq(S)
Message  == Seq(Byte)

\* A tree with its fields, and its stream and its guard as they are in another.
Grows(t, u) ==
  /\ u \in [leaf : {u.leaf}, stream_open : {u.stream_open}, dump : {u.dump},
            touched : {u.touched}]
  /\ u.leaf = [l \in Leaves |-> u.leaf[l]]
  /\ u.stream_open = t.stream_open /\ u.dump = t.dump

LEMMA GrowsOn == ASSUME NEW t, NEW u, NEW v, Grows(t, u), Grows(u, v) PROVE Grows(t, v)
BY DEF Grows

LEMMA GrowsHere == ASSUME NEW t, NEW u, Grows(t, u) PROVE Grows(u, u)
BY DEF Grows

LEMMA LeafKeeps ==
  ASSUME NEW t, Grows(t, t), NEW x, x = [l \in Leaves |-> x[l]]
  PROVE  Grows(t, [t EXCEPT !.leaf = x]) /\ [t EXCEPT !.leaf = x].leaf = x
BY DEF Grows

LEMMA OneLeafKeeps ==
  ASSUME NEW t, Grows(t, t), NEW l, NEW x
  PROVE  /\ Grows(t, [t EXCEPT !.leaf[l] = x])
         /\ [t EXCEPT !.leaf[l] = x].leaf = [t.leaf EXCEPT ![l] = x]
<1> DEFINE y == [t.leaf EXCEPT ![l] = x]
<1>1. t.leaf = [k \in Leaves |-> t.leaf[k]]
  BY DEF Grows
<1>2. y = [k \in Leaves |-> y[k]]
  BY <1>1
<1>3. [t EXCEPT !.leaf[l] = x] = [t EXCEPT !.leaf = y]
  OBVIOUS
<1> HIDE DEF y
<1>4. Grows(t, [t EXCEPT !.leaf = y]) /\ [t EXCEPT !.leaf = y].leaf = y
  BY <1>2, LeafKeeps
<1>. QED BY <1>3, <1>4 DEF y

LEMMA TouchedKeeps ==
  ASSUME NEW t, Grows(t, t), NEW x PROVE Grows(t, [t EXCEPT !.touched = @ \union x])
BY DEF Grows

LEMMA WriteGrows ==
  ASSUME NEW t, Grows(t, t), NEW row, NEW value, NEW whole
  PROVE  Grows(t, write(t, row, value, whole))
<1> DEFINE x == [l \in Leaves |-> IF l[1] = "Status" THEN value[l[2] + 1] ELSE t.leaf[l]]
<1>1. x = [l \in Leaves |-> x[l]]
  OBVIOUS
<1>2. \/ write(t, row, value, whole) = [t EXCEPT !.leaf = x]
      \/ write(t, row, value, whole) = [t EXCEPT !.leaf[<<row.field, row.slot>>] = value]
      \/ write(t, row, value, whole) = t
  BY DEF write
<1> HIDE DEF x
<1>. QED BY <1>1, <1>2, LeafKeeps, OneLeafKeeps

LEMMA FoldGrows ==
  ASSUME NEW t, Grows(t, t), NEW row, NEW u
  PROVE  Grows(t, Fold(t, row, u).tree)
<1> DEFINE value   == decode(row, u.address, u.decoded)
           marked  == IF t.dump /\ u.phase = "Live"
                        THEN [t EXCEPT !.touched = @ \union {u.address}] ELSE t
           old     == IF Stores(row) THEN t.leaf[<<row.field, row.slot>>] ELSE None
           written == write(marked, row, value, u.decoded.kind = "Block")
<1>1. Grows(t, marked)
  BY TouchedKeeps
<1>2. Grows(t, written)
  <2>1. Grows(marked, marked)
    BY <1>1, GrowsHere
  <2> HIDE DEF marked
  <2>2. Grows(marked, written)
    BY <2>1, WriteGrows
  <2>. QED BY <1>1, <2>2, GrowsOn
<1> DEFINE o == Fold(t, row, u)
           ev == events(written, row, value, u.decoded.num)
           slow == row.lane = "Slow"
           at1 == position_report(t, row.field)
           at2 == position_report(written, row.field)
           held == t.dump /\ u.phase = "Dump" /\ u.address \in t.touched
           same == row.dedupe /\ old = value
<1>3. \/ o = Nothing(t)
      \/ o = Outcome(marked, <<>>, FALSE, at1)
      \/ o = Outcome(written, ev, slow, at2)
  <2>1. o = CASE value = None -> Nothing(t)
              [] value # None /\ held -> Nothing(t)
              [] OTHER -> IF same THEN Outcome(marked, <<>>, FALSE, at1)
                          ELSE Outcome(written, ev, slow, at2)
    BY DEF Fold
  <2> HIDE DEF value, held, same, o, marked, written, at1, at2, ev, slow
  <2>. QED BY <2>1
<1> HIDE DEF marked, written, at1, at2, ev, slow
<1>4. Nothing(t).tree = t
  BY DEF Nothing, Outcome
<1>5. Outcome(marked, <<>>, FALSE, at1).tree = marked
  BY DEF Outcome
<1>6. Outcome(written, ev, slow, at2).tree = written
  BY DEF Outcome
<1> HIDE DEF o
<1>7. o.tree = t \/ o.tree = marked \/ o.tree = written
  BY <1>3, <1>4, <1>5, <1>6
<1>8. Grows(t, o.tree)
  BY <1>1, <1>2, <1>7
<1>. QED BY <1>8 DEF o

LEMMA ApplyOneGrows ==
  ASSUME NEW t, Grows(t, t), NEW u
  PROVE  Grows(t, ApplyOne(t, u).tree)
<1>1. untracked(t, u).tree = t
  BY DEF untracked, Nothing, Outcome
<1> DEFINE row == route(u.address)
<1>2. ApplyOne(t, u) = untracked(t, u) \/ ApplyOne(t, u) = Fold(t, row, u)
  BY DEF ApplyOne
<1> HIDE DEF row
<1>3. Grows(t, Fold(t, row, u).tree)
  BY FoldGrows
<1>. QED BY <1>1, <1>2, <1>3

Merges == INSTANCE Folding WITH step <- Merged, Keeps <- IsSeq

LEMMA ApplyAllGrows ==
  ASSUME NEW t, Grows(t, t), NEW us, Len(us) \in Nat
  PROVE  Grows(t, ApplyAll(Nothing(t), us).tree)
<1>1. PICK g : /\ g[0] = Nothing(t)
               /\ \A i \in 1 .. Len(us) : g[i] = Merged(g[i - 1], us[i])
               /\ Merges!Folded(Nothing(t), us) = g[Len(us)]
  BY Merges!FoldRuns
<1>2. ApplyAll(Nothing(t), us) = Merges!Folded(Nothing(t), us)
  BY DEF ApplyAll, Through, Merges!Folded
<1> DEFINE S == {k \in 0 .. Len(us) : Grows(t, g[k].tree)}
<1>3. 0 \in S
  BY <1>1 DEF Nothing, Outcome
<1>4. \A k \in 0 .. Len(us) - 1 : k \in S => k + 1 \in S
  <2> SUFFICES ASSUME NEW k \in 0 .. Len(us) - 1, k \in S PROVE k + 1 \in S
    OBVIOUS
  <2>1. k + 1 \in 1 .. Len(us) /\ (k + 1) - 1 = k /\ Grows(t, g[k].tree)
    OBVIOUS
  <2>2. g[k + 1] = Merged(g[k], us[k + 1])
    BY <1>1, <2>1
  <2>3. Merged(g[k], us[k + 1]).tree = ApplyOne(g[k].tree, us[k + 1]).tree
    BY DEF Merged, Outcome
  <2>4. Grows(g[k].tree, ApplyOne(g[k].tree, us[k + 1]).tree)
    BY <2>1, GrowsHere, ApplyOneGrows
  <2>5. Grows(t, g[k + 1].tree)
    BY <2>1, <2>2, <2>3, <2>4, GrowsOn
  <2>. QED BY <2>1, <2>5
<1> HIDE DEF S
<1>5. Len(us) \in S
  BY <1>3, <1>4, Joins!Induction
<1>. QED BY <1>1, <1>2, <1>5 DEF S

\* A block is a sequence of values.
IsDecoded(d) == d.kind = "Block" => \E n \in Nat : DOMAIN d.vals = 1 .. n

LEMMA ApplyUpdateGrows ==
  ASSUME NEW t, Grows(t, t), NEW u, IsDecoded(u.decoded)
  PROVE  Grows(t, apply_update(t, u).tree)
<1> DEFINE elements == [i \in DOMAIN u.decoded.vals |->
                     [u EXCEPT !.address = @ + i - 1,
                               !.decoded = Num(u.decoded.vals[i])]]
<1>1. CASE u.decoded.kind = "Block" /\ u.address # METER_BASE
  <2>1. apply_update(t, u) = ApplyAll(Nothing(t), elements)
    BY <1>1 DEF apply_update
  <2>2. PICK n \in Nat : DOMAIN u.decoded.vals = 1 .. n
    BY <1>1 DEF IsDecoded
  <2>3. elements = [i \in 1 .. n |-> elements[i]]
    BY <2>2
  <2> HIDE DEF elements
  <2>4. Len(elements) \in Nat
    <3>1. \A i \in 1 .. n : elements[i] \in {elements[j] : j \in 1 .. n}
      OBVIOUS
    <3>. QED BY <2>3, <3>1, Listed
  <2>. QED BY <2>1, <2>4, ApplyAllGrows
<1>2. CASE ~ (u.decoded.kind = "Block" /\ u.address # METER_BASE)
  <2>1. apply_update(t, u) = ApplyOne(t, u)
    BY <1>2 DEF apply_update
  <2>. QED BY <2>1, ApplyOneGrows
<1>. QED BY <1>1, <1>2

\* What a message says is decoded.
LEMMA ParsedFields ==
  ASSUME NEW msg, msg \in Message, parse(msg) # None
  PROVE  parse(msg).vals \in Seq(Byte) /\ Len(parse(msg).vals) \in Nat
<1>1. msg \in Seq(Byte)
  BY DEF Message
<1>2. Len(msg) \in Nat /\ ~ (Len(msg) < 11)
  BY <1>1 DEF parse
<1>3. parse(msg).vals = SubSeq(msg, 11, Len(msg) - 1)
  BY DEF parse
<1>4. SubSeq(msg, 11, Len(msg) - 1) \in Seq(Byte)
  <2>1. 11 <= (Len(msg) - 1) + 1 /\ Len(msg) - 1 \in Nat
    BY <1>2
  <2>. QED BY <1>1, <2>1, Cut
<1> DEFINE vals == SubSeq(msg, 11, Len(msg) - 1)
<1> HIDE DEF vals
<1>5. vals \in Seq(Byte)
  BY <1>4 DEF vals
<1>6. vals \in Seq(Byte) /\ Len(vals) \in Nat
  BY <1>5
<1>7. parse(msg).vals = vals
  BY <1>3 DEF vals
<1>. QED BY <1>6, <1>7, Zenon

LEMMA DecodedFields ==
  ASSUME NEW msg, msg \in Message, decode_stream(msg).update # None
  PROVE  IsDecoded(decode_stream(msg).update.decoded)
<1> DEFINE h == parse(msg)
           flat == h.page * 128 + h.number
           s == decode_stream(msg)
           IsGood(x) == x.update # None => IsDecoded(x.update.decoded)
<1>1. CASE h = None
  <2>1. s = Ignored
    BY <1>1 DEF decode_stream
  <2>. QED BY <2>1 DEF Ignored
<1>2. CASE h # None
  <2>1. IsGood(Ignored)
    BY DEF Ignored
  <2>2. \A a, n : IsGood(Live(a, Num(n)))
    BY DEF Live, Update, Num, IsDecoded
  <2>3. \A a, n : IsGood(Live(a, Text(n)))
    BY DEF Live, Update, Text, IsDecoded
  <2>4. IsGood(Live(flat, Block(multi_values(h.vals))))
    <3>1. Len(h.vals) \div 2 \in Nat
      <4>1. parse(msg) # None
        BY <1>2
      <4>2. Len(parse(msg).vals) \in Nat
        BY ONLY <4>1, msg \in Message, ParsedFields
      <4>3. \A k \in Nat : k \div 2 \in Nat
        OBVIOUS
      <4>. QED BY <4>2, <4>3
    <3>2. DOMAIN multi_values(h.vals) = 1 .. Len(h.vals) \div 2
      BY DEF multi_values
    <3> HIDE DEF h
    <3>. QED BY <3>1, <3>2 DEF Live, Update, Block, IsDecoded
  <2>5. IsGood(parse_extended_param(msg))
    BY <2>1, <2>2 DEF parse_extended_param
  <2>6. IsGood(parse_extended_string(msg))
    BY <2>1, <2>3 DEF parse_extended_string
  <2>7. IsGood(parse_rendered_string(h))
    <3>1. parse_rendered_string(h).update = None
      BY DEF parse_rendered_string, Ignored
    <3>. QED BY <3>1
  <2> HIDE DEF IsGood
  <2>8. IsGood(s)
    <3>1. s = CASE h.function = FN.EXT         -> parse_extended_param(msg)
        [] h.function = FN.EXT_STRING  -> parse_extended_string(msg)
        [] h.function = FN.STRING      -> Live(flat, Text(until_nul(h.vals)))
        [] h.function = FN.SINGLE /\ Len(h.vals) >= 2 ->
             Live(flat, Num(u14(h.vals[1], h.vals[2])))
        [] h.function = FN.MULTI       -> Live(flat, Block(multi_values(h.vals)))
        [] h.function = FN.RENDERED    -> parse_rendered_string(h)
        [] OTHER                       -> Ignored
      BY <1>2 DEF decode_stream
    <3> DEFINE a1 == parse_extended_param(msg)
               a2 == parse_extended_string(msg)
               a3 == Live(flat, Text(until_nul(h.vals)))
               a4 == Live(flat, Num(u14(h.vals[1], h.vals[2])))
               a5 == Live(flat, Block(multi_values(h.vals)))
               a6 == parse_rendered_string(h)
    <3>2. s \in {a1, a2, a3, a4, a5, a6, Ignored}
      <4>1. FN.EXT = 6 /\ FN.EXT_STRING = 7 /\ FN.STRING = 3 /\ FN.SINGLE = 1
            /\ FN.MULTI = 2 /\ FN.RENDERED = 60
        BY DEF FN
      <4> HIDE DEF s, a1, a2, a3, a4, a5, a6, h
      <4>. QED BY <3>1 DEF a1, a2, a3, a4, a5, a6
    <3>. QED BY <2>1, <2>2, <2>3, <2>4, <2>5, <2>6, <2>7, <3>2
  <2>. QED BY <2>8 DEF IsGood
<1>. QED BY <1>1, <1>2

LEMMA ApplyGrows ==
  ASSUME NEW t, Grows(t, t), NEW msg, msg \in Message
  PROVE  Grows(t, apply(t, msg).tree)
<1> DEFINE said == decode_stream(msg)
<1>1. CASE said.update # None
  <2>1. apply(t, msg) = apply_update(t, said.update)
    BY <1>1 DEF apply
  <2>2. IsDecoded(said.update.decoded)
    BY <1>1, DecodedFields
  <2> HIDE DEF said
  <2>. QED BY <2>1, <2>2, ApplyUpdateGrows
<1>2. CASE said.update = None
  <2>1. apply(t, msg).tree = t
    BY <1>2 DEF apply, Nothing, Outcome
  <2>. QED BY <2>1
<1>. QED BY <1>1, <1>2

-----------------------------------------------------------------------------
(***************************************************************************)
(* The device: what it loads, and what it does not.                         *)
(***************************************************************************)

\* A device with its fields, that has loaded l.
Holds(g, l) ==
  /\ g \in [params : {g.params}, armed : {g.armed}, loads : {g.loads},
            says : {g.says}, mute : {g.mute}]
  /\ g.params \in [NumAddresses -> 0 .. FULL_SCALE]
  /\ g.loads = l /\ g.says \in Seq(Message)

LEMMA SaysHolds ==
  ASSUME NEW g, NEW l, Holds(g, l), NEW s \in Seq(Message)
  PROVE  Holds([g EXCEPT !.says = s], l)
BY DEF Holds

LEMMA ArmedHolds ==
  ASSUME NEW g, NEW l, Holds(g, l), NEW v
  PROVE  Holds([g EXCEPT !.armed = v], l) /\ [g EXCEPT !.armed = v].armed = v
BY DEF Holds

LEMMA LoadsHolds ==
  ASSUME NEW g, NEW l, Holds(g, l), NEW v
  PROVE  Holds([g EXCEPT !.loads = Append(@, v)], Append(l, v))
BY DEF Holds

LEMMA ParamHolds ==
  ASSUME NEW g, NEW l, Holds(g, l), NEW a, NEW v \in 0 .. FULL_SCALE
  PROVE  Holds([g EXCEPT !.params[a] = v], l)
<1> DEFINE p == [g.params EXCEPT ![a] = v]
<1>1. p \in [NumAddresses -> 0 .. FULL_SCALE]
  BY DEF Holds
<1>2. [g EXCEPT !.params[a] = v] = [g EXCEPT !.params = p]
  OBVIOUS
<1> HIDE DEF p
<1>3. Holds([g EXCEPT !.params = p], l)
  BY <1>1 DEF Holds
<1>. QED BY <1>2, <1>3

\* A rig's settings are numbers of fourteen bits.
LEMMA ParamsFit ==
  ASSUME NEW i \in 0 .. RigCount - 1 PROVE Params(i) \in [NumAddresses -> 0 .. FULL_SCALE]
<1>1. RigCount \in Nat /\ RigCount <= 65535
  BY SurfaceAssumption
<1>2. i \in Nat /\ i <= 65535
  BY <1>1
<1>3. i \div 5 \in Nat /\ i \div 5 <= 16383 /\ i % 5 \in Nat /\ i % 5 <= 16383
  BY <1>2
<1> DEFINE x == 4000 + 64 * i
<1>4. x \in Nat
  BY <1>2
<1> HIDE DEF x
<1>5. x % 16384 \in Nat /\ x % 16384 <= 16383
  BY <1>4
<1>6. /\ i \div BANK_SLOTS \in 0 .. FULL_SCALE /\ i % BANK_SLOTS \in 0 .. FULL_SCALE
      /\ x % (FULL_SCALE + 1) \in 0 .. FULL_SCALE
  <2>1. BANK_SLOTS = 5 /\ FULL_SCALE \in Nat /\ FULL_SCALE = 16383 /\ FULL_SCALE + 1 = 16384
    BY DEF BANK_SLOTS, FULL_SCALE
  <2>2. x % (FULL_SCALE + 1) = x % 16384
    BY <1>4 DEF FULL_SCALE
  <2>3. x % 16384 \in Nat /\ x % 16384 <= FULL_SCALE /\ FULL_SCALE \in Nat
    BY <1>5 DEF FULL_SCALE
  <2> DEFINE y == x % 16384
             b == i \div 5
             r == i % 5
  <2>6. b \in Nat /\ b <= FULL_SCALE /\ r \in Nat /\ r <= FULL_SCALE /\ FULL_SCALE \in Nat
    BY <1>3, <2>1
  <2>7. b = i \div BANK_SLOTS /\ r = i % BANK_SLOTS
    BY <2>1
  <2> HIDE DEF y, b, r
  <2>8. b \in 0 .. FULL_SCALE /\ r \in 0 .. FULL_SCALE
    BY ONLY <2>6
  <2>4. i \div BANK_SLOTS \in 0 .. FULL_SCALE /\ i % BANK_SLOTS \in 0 .. FULL_SCALE
    BY ONLY <2>7, <2>8
  <2>5. y \in 0 .. FULL_SCALE
    BY ONLY <2>3 DEF y
  <2>. QED BY <2>2, <2>4, <2>5 DEF y
<1>7. \A a \in NumAddresses : (CASE a = BANK -> i \div BANK_SLOTS
                                 [] a = SLOT -> i % BANK_SLOTS
                                 [] OTHER    -> x % (FULL_SCALE + 1)) \in 0 .. FULL_SCALE
  BY <1>6
<1>8. Params(i) = [a \in NumAddresses |-> CASE a = BANK -> i \div BANK_SLOTS
                                            [] a = SLOT -> i % BANK_SLOTS
                                            [] OTHER    -> x % (FULL_SCALE + 1)]
  BY DEF Params, x
<1>. QED BY <1>7, <1>8

LEMMA HugeIsMore ==
  /\ HUGE \in Nat /\ \A v \in 0 .. FULL_SCALE : v \in Nat /\ v < HUGE
  /\ BANK \in Nat /\ BANK < HUGE /\ SLOT \in Nat /\ SLOT < HUGE
BY SMT DEF HUGE, FULL_SCALE, BANK, SLOT

LEMMA PlacesAreNumbers == BANK \in NumAddresses /\ SLOT \in NumAddresses
<1> DEFINE b == Row(BANK, "CurrentBank", 0, "U16")
           t == Row(SLOT, "CurrentRigSlot", 0, "U16")
           x == Refreshed("Position", b)
           y == Refreshed("Position", t)
<1>1. x \in STATE_ROUTES /\ y \in STATE_ROUTES
  BY SMT DEF STATE_ROUTES, SystemRows
<1>2. x.address = BANK /\ x.kind = "U16" /\ y.address = SLOT /\ y.kind = "U16"
  BY SMT DEF Refreshed, Row
<1> HIDE DEF x, y
<1>. QED BY <1>1, <1>2 DEF NumAddresses

LEMMA LoadRigHolds ==
  ASSUME NEW g, NEW l, Holds(g, l), NEW i
  PROVE  Holds(LoadRig(g, i), l)
<1> DEFINE at == IF i \in 0 .. RigCount - 1 THEN Params(i) ELSE g.params
           x == ExtParam(BANK, at[BANK])
           y == ExtParam(SLOT, at[SLOT])
           s == g.says \o <<x, y>>
<1>1. LoadRig(g, i) = [g EXCEPT !.params = at, !.armed = None, !.says = @ \o <<x, y>>]
  BY DEF LoadRig
<1>2. at \in [NumAddresses -> 0 .. FULL_SCALE]
  BY ParamsFit DEF Holds
<1> HIDE DEF at
<1>3. x \in Message /\ y \in Message
  <2>1. at[BANK] \in 0 .. FULL_SCALE /\ at[SLOT] \in 0 .. FULL_SCALE
    BY <1>2, PlacesAreNumbers
  <2>2. /\ at[BANK] \in Nat /\ at[BANK] < HUGE /\ at[SLOT] \in Nat /\ at[SLOT] < HUGE
        /\ BANK \in Nat /\ BANK < HUGE /\ SLOT \in Nat /\ SLOT < HUGE
    BY <2>1, HugeIsMore
  <2>. QED BY <2>2, ExtSays DEF Message
<1> HIDE DEF x, y
<1>4. g.says \in Seq(Message)
  BY DEF Holds
<1>5. s \in Seq(Message)
  <2>1. <<x, y>> \in Seq(Message)
    BY <1>3
  <2>. QED BY <1>4, <2>1, ConcatProperties
<1>6. [g EXCEPT !.params = at, !.armed = None, !.says = @ \o <<x, y>>] =
        [g EXCEPT !.params = at, !.armed = None, !.says = s]
  OBVIOUS
<1> HIDE DEF s
<1>7. Holds([g EXCEPT !.params = at, !.armed = None, !.says = s], l)
  BY <1>2, <1>5 DEF Holds
<1>. QED BY <1>1, <1>6, <1>7

\* The same settings, and the same to say.
Alike(g, h) == h.params = g.params /\ h.says = g.says

\* A controller that is none of the loading ones loads nothing, and none does
\* when it is let go.
LEMMA PressedHolds ==
  ASSUME NEW g, NEW l, Holds(g, l), NEW controller, NEW v,
         controller \notin RIG_LOAD_CONTROLLERS \/ v = 0
  PROVE  Holds(Pressed(g, controller, v), l) /\ Alike(g, Pressed(g, controller, v))
<1>1. \/ Pressed(g, controller, v) = [g EXCEPT !.armed = v]
      \/ Pressed(g, controller, v) = g
  BY DEF Pressed
<1>2. Alike(g, g) /\ Alike(g, [g EXCEPT !.armed = v])
  BY DEF Holds, Alike
<1>. QED BY <1>1, <1>2, ArmedHolds

\* MIDI that loads nothing.
Quiet(b) == b \in Seq(Byte) /\ ~loads_a_rig(b)

LEMMA QuietRest ==
  ASSUME NEW b, Quiet(b), NEW k \in Nat \ {0}
  PROVE  Quiet(SubSeq(b, k, Len(b)))
<1>1. b \in Seq(Byte) /\ Len(b) \in Nat
  BY DEF Quiet
<1> DEFINE c == SubSeq(b, k, Len(b))
<1>2. CASE k > Len(b)
  <2>1. c = <<>>
    BY <1>1, <1>2
  <2>2. DOMAIN c = {}
    BY <2>1
  <2>. QED BY <2>1, <2>2, EmptyBytes DEF Quiet, loads_a_rig
<1>3. CASE k <= Len(b)
  <2>1. c \in Seq(Byte) /\ Len(c) = (Len(b) - k) + 1
        /\ \A i \in 1 .. (Len(b) - k) + 1 : c[i] = b[(k + i) - 1]
    BY <1>1, <1>3, Cut
  <2> HIDE DEF c
  <2>2. ASSUME NEW i \in DOMAIN c,
               \/ c[i] \div 16 = PROGRAM_CHANGE_STATUS \div 16
               \/ /\ c[i] \div 16 = CONTROL_CHANGE_STATUS \div 16
                  /\ i < Len(c) /\ c[i + 1] \in RIG_LOAD_CONTROLLERS
        PROVE  FALSE
    <3> DEFINE j == (k + i) - 1
    <3>1. i \in 1 .. (Len(b) - k) + 1 /\ j \in DOMAIN b /\ c[i] = b[j]
      BY <1>1, <2>1
    <3>2. i < Len(c) => j < Len(b) /\ c[i + 1] = b[j + 1]
      <4> SUFFICES ASSUME i < Len(c) PROVE j < Len(b) /\ c[i + 1] = b[j + 1]
        OBVIOUS
      <4>1. i + 1 \in 1 .. (Len(b) - k) + 1 /\ (k + (i + 1)) - 1 = j + 1
        BY <1>1, <2>1
      <4>2. c[i + 1] = b[(k + (i + 1)) - 1]
        BY <2>1, <4>1
      <4>3. j < Len(b)
        <5>1. i \in Int /\ k \in Int /\ Len(b) \in Int /\ Len(c) = (Len(b) - k) + 1
          BY <1>1, <2>1, <4>1
        <5>. QED BY ONLY i < Len(c), <5>1
      <4> HIDE DEF j
      <4>4. c[i + 1] = b[j + 1]
        BY <4>1, <4>2, Zenon
      <4>. QED BY <4>3, <4>4
    <3> HIDE DEF j
    <3>3. /\ b[j] \div 16 # PROGRAM_CHANGE_STATUS \div 16
          /\ ~ (/\ b[j] \div 16 = CONTROL_CHANGE_STATUS \div 16
                /\ j < Len(b) /\ b[j + 1] \in RIG_LOAD_CONTROLLERS)
      BY <3>1 DEF Quiet, loads_a_rig
    <3>4. c[i] = b[j]
      BY <3>1
    <3>5. CASE c[i] \div 16 = PROGRAM_CHANGE_STATUS \div 16
      <4>1. b[j] \div 16 = PROGRAM_CHANGE_STATUS \div 16
        BY <3>4, <3>5, Zenon
      <4>. QED BY <3>3, <4>1, Zenon
    <3>6. CASE /\ c[i] \div 16 = CONTROL_CHANGE_STATUS \div 16
               /\ i < Len(c) /\ c[i + 1] \in RIG_LOAD_CONTROLLERS
      <4>1. b[j] \div 16 = CONTROL_CHANGE_STATUS \div 16
        BY <3>4, <3>6, Zenon
      <4>2. j < Len(b) /\ c[i + 1] = b[j + 1]
        BY <3>2, <3>6, Zenon
      <4>3. b[j + 1] \in RIG_LOAD_CONTROLLERS
        BY <3>6, <4>2, Zenon
      <4>. QED BY <3>3, <4>1, <4>2, <4>3, Zenon
    <3>. QED BY <2>2, <3>5, <3>6, Zenon
  <2>. QED BY <2>1, <2>2 DEF Quiet, loads_a_rig, c
<1>. QED BY <1>1, <1>2, <1>3

\* Its bytes are taken one message after the other.
Playing(m, l, g) ==
  /\ m \in [gear : {m.gear}, rest : {m.rest}]
  /\ Holds(m.gear, l) /\ Alike(g, m.gear) /\ Quiet(m.rest)

LEMMA PlayedKeeps ==
  ASSUME NEW m, NEW l, NEW g0, Playing(m, l, g0) PROVE Playing(Played(m), l, g0)
<1> DEFINE b == m.rest
           kind == Head(b) \div 16
<1>1. b \in Seq(Byte) /\ Len(b) \in Nat /\ Quiet(b) /\ Holds(m.gear, l)
      /\ Alike(g0, m.gear)
  BY DEF Playing, Quiet
<1>2. CASE Len(b) < 2
  BY <1>2 DEF Played
<1>3. CASE ~ (Len(b) < 2)
  <2>1. 1 \in DOMAIN b /\ 2 \in DOMAIN b /\ Head(b) = b[1] /\ b # <<>>
    BY <1>1, <1>3
  <2>2. /\ b[1] \div 16 # PROGRAM_CHANGE_STATUS \div 16
        /\ ~ (/\ b[1] \div 16 = CONTROL_CHANGE_STATUS \div 16
              /\ 1 < Len(b) /\ b[1 + 1] \in RIG_LOAD_CONTROLLERS)
    BY <1>1, <2>1 DEF Quiet, loads_a_rig
  <2>3. Quiet(SubSeq(b, 4, Len(b)))
    BY <1>1, QuietRest
  <2> DEFINE rest == SubSeq(b, 4, Len(b))
             g == Pressed(m.gear, b[2], b[3])
  <2>4. CASE kind = CONTROL_CHANGE_STATUS \div 16 /\ Len(b) > 2
    <3>1. b[2] \notin RIG_LOAD_CONTROLLERS
      <4>1. b[1] \div 16 = CONTROL_CHANGE_STATUS \div 16
        BY <2>1, <2>4, Zenon
      <4>2. 1 < Len(b) /\ 1 + 1 = 2
        BY <1>1, <2>4
      <4>. QED BY <2>2, <4>1, <4>2
    <3>2. Holds(g, l) /\ Alike(g0, g)
      <4>1. Holds(g, l) /\ Alike(m.gear, g)
        BY <1>1, <3>1, PressedHolds
      <4> HIDE DEF g
      <4>. QED BY <1>1, <4>1 DEF Alike
    <3>3. kind # PROGRAM_CHANGE_STATUS \div 16
      BY <2>1, <2>2, Zenon
    <3>4. Played(m) = [gear |-> g, rest |-> rest]
      BY <1>3, <2>4, <3>3 DEF Played
    <3> HIDE DEF g, rest
    <3>5. Playing([gear |-> g, rest |-> rest], l, g0)
      BY <2>3, <3>2 DEF Playing, rest
    <3>. QED BY <3>4, <3>5
  <2>5. CASE ~ (kind = CONTROL_CHANGE_STATUS \div 16 /\ Len(b) > 2)
    <3>3. kind # PROGRAM_CHANGE_STATUS \div 16
      BY <2>1, <2>2, Zenon
    <3>4. Played(m) = [m EXCEPT !.rest = rest]
      BY <1>3, <2>5, <3>3 DEF Played
    <3> HIDE DEF rest
    <3>5. Playing([m EXCEPT !.rest = rest], l, g0)
      BY <2>3 DEF Playing, rest
    <3>. QED BY <3>4, <3>5
  <2>. QED BY <2>4, <2>5
<1>. QED BY <1>2, <1>3

PlayStep(m, byte) == Played(m)
Plays == INSTANCE Folding WITH step <- PlayStep, Keeps <- IsSeq

LEMMA MidiPlays ==
  ASSUME NEW g, NEW bytes, Len(bytes) \in Nat
  PROVE  \E r : /\ r[0] = [gear |-> g, rest |-> bytes]
                /\ \A i \in 1 .. Len(bytes) : r[i] = Played(r[i - 1])
                /\ Midi(g, bytes) = r[Len(bytes)].gear
<1> DEFINE x == [gear |-> g, rest |-> bytes]
<1>1. PICK r : /\ r[0] = x
               /\ \A i \in 1 .. Len(bytes) : r[i] = PlayStep(r[i - 1], bytes[i])
               /\ Plays!Folded(x, bytes) = r[Len(bytes)]
  BY Plays!FoldRuns
<1>2. Midi(g, bytes) = Plays!Folded(x, bytes).gear
  BY DEF Midi, Through, Plays!Folded, PlayStep
<1>3. \A i \in 1 .. Len(bytes) : r[i] = Played(r[i - 1])
  BY <1>1 DEF PlayStep
<1>. QED BY <1>1, <1>2, <1>3

LEMMA QuietMidi ==
  ASSUME NEW g, NEW l, Holds(g, l), NEW bytes, Quiet(bytes)
  PROVE  Holds(Midi(g, bytes), l) /\ Alike(g, Midi(g, bytes))
<1>1. Len(bytes) \in Nat
  BY DEF Quiet
<1>2. PICK r : /\ r[0] = [gear |-> g, rest |-> bytes]
               /\ \A i \in 1 .. Len(bytes) : r[i] = Played(r[i - 1])
               /\ Midi(g, bytes) = r[Len(bytes)].gear
  BY <1>1, MidiPlays
<1> DEFINE S == {k \in 0 .. Len(bytes) : Playing(r[k], l, g)}
<1>3. 0 \in S
  BY <1>1, <1>2 DEF Playing, Alike
<1>4. \A k \in 0 .. Len(bytes) - 1 : k \in S => k + 1 \in S
  <2> SUFFICES ASSUME NEW k \in 0 .. Len(bytes) - 1, k \in S PROVE k + 1 \in S
    OBVIOUS
  <2>1. k + 1 \in 1 .. Len(bytes) /\ (k + 1) - 1 = k /\ Playing(r[k], l, g)
    BY <1>1
  <2>2. r[k + 1] = Played(r[k])
    BY <1>2, <2>1
  <2>. QED BY <1>1, <2>1, <2>2, PlayedKeeps
<1> HIDE DEF S
<1>5. Len(bytes) \in S
  BY <1>1, <1>3, <1>4, Joins!Induction
<1>. QED BY <1>2, <1>5 DEF S, Playing

\* A message says what the device holds.
IsTrue(params, said) ==
  \/ \E a \in NumAddresses : said = Live(a, Num(params[a]))
  \/ \E a \in DOMAIN Texts : said = Live(a, Text(Texts[a]))
  \/ \E p \in Byte, n \in Byte : \E v :
       /\ p * 128 + n \in DOMAIN Texts
       /\ said = [rendered |-> [page |-> p, number |-> n, value |-> v,
                                text |-> Texts[p * 128 + n]], update |-> None]

\* A message may set a; or sets it to v.
MaySet(msg, a) ==
  IsSet(msg) /\ parse(msg) # None /\ parse(msg).page * 128 + parse(msg).number = a
SetsTo(msg, a, v) ==
  /\ MaySet(msg, a) /\ Len(parse(msg).vals) >= 2
  /\ u14(parse(msg).vals[1], parse(msg).vals[2]) = v

LEMMA Parses ==
  ASSUME NEW msg, msg \in Message, parse(msg) # None
  PROVE  /\ Len(msg) >= 11 /\ msg[1] = SYSEX /\ parse(msg).function = msg[7]
         /\ parse(msg).page \in Byte /\ parse(msg).number \in Byte
         /\ parse(msg).vals \in Seq(Byte) /\ Len(parse(msg).vals) \in Nat
<1>1. msg \in Seq(Byte)
  BY DEF Message
<1>2. Len(msg) \in Nat /\ ~ (Len(msg) < 11) /\ msg[1] = SYSEX
  BY <1>1 DEF parse
<1>3. parse(msg).function = msg[7] /\ parse(msg).page = msg[9] /\ parse(msg).number = msg[10]
  BY DEF parse
<1>4. msg[9] \in Byte /\ msg[10] \in Byte
  BY <1>1, <1>2
<1>. QED BY <1>2, <1>3, <1>4, ParsedFields

LEMMA TextsFit ==
  ASSUME NEW a \in DOMAIN Texts
  PROVE  a \in Nat /\ a < HUGE /\ Texts[a] \in Seq(Byte \ {0})
<1>1. HUGE \in Nat
  BY HugeIsMore
<1>. QED BY <1>1, SurfaceAssumption

\* What a device with these settings answers is true.
LEMMA NumbersTrue ==
  ASSUME NEW p \in [NumAddresses -> 0 .. FULL_SCALE], NEW page \in Byte, NEW number \in Byte,
         page * 128 + number \in NumAddresses
  PROVE  LET m == sysex(2, 0, FN.SINGLE, page, number, u14_split(p[page * 128 + number]))
         IN  m \in Message /\ IsTrue(p, decode_stream(m))
<1> DEFINE v == p[page * 128 + number]
<1>1. v \in 0 .. FULL_SCALE
  OBVIOUS
<1> DEFINE m == sysex(2, 0, FN.SINGLE, page, number, u14_split(v))
<1>2. m \in Seq(Byte) /\ decode_stream(m) = Live(page * 128 + number, Num(v))
  BY <1>1, SingleSays
<1> HIDE DEF m
<1>3. m \in Message /\ IsTrue(p, decode_stream(m))
  BY <1>2 DEF Message, IsTrue
<1>. QED BY <1>3 DEF m

LEMMA ExtNumbersTrue ==
  ASSUME NEW p \in [NumAddresses -> 0 .. FULL_SCALE], NEW a \in NumAddresses
  PROVE  ExtParam(a, p[a]) \in Message /\ IsTrue(p, decode_stream(ExtParam(a, p[a])))
<1> DEFINE m == ExtParam(a, p[a])
<1>1. p[a] \in 0 .. FULL_SCALE
  OBVIOUS
<1>2. a \in Nat /\ a < HUGE /\ p[a] \in Nat /\ p[a] < HUGE
  BY <1>1, NumberRow, HugeIsMore
<1>3. m \in Seq(Byte) /\ decode_stream(m) = Live(a, Num(p[a]))
  BY <1>2, ExtSays
<1> HIDE DEF m
<1>4. m \in Message /\ IsTrue(p, decode_stream(m))
  BY <1>3 DEF Message, IsTrue
<1>. QED BY <1>4 DEF m

LEMMA TextsTrue ==
  ASSUME NEW p, NEW page \in Byte, NEW number \in Byte, page * 128 + number \in DOMAIN Texts,
         NEW w \in Seq(Byte), Len(w) = 2
  PROVE  LET t == Append(Texts[page * 128 + number], 0)
             m == sysex(2, 0, FN.STRING, page, number, t)
             r == sysex(2, 0, FN.RENDERED, page, number, w \o t)
         IN  /\ m \in Message /\ IsTrue(p, decode_stream(m))
             /\ r \in Message /\ IsTrue(p, decode_stream(r))
<1> DEFINE x == Texts[page * 128 + number]
           m == sysex(2, 0, FN.STRING, page, number, Append(x, 0))
           r == sysex(2, 0, FN.RENDERED, page, number, w \o Append(x, 0))
<1>1. x \in Seq(Byte \ {0})
  BY TextsFit
<1>2. m \in Seq(Byte) /\ decode_stream(m) = Live(page * 128 + number, Text(x))
  BY <1>1, StringSays
<1>3. /\ r \in Seq(Byte)
      /\ decode_stream(r) = [rendered |-> [page |-> page, number |-> number,
                                           value |-> u14(w[1], w[2]), text |-> x], update |-> None]
  BY <1>1, RenderedSays
<1> HIDE DEF m, r
<1>4. m \in Message /\ IsTrue(p, decode_stream(m))
  BY <1>2 DEF Message, IsTrue
<1>5. r \in Message /\ IsTrue(p, decode_stream(r))
  BY <1>3 DEF Message, IsTrue
<1>. QED BY <1>4, <1>5 DEF m, r

LEMMA ExtTextsTrue ==
  ASSUME NEW p, NEW a \in DOMAIN Texts
  PROVE  LET m == ExtString(a, Append(Texts[a], 0))
         IN  m \in Message /\ IsTrue(p, decode_stream(m))
<1> DEFINE m == ExtString(a, Append(Texts[a], 0))
<1>1. m \in Seq(Byte) /\ decode_stream(m) = Live(a, Text(Texts[a]))
  BY TextsFit, ExtStringSays
<1> HIDE DEF m
<1>2. m \in Message /\ IsTrue(p, decode_stream(m))
  BY <1>1 DEF Message, IsTrue
<1>. QED BY <1>2 DEF m

\* A SysEx message does nothing, sets a parameter, or is answered with the truth.
Sets(g, msg, h) ==
  \E a \in NumAddresses, v \in 0 .. FULL_SCALE :
    SetsTo(msg, a, v) /\ h = [g EXCEPT !.params[a] = v]
Replies(g, msg, h) ==
  /\ IsQuestion(msg)
  /\ \E m \in Message : /\ IsTrue(g.params, decode_stream(m))
                        /\ h = [g EXCEPT !.says = Append(g.says, m)]

LEMMA SysExDoes ==
  ASSUME NEW g, g.params \in [NumAddresses -> 0 .. FULL_SCALE], NEW msg, msg \in Message
  PROVE  SysEx(g, msg) = g \/ Sets(g, msg, SysEx(g, msg)) \/ Replies(g, msg, SysEx(g, msg))
<1> DEFINE h    == parse(msg)
           flat == h.page * 128 + h.number
           wide == ext_decode(SubSeq(msg, 9, 13))
           reply(address, m) ==
             IF address \in g.mute THEN g ELSE [g EXCEPT !.says = Append(g.says, m)]
           known(address, m) == IF address \in NumAddresses THEN reply(address, m) ELSE g
           named(address, m) == IF address \in DOMAIN Texts THEN reply(address, m) ELSE g
           text(address) == Append(Texts[address], 0)
           setting == h.function = FN.SINGLE /\ Len(h.vals) >= 2 /\ flat \in NumAddresses
           v  == u14(h.vals[1], h.vals[2])
           a1 == [g EXCEPT !.params[flat] = v]
           m2 == sysex(2, 0, FN.SINGLE, h.page, h.number, u14_split(g.params[flat]))
           m3 == ExtParam(wide, g.params[wide])
           m4 == sysex(2, 0, FN.STRING, h.page, h.number, text(flat))
           m5 == ExtString(wide, text(wide))
           rendering == h.function = FN.REQUEST_RENDERED /\ Len(h.vals) = 2
           m6 == sysex(2, 0, FN.RENDERED, h.page, h.number, h.vals \o text(flat))
           Good(x) == x = g \/ Sets(g, msg, x) \/ Replies(g, msg, x)
<1>1. CASE h = None
  BY <1>1 DEF SysEx
<1>2. CASE h # None
  <2>1. /\ Len(msg) >= 11 /\ msg[1] = SYSEX /\ h.function = msg[7]
        /\ h.page \in Byte /\ h.number \in Byte /\ h.vals \in Seq(Byte) /\ Len(h.vals) \in Nat
    <3> HIDE DEF h
    <3>1. parse(msg) # None
      BY <1>2 DEF h
    <3>. QED BY <3>1, Parses DEF h
  <2>2. ASSUME NEW a, NEW m, m \in Message, IsTrue(g.params, decode_stream(m)), IsQuestion(msg)
        PROVE  Good(reply(a, m))
    BY <2>2 DEF Replies
  <2>3. ASSUME setting PROVE Good(a1)
    <3>1. flat \in NumAddresses /\ v \in 0 .. FULL_SCALE
      <4>1. h.vals[1] \in Byte /\ h.vals[2] \in Byte
        BY <2>1, <2>3
      <4> HIDE DEF h
      <4>. QED BY <2>3, <4>1, U14Fits
    <3>2. SetsTo(msg, flat, v)
      BY <1>2, <2>1, <2>3 DEF SetsTo, MaySet, IsSet, IsA
    <3> HIDE DEF flat, v, h
    <3>. QED BY <3>1, <3>2 DEF Sets
  <2>4. ASSUME h.function \in {FN.REQUEST_SINGLE, FN.REQUEST_STRING, FN.REQUEST_EXT,
                               FN.REQUEST_EXT_STRING, FN.REQUEST_RENDERED}
        PROVE  IsQuestion(msg)
    BY <2>1, <2>4 DEF IsQuestion, IsA
  <2>5. ASSUME h.function = FN.REQUEST_SINGLE PROVE Good(known(flat, m2))
    <3>1. flat \in NumAddresses => m2 \in Message /\ IsTrue(g.params, decode_stream(m2))
      <4> HIDE DEF h
      <4>. QED BY <2>1, NumbersTrue
    <3> HIDE DEF h, flat, m2, Good, reply
    <3>2. flat \in NumAddresses => Good(reply(flat, m2))
      BY <2>2, <2>4, <2>5, <3>1
    <3>. QED BY <3>2 DEF Good
  <2>6. ASSUME h.function = FN.REQUEST_EXT PROVE Good(known(wide, m3))
    <3>1. wide \in NumAddresses => m3 \in Message /\ IsTrue(g.params, decode_stream(m3))
      <4> HIDE DEF h, wide
      <4>. QED BY ExtNumbersTrue
    <3> HIDE DEF h, wide, m3, Good, reply
    <3>2. wide \in NumAddresses => Good(reply(wide, m3))
      BY <2>2, <2>4, <2>6, <3>1
    <3>. QED BY <3>2 DEF Good
  <2>7. ASSUME h.function = FN.REQUEST_STRING PROVE Good(named(flat, m4))
    <3>1. flat \in DOMAIN Texts => m4 \in Message /\ IsTrue(g.params, decode_stream(m4))
      <4>1. <<0, 0>> \in Seq(Byte) /\ Len(<<0, 0>>) = 2
        BY DEF Byte
      <4> HIDE DEF h
      <4>. QED BY <2>1, <4>1, TextsTrue
    <3> HIDE DEF h, flat, m4, Good, reply
    <3>2. flat \in DOMAIN Texts => Good(reply(flat, m4))
      BY <2>2, <2>4, <2>7, <3>1
    <3>. QED BY <3>2 DEF Good
  <2>8. ASSUME h.function = FN.REQUEST_EXT_STRING PROVE Good(named(wide, m5))
    <3>1. wide \in DOMAIN Texts => m5 \in Message /\ IsTrue(g.params, decode_stream(m5))
      <4> HIDE DEF h, wide
      <4>. QED BY ExtTextsTrue
    <3> HIDE DEF h, wide, m5, Good, reply
    <3>2. wide \in DOMAIN Texts => Good(reply(wide, m5))
      BY <2>2, <2>4, <2>8, <3>1
    <3>. QED BY <3>2 DEF Good
  <2>9. ASSUME rendering PROVE Good(named(flat, m6))
    <3>1. flat \in DOMAIN Texts => m6 \in Message /\ IsTrue(g.params, decode_stream(m6))
      <4> HIDE DEF h
      <4>. QED BY <2>1, <2>9, TextsTrue
    <3>3. h.function = FN.REQUEST_RENDERED
      BY <2>9
    <3> HIDE DEF h, flat, m6, Good, reply
    <3>2. flat \in DOMAIN Texts => Good(reply(flat, m6))
      BY <2>2, <2>4, <3>1, <3>3
    <3>. QED BY <3>2 DEF Good
  <2>10. SysEx(g, msg) =
          CASE setting -> a1
            [] h.function = FN.REQUEST_SINGLE -> known(flat, m2)
            [] h.function = FN.REQUEST_EXT -> known(wide, m3)
            [] h.function = FN.REQUEST_STRING -> named(flat, m4)
            [] h.function = FN.REQUEST_EXT_STRING -> named(wide, m5)
            [] rendering -> named(flat, m6)
            [] OTHER -> g
    <3> HIDE DEF h
    <3>. QED BY <1>2, Zenon DEF SysEx, h
  <2>11. Good(g)
    OBVIOUS
  <2> HIDE DEF known, named, a1, m2, m3, m4, m5, m6, Good, setting, rendering, h
  <2>. QED BY <2>3, <2>5, <2>6, <2>7, <2>8, <2>9, <2>10, <2>11 DEF Good
<1>. QED BY <1>1, <1>2

LEMMA SysExHolds ==
  ASSUME NEW g, NEW l, Holds(g, l), NEW msg, msg \in Message
  PROVE  Holds(SysEx(g, msg), l)
<1> DEFINE h == SysEx(g, msg)
<1>1. g.params \in [NumAddresses -> 0 .. FULL_SCALE] /\ g.says \in Seq(Message)
  BY DEF Holds
<1>2. h = g \/ Sets(g, msg, h) \/ Replies(g, msg, h)
  BY <1>1, SysExDoes
<1> HIDE DEF h
<1>3. ASSUME Sets(g, msg, h) PROVE Holds(h, l)
  <2>1. PICK a \in NumAddresses, v \in 0 .. FULL_SCALE : h = [g EXCEPT !.params[a] = v]
    BY <1>3, Zenon DEF Sets
  <2>. QED BY <2>1, ParamHolds
<1>4. ASSUME Replies(g, msg, h) PROVE Holds(h, l)
  <2>1. PICK m \in Message : h = [g EXCEPT !.says = Append(g.says, m)]
    BY <1>4, Zenon DEF Replies
  <2>2. Append(g.says, m) \in Seq(Message)
    BY <1>1
  <2>. QED BY <2>1, <2>2, SaysHolds
<1>5. Holds(h, l)
  BY <1>2, <1>3, <1>4
<1>. QED BY <1>5 DEF h

LEMMA QuietHeard ==
  ASSUME NEW g, NEW l, Holds(g, l), NEW msg, IsSysEx(msg) \/ Quiet(msg)
  PROVE  Holds(Hears(g, msg), l)
<1>1. msg \in Message
  BY DEF IsSysEx, Quiet, Message
<1>2. CASE Head(msg) = SYSEX
  BY <1>1, <1>2, SysExHolds DEF Hears
<1>3. CASE Head(msg) # SYSEX
  <2>1. Quiet(msg)
    BY <1>3 DEF IsSysEx
  <2>. QED BY <1>3, <2>1, QuietMidi DEF Hears
<1>. QED BY <1>2, <1>3

LEMMA InTwo ==
  ASSUME NEW S, NEW x \in Seq(S), NEW y \in Seq(S), NEW w \in Seq(S),
         Len(w) = Len(x) + Len(y), \A i \in 1 .. Len(x) : w[i] = x[i],
         \A i \in 1 .. Len(y) : w[Len(x) + i] = y[i]
  PROVE  x \o y = w /\ SubSeq(w, Len(x) + 1, Len(w)) = y
<1> DEFINE t == x \o y
           n == Len(x)
           u == SubSeq(w, n + 1, Len(w))
<1>1. n \in Nat /\ Len(y) \in Nat
  OBVIOUS
<1>2. /\ t \in Seq(S) /\ Len(t) = n + Len(y)
      /\ (\A i \in 1 .. n : t[i] = x[i]) /\ (\A i \in 1 .. Len(y) : t[n + i] = y[i])
  BY Joined
<1> HIDE DEF t
<1>3. ASSUME NEW i \in 1 .. n + Len(y) PROVE t[i] = w[i]
  <2>1. CASE i \in 1 .. n
    BY <1>2, <2>1
  <2>2. CASE i \notin 1 .. n
    <3>1. i - n \in 1 .. Len(y) /\ n + (i - n) = i
      BY <1>1, <2>2
    <3>2. t[n + (i - n)] = y[i - n] /\ w[n + (i - n)] = y[i - n]
      BY <1>2, <3>1
    <3>. QED BY <3>1, <3>2
  <2>. QED BY <2>1, <2>2
<1>4. t = w
  <2>1. Len(t) = Len(w) /\ \A i \in 1 .. Len(t) : t[i] = w[i]
    BY <1>2, <1>3
  <2>. QED BY <1>2, <2>1, SeqEqual
<1>5. /\ u \in Seq(S) /\ Len(u) = (Len(w) - (n + 1)) + 1
      /\ \A i \in 1 .. (Len(w) - (n + 1)) + 1 : u[i] = w[((n + 1) + i) - 1]
  <2>1. /\ n + 1 \in Nat /\ Len(w) \in Nat /\ 1 <= n + 1 /\ n + 1 <= Len(w) + 1
        /\ Len(w) <= Len(w)
    BY <1>1
  <2>. QED BY <2>1, Cut
<1> HIDE DEF u
<1>6. Len(u) = Len(y)
  BY <1>1, <1>5
<1>7. ASSUME NEW i \in 1 .. Len(u) PROVE u[i] = y[i]
  <2>1. i \in 1 .. Len(y) /\ ((n + 1) + i) - 1 = n + i /\ i \in 1 .. (Len(w) - (n + 1)) + 1
    BY <1>1, <1>5, <1>6
  <2>2. u[i] = w[((n + 1) + i) - 1] /\ w[n + i] = y[i]
    BY <1>5, <2>1
  <2>. QED BY <2>1, <2>2
<1>8. u = y
  BY <1>5, <1>6, <1>7, SeqEqual
<1>. QED BY <1>4, <1>8 DEF t, u

LEMMA ThreeAndThree ==
  ASSUME NEW x \in Seq(Nat), NEW y \in Seq(Nat), NEW w \in Seq(Nat),
         Len(x) = 3, Len(y) = 3, Len(w) = 6,
         w[1] = x[1], w[2] = x[2], w[3] = x[3], w[4] = y[1], w[5] = y[2], w[6] = y[3]
  PROVE  x \o y = w /\ SubSeq(w, 4, 6) = y
<1>1. \A i \in 1 .. 3 : i = 1 \/ i = 2 \/ i = 3
  OBVIOUS
<1>2. \A i \in 1 .. Len(x) : w[i] = x[i]
  BY <1>1
<1>3. \A i \in 1 .. Len(y) : w[Len(x) + i] = y[i]
  <2>1. w[3 + 1] = y[1] /\ w[3 + 2] = y[2] /\ w[3 + 3] = y[3]
    OBVIOUS
  <2>. QED BY <1>1, <2>1
<1>4. Len(w) = Len(x) + Len(y)
  OBVIOUS
<1>5. x \o y = w /\ SubSeq(w, Len(x) + 1, Len(w)) = y
  <2>1. x \in Seq(Nat) /\ y \in Seq(Nat) /\ w \in Seq(Nat)
    OBVIOUS
  <2>. QED BY ONLY <2>1, <1>2, <1>3, <1>4, InTwo
<1>6. SubSeq(w, 4, 6) = y
  BY <1>5
<1>. QED BY <1>5, <1>6

\* The two messages of a load, in bytes: the bank, and the slot pressed and let
\* go.
LEMMA LoadBytes ==
  ASSUME NEW i \in 0 .. 128 * BANK_SLOTS - 1
  PROVE  LET c == 50 + (i % 5)
         IN  /\ send_load(i) = <<<<176, 47, i \div 5>>, <<176, c, 1, 176, c, 0>>>>
             /\ i \div 5 \in 0 .. 127 /\ i % 5 \in 0 .. 4
             /\ (i \div 5) * 5 + (i % 5) = i
<1>1. i \in 0 .. 639
  BY DEF BANK_SLOTS
<1>2. i \div 5 \in 0 .. 127 /\ i % 5 \in 0 .. 4 /\ (i \div 5) * 5 + (i % 5) = i
  BY <1>1
<1> DEFINE q == i \div 5
           s == i % 5
<1> HIDE DEF q, s
<1>3. q \in 0 .. 127 /\ s \in 0 .. 4
  BY <1>2 DEF q, s
<1>4. message(Control("BankPreselect", q)) = <<176, 47, q>>
  <2> DEFINE c == Control("BankPreselect", q)
  <2>1. c.name = "BankPreselect" /\ c.value = q
    BY DEF Control
  <2>2. CC["BankPreselect"] = 47 /\ "BankPreselect" \in DOMAIN CC
    BY DEF CC
  <2> HIDE DEF c
  <2>3. message(c) = control_change(CC_CHANNEL, 47, q)
    BY <2>1, <2>2 DEF message, Presses
  <2>4. control_change(CC_CHANNEL, 47, q) = <<176, 47, q>>
    <3>1. q % 128 = q
      BY <1>3
    <3>. QED BY <3>1 DEF control_change, CC_CHANNEL
  <2>. QED BY <2>3, <2>4 DEF c
<1>5. message(Control("LoadSlot", s + 1)) = <<176, 50 + s, 1, 176, 50 + s, 0>>
  <2> DEFINE c == Control("LoadSlot", s + 1)
  <2>1. c.name = "LoadSlot" /\ c.value = s + 1
    BY DEF Control
  <2>2. "LoadSlot" \notin DOMAIN CC
    BY DEF CC
  <2> HIDE DEF c
  <2>3. message(c) = tap(CC_LOAD_SLOT_1 + clamp(s + 1, 1, 5) - 1)
    BY <2>1, <2>2 DEF message, Presses
  <2>4. CC_LOAD_SLOT_1 + clamp(s + 1, 1, 5) - 1 = 50 + s
    BY <1>3 DEF CC_LOAD_SLOT_1, clamp
  <2>5. tap(50 + s) = <<176, 50 + s, 1, 176, 50 + s, 0>>
    <3>1. (50 + s) % 128 = 50 + s
      BY <1>3
    <3>2. control_change(CC_CHANNEL, 50 + s, 1) = <<176, 50 + s, 1>>
      BY <3>1 DEF control_change, CC_CHANNEL
    <3>3. control_change(CC_CHANNEL, 50 + s, 0) = <<176, 50 + s, 0>>
      BY <3>1 DEF control_change, CC_CHANNEL
    <3>4. 50 + s \in Nat
      BY <1>3
    <3> DEFINE c1 == 50 + s
    <3> HIDE DEF c1
    <3> DEFINE x == <<176, c1, 1>>
               y == <<176, c1, 0>>
               w == <<176, c1, 1, 176, c1, 0>>
    <3>5. x \in Seq(Nat) /\ y \in Seq(Nat) /\ w \in Seq(Nat)
          /\ Len(x) = 3 /\ Len(y) = 3 /\ Len(w) = 6
          /\ w[1] = x[1] /\ w[2] = x[2] /\ w[3] = x[3]
          /\ w[4] = y[1] /\ w[5] = y[2] /\ w[6] = y[3]
      <4>1. c1 \in Nat
        BY <3>4 DEF c1
      <4>. QED BY <4>1
    <3>6. tap(c1) = x \o y
      BY <3>2, <3>3 DEF tap, c1
    <3> HIDE DEF x, y, w
    <3>7. x \o y = w
      BY ONLY <3>5, ThreeAndThree
    <3>. QED BY <3>6, <3>7 DEF c1, w
  <2>. QED BY <2>3, <2>4, <2>5 DEF c
<1>6. send_load(i) = <<message(Control("BankPreselect", q)), message(Control("LoadSlot", s + 1))>>
  BY DEF send_load, q, s, BANK_SLOTS
<1>7. send_load(i) = <<<<176, 47, q>>, <<176, 50 + s, 1, 176, 50 + s, 0>>>>
  BY <1>4, <1>5, <1>6
<1>. QED BY <1>2, <1>7 DEF q, s

\* Three bytes are one message, and its press.
LEMMA OnePress ==
  ASSUME NEW g, NEW b \in Seq(Byte), Len(b) >= 3, b[1] = 176
  PROVE  Played([gear |-> g, rest |-> b]) =
           [gear |-> Pressed(g, b[2], b[3]), rest |-> SubSeq(b, 4, Len(b))]
<1> DEFINE m == [gear |-> g, rest |-> b]
<1>1. m.rest = b /\ m.gear = g
  OBVIOUS
<1>2. Head(b) = 176 /\ ~ (Len(b) < 2) /\ Len(b) > 2
  OBVIOUS
<1>3. 176 \div 16 # PROGRAM_CHANGE_STATUS \div 16 /\ 176 \div 16 = CONTROL_CHANGE_STATUS \div 16
  BY DEF PROGRAM_CHANGE_STATUS, CONTROL_CHANGE_STATUS
<1>4. Head(b) \div 16 = 176 \div 16
  BY <1>2
<1> HIDE DEF m
<1>. QED BY <1>1, <1>2, <1>3, <1>4 DEF Played, m

LEMMA NothingPlayed ==
  ASSUME NEW g PROVE Played([gear |-> g, rest |-> <<>>]) = [gear |-> g, rest |-> <<>>]
<1> DEFINE m == [gear |-> g, rest |-> <<>>]
<1>1. m.rest = <<>> /\ Len(<<>>) < 2
  OBVIOUS
<1> HIDE DEF m
<1>2. Played(m) = m
  BY <1>1 DEF Played
<1>. QED BY <1>2 DEF m

LEMMA BankHeard ==
  ASSUME NEW g, NEW v \in 0 .. 127
  PROVE  Hears(g, <<176, 47, v>>) = Pressed(g, 47, v)
<1> DEFINE b == <<176, 47, v>>
           n == [gear |-> Pressed(g, 47, v), rest |-> <<>>]
<1>1. b \in Seq(Byte) /\ Len(b) = 3 /\ b[1] = 176 /\ b[2] = 47 /\ b[3] = v /\ Head(b) = 176
  BY DEF Byte
<1>2. SubSeq(b, 4, 3) = <<>>
  OBVIOUS
<1> HIDE DEF b
<1>3. Played([gear |-> g, rest |-> b]) = n
  <2>1. b \in Seq(Byte) /\ Len(b) >= 3 /\ b[1] = 176
    BY <1>1
  <2>2. Played([gear |-> g, rest |-> b]) =
          [gear |-> Pressed(g, b[2], b[3]), rest |-> SubSeq(b, 4, Len(b))]
    BY ONLY <2>1, OnePress
  <2>. QED BY <1>1, <1>2, <2>2, Zenon
<1>4. Played(n) = n
  BY NothingPlayed
<1>5. PICK r : /\ r[0] = [gear |-> g, rest |-> b]
               /\ \A i \in 1 .. Len(b) : r[i] = Played(r[i - 1])
               /\ Midi(g, b) = r[Len(b)].gear
  <2>1. Len(b) \in Nat
    BY <1>1
  <2>. QED BY ONLY <2>1, MidiPlays
<1>6. r[1] = Played(r[0]) /\ r[2] = Played(r[1]) /\ r[3] = Played(r[2])
  <2>1. 1 \in 1 .. Len(b) /\ 2 \in 1 .. Len(b) /\ 3 \in 1 .. Len(b)
    BY <1>1
  <2>. QED BY <1>5, <2>1
<1> HIDE DEF n
<1>7. Midi(g, b) = n.gear
  BY <1>1, <1>3, <1>4, <1>5, <1>6
<1>8. Hears(g, b) = Midi(g, b)
  BY <1>1 DEF Hears, SYSEX
<1>. QED BY <1>7, <1>8 DEF n, b

LEMMA TapHeard ==
  ASSUME NEW g, NEW c \in 0 .. 127
  PROVE  Hears(g, <<176, c, 1, 176, c, 0>>) = Pressed(Pressed(g, c, 1), c, 0)
<1> DEFINE b == <<176, c, 1, 176, c, 0>>
           p == Pressed(g, c, 1)
           w == <<176, c, 0>>
           m == [gear |-> p, rest |-> w]
           n == [gear |-> Pressed(p, c, 0), rest |-> <<>>]
<1>1. b \in Seq(Byte) /\ Len(b) = 6 /\ b[1] = 176 /\ b[2] = c /\ b[3] = 1 /\ Head(b) = 176
  BY DEF Byte
<1>2. SubSeq(b, 4, 6) = w
  <2> DEFINE x == <<176, c, 1>>
  <2>1. x \in Seq(Nat) /\ w \in Seq(Nat) /\ b \in Seq(Nat)
        /\ Len(x) = 3 /\ Len(w) = 3 /\ Len(b) = 6
        /\ b[1] = x[1] /\ b[2] = x[2] /\ b[3] = x[3]
        /\ b[4] = w[1] /\ b[5] = w[2] /\ b[6] = w[3]
    OBVIOUS
  <2> HIDE DEF x, w, b
  <2>. QED BY ONLY <2>1, ThreeAndThree
<1>3. w \in Seq(Byte) /\ Len(w) = 3 /\ w[1] = 176 /\ w[2] = c /\ w[3] = 0
  BY DEF Byte
<1>4. SubSeq(w, 4, 3) = <<>>
  OBVIOUS
<1> HIDE DEF b, w, p
<1>5. Played([gear |-> g, rest |-> b]) = m
  <2>1. b \in Seq(Byte) /\ Len(b) >= 3 /\ b[1] = 176
    BY <1>1
  <2>2. Played([gear |-> g, rest |-> b]) =
          [gear |-> Pressed(g, b[2], b[3]), rest |-> SubSeq(b, 4, Len(b))]
    BY ONLY <2>1, OnePress
  <2>. QED BY <1>1, <1>2, <2>2, Zenon DEF p
<1>6. Played(m) = n
  <2>1. w \in Seq(Byte) /\ Len(w) >= 3 /\ w[1] = 176
    BY <1>3
  <2>2. Played([gear |-> p, rest |-> w]) =
          [gear |-> Pressed(p, w[2], w[3]), rest |-> SubSeq(w, 4, Len(w))]
    BY ONLY <2>1, OnePress
  <2>. QED BY <1>3, <1>4, <2>2, Zenon
<1>7. Played(n) = n
  BY NothingPlayed
<1>8. PICK r : /\ r[0] = [gear |-> g, rest |-> b]
               /\ \A i \in 1 .. Len(b) : r[i] = Played(r[i - 1])
               /\ Midi(g, b) = r[Len(b)].gear
  <2>1. Len(b) \in Nat
    BY <1>1
  <2>. QED BY ONLY <2>1, MidiPlays
<1>9. /\ r[1] = Played(r[0]) /\ r[2] = Played(r[1]) /\ r[3] = Played(r[2])
      /\ r[4] = Played(r[3]) /\ r[5] = Played(r[4]) /\ r[6] = Played(r[5])
  <2>1. /\ 1 \in 1 .. Len(b) /\ 2 \in 1 .. Len(b) /\ 3 \in 1 .. Len(b)
        /\ 4 \in 1 .. Len(b) /\ 5 \in 1 .. Len(b) /\ 6 \in 1 .. Len(b)
    BY <1>1
  <2>. QED BY <1>8, <2>1
<1> HIDE DEF n, m
<1>10. Midi(g, b) = n.gear
  BY <1>1, <1>5, <1>6, <1>7, <1>8, <1>9
<1>11. Hears(g, b) = Midi(g, b)
  BY <1>1 DEF Hears, SYSEX
<1>. QED BY <1>10, <1>11 DEF n, b, p

LEMMA NoneIsNoByte == None \notin Byte
<1>1. None \notin Nat
  BY SurfaceAssumption
<1>2. \A b \in Byte : b \in Nat
  BY DEF Byte
<1>. QED BY ONLY <1>1, <1>2

\* The device loads the rig it is sent, and that one alone.
LEMMA LoadHeard ==
  ASSUME NEW g, NEW l, Holds(g, l), NEW i \in 0 .. 128 * BANK_SLOTS - 1
  PROVE  Holds(Hears(Hears(g, send_load(i)[1]), send_load(i)[2]), Append(l, i))
<1> DEFINE q == i \div 5
           s == i % 5
           c == 50 + s
           first  == <<176, 47, q>>
           second == <<176, c, 1, 176, c, 0>>
           g1 == Pressed(g, 47, q)
           g2 == Pressed(g1, c, 1)
           g3 == Pressed(g2, c, 0)
<1> HIDE DEF g1, g2, g3
<1>1. /\ send_load(i) = <<first, second>>
      /\ q \in 0 .. 127 /\ s \in 0 .. 4 /\ q * 5 + s = i
  BY LoadBytes
<1> HIDE DEF q, s
<1>2. c \in 0 .. 127 /\ c \in RIG_LOAD_CONTROLLERS /\ c # 47 /\ c # 48 /\ c # 49
  BY <1>1 DEF RIG_LOAD_CONTROLLERS
<1>3. q * BANK_SLOTS + c - CC_LOAD_SLOT_1 = i
  BY <1>1 DEF BANK_SLOTS, CC_LOAD_SLOT_1
<1>4. Hears(g, first) = g1
  BY <1>1, BankHeard DEF g1
<1> HIDE DEF c
<1>5. Hears(g1, second) = g3
  BY <1>2, TapHeard DEF g2, g3
<1> HIDE DEF first, second
<1>6. send_load(i)[1] = first /\ send_load(i)[2] = second
  BY <1>1
<1>7. Holds(g1, l) /\ g1.armed = q
  <2> DEFINE a == [g EXCEPT !.armed = q]
  <2>1. g1 = a
    <3>1. CC.BankPreselect = 47
      BY DEF CC
    <3>. QED BY <3>1 DEF Pressed, g1
  <2>2. Holds(a, l) /\ a.armed = q
    BY ArmedHolds
  <2> HIDE DEF a
  <2>. QED BY <2>1, <2>2, Zenon
<1>8. Holds(g2, Append(l, i))
  <2>1. g1.armed # None
    <3>1. q \in Byte
      BY <1>1 DEF Byte
    <3>. QED BY <1>7, <3>1, NoneIsNoByte
  <2>2. CC.BankPreselect = 47
    BY DEF CC
  <2>3. g2 = LoadRig([g1 EXCEPT !.loads = Append(@, i)], i)
    BY <1>2, <1>3, <1>7, <2>1, <2>2 DEF Pressed, g2
  <2>4. Holds([g1 EXCEPT !.loads = Append(@, i)], Append(l, i))
    BY <1>7, LoadsHolds
  <2>. QED BY <2>3, <2>4, LoadRigHolds
<1>9. Holds(g3, Append(l, i))
  BY <1>8, PressedHolds DEF g3
<1>. QED BY <1>4, <1>5, <1>6, <1>9

-----------------------------------------------------------------------------
(***************************************************************************)
(* What the other calls send loads nothing.                                 *)
(***************************************************************************)

LEMMA QuietControl ==
  ASSUME NEW k \in (0 .. 127) \ RIG_LOAD_CONTROLLERS, NEW v \in Nat
  PROVE  Quiet(control_change(CC_CHANNEL, k, v))
<1> DEFINE w == v % 128
           b == <<176, k, w>>
<1>1. control_change(CC_CHANNEL, k, v) = b
  <2>1. k % 128 = k /\ 176 + (CC_CHANNEL % 16) = 176
    BY DEF CC_CHANNEL
  <2>. QED BY <2>1 DEF control_change
<1>2. w \in 0 .. 127
  OBVIOUS
<1> HIDE DEF w
<1>3. b \in Seq(Byte) /\ Len(b) = 3 /\ DOMAIN b = 1 .. 3 /\ b[1] = 176 /\ b[2] = k /\ b[3] = w
  BY <1>2 DEF Byte
<1> HIDE DEF b
<1>4. /\ PROGRAM_CHANGE_STATUS \div 16 = 12 /\ CONTROL_CHANGE_STATUS \div 16 = 11
      /\ 176 \div 16 = 11 /\ k \div 16 <= 7 /\ w \div 16 <= 7
      /\ k \div 16 \in Int /\ w \div 16 \in Int
  BY <1>2 DEF PROGRAM_CHANGE_STATUS, CONTROL_CHANGE_STATUS
<1>5. ASSUME NEW i \in DOMAIN b,
             \/ b[i] \div 16 = PROGRAM_CHANGE_STATUS \div 16
             \/ /\ b[i] \div 16 = CONTROL_CHANGE_STATUS \div 16
                /\ i < Len(b) /\ b[i + 1] \in RIG_LOAD_CONTROLLERS
      PROVE  FALSE
  <2>1. i = 1 \/ i = 2 \/ i = 3
    BY <1>3
  <2>2. CASE i = 1
    <3>1. b[i] = 176 /\ b[i + 1] = k
      BY <1>3, <2>2
    <3>2. b[i] \div 16 = 11
      BY <1>4, <3>1
    <3>. QED BY <1>4, <1>5, <3>1, <3>2
  <2>3. CASE i = 2
    <3>1. b[i] \div 16 = k \div 16
      BY <1>3, <2>3
    <3>. QED BY <1>4, <1>5, <3>1
  <2>4. CASE i = 3
    <3>1. b[i] \div 16 = w \div 16
      BY <1>3, <2>4
    <3>. QED BY <1>4, <1>5, <3>1
  <2>. QED BY <2>1, <2>2, <2>3, <2>4
<1>. QED BY <1>1, <1>3, <1>5 DEF Quiet, loads_a_rig

LEMMA NamesAreQuiet ==
  ASSUME NEW n \in DOMAIN CC PROVE CC[n] \in (0 .. 127) \ RIG_LOAD_CONTROLLERS
BY DEF CC, RIG_LOAD_CONTROLLERS

LEMMA SlotsAreQuiet ==
  ASSUME NEW n \in DOMAIN SLOT_ENABLE_CC
  PROVE  SLOT_ENABLE_CC[n] \in (0 .. 127) \ RIG_LOAD_CONTROLLERS
BY DEF SLOT_ENABLE_CC, RIG_LOAD_CONTROLLERS

LEMMA NotNamed ==
  /\ "EffectButton" \notin DOMAIN CC /\ "SlotEnable" \notin DOMAIN CC
  /\ Presses \subseteq DOMAIN CC
BY DEF CC, Presses

\* A Control: refused, or one that loads nothing.
LEMMA ControlQuiet ==
  ASSUME NEW c,
         \/ c.name \in {"LoadSlot", "Up", "Down", "ProgramChange", "BankSelect"}
         \/ c.name \in DOMAIN CC \union {"EffectButton"} /\ c.value \in Nat
         \/ c.name = "SlotEnable" /\ c.value \in (DOMAIN SLOT_ENABLE_CC) \X Nat
  PROVE  send_control(c) = None \/ Quiet(send_control(c))
<1>1. CASE c.name \in {"LoadSlot", "Up", "Down", "ProgramChange", "BankSelect"}
  BY <1>1 DEF send_control
<1>2. CASE c.name \notin {"LoadSlot", "Up", "Down", "ProgramChange", "BankSelect"}
  <2>1. send_control(c) = message(c)
    BY <1>2 DEF send_control
  <2>2. CASE c.name \in Presses
    <3>1. message(c) = control_change(CC_CHANNEL, CC[c.name], 1)
      BY <1>2, <2>2, NotNamed DEF message
    <3>2. CC[c.name] \in (0 .. 127) \ RIG_LOAD_CONTROLLERS
      BY <2>2, NotNamed, NamesAreQuiet
    <3>3. Quiet(control_change(CC_CHANNEL, CC[c.name], 1))
      BY <3>2, QuietControl
    <3>. QED BY <2>1, <3>1, <3>3
  <2>3. CASE c.name \in DOMAIN CC \ Presses
    <3>1. message(c) = control_change(CC_CHANNEL, CC[c.name], c.value)
      BY <1>2, <2>3, NotNamed DEF message
    <3>2. CC[c.name] \in (0 .. 127) \ RIG_LOAD_CONTROLLERS
      BY <2>3, NamesAreQuiet
    <3>3. c.value \in Nat
      BY <1>2, <2>3, NotNamed
    <3>4. Quiet(control_change(CC_CHANNEL, CC[c.name], c.value))
      BY <3>2, <3>3, QuietControl
    <3>. QED BY <2>1, <3>1, <3>4
  <2>4. CASE c.name = "SlotEnable"
    <3>1. message(c) = control_change(CC_CHANNEL, SLOT_ENABLE_CC[c.value[1]], c.value[2])
      BY <2>4, NotNamed DEF message
    <3>2. c.value[1] \in DOMAIN SLOT_ENABLE_CC /\ c.value[2] \in Nat
      BY <1>2, <2>4, NotNamed
    <3>3. SLOT_ENABLE_CC[c.value[1]] \in (0 .. 127) \ RIG_LOAD_CONTROLLERS
      BY <3>2, SlotsAreQuiet
    <3>4. Quiet(control_change(CC_CHANNEL, SLOT_ENABLE_CC[c.value[1]], c.value[2]))
      BY <3>2, <3>3, QuietControl
    <3>. QED BY <2>1, <3>1, <3>4
  <2>5. CASE c.name = "EffectButton"
    <3> DEFINE k == CC_EFFECT_BUTTON_I + clamp(c.value, 1, 4) - 1
    <3>1. message(c) = control_change(CC_CHANNEL, k, 1)
      BY <2>5, NotNamed DEF message
    <3>2. c.value \in Nat
      BY <1>2, <2>5
    <3>3. k \in (0 .. 127) \ RIG_LOAD_CONTROLLERS
      BY <3>2 DEF clamp, CC_EFFECT_BUTTON_I, RIG_LOAD_CONTROLLERS
    <3> HIDE DEF k
    <3>4. Quiet(control_change(CC_CHANNEL, k, 1))
      BY <3>3, QuietControl
    <3>. QED BY <2>1, <3>1, <3>4
  <2>. QED BY <1>2, <2>2, <2>3, <2>4, <2>5
<1>. QED BY <1>1, <1>2

LEMMA BeaconIsSysEx ==
  ASSUME NEW init \in BOOLEAN, NEW tuner \in BOOLEAN, NEW lease \in Byte
  PROVE  IsSysEx(send_beacon(init, tuner, lease))
<1> DEFINE f == beacon_flags(init, tuner)
           h == lease \div 2
           a == <<SYSEX>>
           m == MANUFACTURER_ID
           z == <<PRODUCT, DEVICE_OMNI, 126, 0, 64, BEACON_DEFAULT_PARAM_SET, f, h, EOX>>
<1>1. f \in Byte /\ h \in Byte
  BY DEF beacon_flags, Byte
<1>2. send_beacon(init, tuner, lease) = a \o m \o z
  BY DEF send_beacon, beacon
<1> HIDE DEF f, h
<1>3. a \in Seq(Byte) /\ m \in Seq(Byte) /\ Len(a) = 1 /\ a[1] = SYSEX
  BY DEF Byte, SYSEX, MANUFACTURER_ID
<1>4. z \in Seq(Byte)
  BY <1>1 DEF Byte, EOX, PRODUCT, DEVICE_OMNI, BEACON_DEFAULT_PARAM_SET
<1> HIDE DEF a, m, z
<1>5. /\ (a \o m) \in Seq(Byte) /\ Len(a \o m) = Len(a) + Len(m)
      /\ \A i \in 1 .. Len(a) : (a \o m)[i] = a[i]
  BY <1>3, Joined
<1> DEFINE b == a \o m
<1>6. b \in Seq(Byte) /\ Len(b) \in Nat \ {0} /\ b[1] = SYSEX
  BY <1>3, <1>5
<1> HIDE DEF b
<1>7. /\ b \o z \in Seq(Byte) /\ Len(b \o z) = Len(b) + Len(z)
      /\ \A i \in 1 .. Len(b) : (b \o z)[i] = b[i]
  BY <1>4, <1>6, Joined
<1> DEFINE s == b \o z
<1>8. s \in Seq(Byte) /\ Len(s) # 0 /\ s[1] = SYSEX
  BY <1>4, <1>6, <1>7
<1> HIDE DEF s
<1>9. IsSysEx(s)
  BY <1>8 DEF IsSysEx
<1>. QED BY <1>2, <1>9 DEF b, s

\* A set is SysEx, and of one address.
LEMMA SetSays ==
  ASSUME NEW page \in Byte, NEW number \in Byte, NEW v \in Nat
  PROVE  LET m == set_param(page, number, v)
         IN  /\ IsSysEx(m) /\ \A a : MaySet(m, a) => page * 128 + number = a
             /\ v <= FULL_SCALE => SetsTo(m, page * 128 + number, v)
<1> DEFINE w == u14_split(v)
           p == PRODUCT
           d == DEVICE_OMNI
           f == FN.SINGLE
           m == sysex(p, d, f, page, number, w)
<1>1. p \in Byte /\ d \in Byte /\ f \in Byte
  BY Codes DEF PRODUCT, DEVICE_OMNI, Byte
<1>2. w \in Seq(Byte) /\ Len(w) = 2 /\ (v <= FULL_SCALE => u14(w[1], w[2]) = v)
  BY SplitBack
<1>3. set_param(page, number, v) = m
  BY DEF set_param, set_single
<1> HIDE DEF w, p, d, f
<1>4. m \in Seq(Byte) /\ Len(m) = 11 + Len(w) /\ m[1] = SYSEX /\ m[7] = f
  <2>1. w \in Seq(Byte) /\ page \in Byte /\ number \in Byte
    BY <1>2
  <2>. QED BY ONLY <1>1, <2>1, SysexBytes
<1>5. /\ parse(m) # None /\ parse(m).page = page /\ parse(m).number = number
      /\ parse(m).vals = w
  BY <1>1, <1>2, HeaderIs
<1> HIDE DEF m
<1>6. IsSysEx(m)
  <2>1. m \in Seq(Byte) /\ Len(m) # 0
    BY <1>2, <1>4
  <2>2. m # <<>> /\ Head(m) = m[1]
    BY <2>1
  <2>. QED BY <1>4, <2>2 DEF IsSysEx
<1>7. \A a : MaySet(m, a) => page * 128 + number = a
  BY <1>5 DEF MaySet
<1>8. ASSUME v <= FULL_SCALE PROVE SetsTo(m, page * 128 + number, v)
  <2>1. IsSet(m)
    BY <1>2, <1>4 DEF IsSet, IsA, f
  <2>2. u14(w[1], w[2]) = v /\ Len(w) >= 2
    BY <1>2, <1>8
  <2> DEFINE h == parse(m)
  <2> HIDE DEF h
  <2>3. h # None /\ h.page = page /\ h.number = number /\ h.vals = w
    BY <1>5 DEF h
  <2>4. u14(h.vals[1], h.vals[2]) = v /\ Len(h.vals) >= 2
    BY <2>2, <2>3, Zenon
  <2>. QED BY <2>1, <2>3, <2>4 DEF SetsTo, MaySet, h
<1>. QED BY <1>3, <1>6, <1>7, <1>8

\* The rows the setters are for.
RowOf(a, f, s, kind) ==
  \E r \in STATE_ROUTES : /\ r.address = a /\ r.field = f
                          /\ r.slot = s /\ r.kind = kind

LEMMA SetterRows ==
  /\ RowOf(10 * 128 + 4, "AmpGain", 0, "U14") /\ RowOf(4 * 128 + 1, "RigVolume", 0, "U14")
  /\ RowOf(127 * 128, "MainVolume", 0, "U14") /\ RowOf(127 * 128 + 2, "MonitorVolume", 0, "U14")
  /\ RowOf(4 * 128, "TempoBpm", 0, "Bpm")
<1> DEFINE r1 == Row(1284, "AmpGain", 0, "U14")
           r2 == Row(513, "RigVolume", 0, "U14")
           r3 == Row(16256, "MainVolume", 0, "U14")
           r4 == Row(16258, "MonitorVolume", 0, "U14")
           r5 == Row(512, "TempoBpm", 0, "Bpm")
<1>1. r1 \in RigRows /\ r2 \in RigRows /\ r5 \in RigRows
  BY SMT DEF RigRows
<1>2. r3 \in SystemRows /\ r4 \in SystemRows
  BY SMT DEF SystemRows
<1>3. /\ r1.address = 10 * 128 + 4 /\ r1.field = "AmpGain" /\ r1.slot = 0 /\ r1.kind = "U14"
      /\ r2.address = 4 * 128 + 1 /\ r2.field = "RigVolume" /\ r2.slot = 0 /\ r2.kind = "U14"
      /\ r3.address = 127 * 128 /\ r3.field = "MainVolume" /\ r3.slot = 0 /\ r3.kind = "U14"
      /\ r4.address = 127 * 128 + 2 /\ r4.field = "MonitorVolume" /\ r4.slot = 0 /\ r4.kind = "U14"
      /\ r5.address = 4 * 128 /\ r5.field = "TempoBpm" /\ r5.slot = 0 /\ r5.kind = "Bpm"
  BY SMT DEF Row
<1> HIDE DEF r1, r2, r3, r4, r5
<1>4. \A r : r \in RigRows \/ r \in SystemRows => r \in STATE_ROUTES
  BY DEF STATE_ROUTES
<1>. QED BY <1>1, <1>2, <1>3, <1>4 DEF RowOf

LEMMA EffectSetterRows ==
  ASSUME NEW i \in DOMAIN EFFECT_PAGES
  PROVE  /\ RowOf(EFFECT_PAGES[i] * 128 + 3, "EffectOn", i - 1, "Bool")
         /\ RowOf(EFFECT_PAGES[i] * 128 + 4, "EffectMix", i - 1, "U14")
<1> DEFINE base == EFFECT_PAGES[i] * 128
           r1 == Refreshed("Rig", Row(base + 3, "EffectOn", i - 1, "Bool"))
           r2 == [Row(base + 4, "EffectMix", i - 1, "U14") EXCEPT !.request = FALSE]
<1> DEFINE S(j) == {Refreshed("Rig", Row(EFFECT_PAGES[j] * 128, "EffectType", j - 1, "U14")),
                    Refreshed("Rig", Row(EFFECT_PAGES[j] * 128 + 3, "EffectOn", j - 1, "Bool")),
                    [Row(EFFECT_PAGES[j] * 128 + 4, "EffectMix", j - 1, "U14")
                       EXCEPT !.request = FALSE]}
<1>0. r1 \in S(i) /\ r2 \in S(i)
  OBVIOUS
<1>9. EffectRows = UNION {S(j) : j \in DOMAIN EFFECT_PAGES}
  BY DEF EffectRows
<1> HIDE DEF S
<1>1. r1 \in EffectRows /\ r2 \in EffectRows
  BY <1>0, <1>9
<1> HIDE DEF base
<1>2. /\ r1.address = base + 3 /\ r1.field = "EffectOn" /\ r1.slot = i - 1 /\ r1.kind = "Bool"
      /\ r2.address = base + 4 /\ r2.field = "EffectMix" /\ r2.slot = i - 1 /\ r2.kind = "U14"
  BY DEF Refreshed, Row
<1> HIDE DEF r1, r2
<1>3. \A r : r \in EffectRows => r \in STATE_ROUTES
  BY DEF STATE_ROUTES
<1>. QED BY <1>1, <1>2, <1>3 DEF RowOf, base

\* What a number makes of a leaf of fourteen bits, of a switch, and of the tempo.
LEMMA MakesNumber ==
  ASSUME NEW a, NEW f, NEW s, RowOf(a, f, s, "U14"), NEW v \in 0 .. FULL_SCALE
  PROVE  Makes(a, v) = v /\ LeafOf(a) = <<f, s>> /\ a \in NumAddresses
<1>1. PICK r \in STATE_ROUTES : r.address = a /\ r.field = f /\ r.slot = s /\ r.kind = "U14"
  BY DEF RowOf
<1>2. route(a) = r /\ LeafOf(a) = <<f, s>>
  BY <1>1, RouteIs
<1>3. decode(r, a, Num(v)) = v
  <2>1. FULL_SCALE \in Nat
    BY DEF FULL_SCALE
  <2>2. ~ (v > FULL_SCALE)
    BY <2>1
  <2>. QED BY <1>1, <2>2 DEF decode, Num
<1>. QED BY <1>1, <1>2, <1>3 DEF Makes, NumAddresses

LEMMA MakesSwitch ==
  ASSUME NEW a, NEW f, NEW s, RowOf(a, f, s, "Bool"), NEW v \in Nat
  PROVE  Makes(a, v) = (v # 0) /\ LeafOf(a) = <<f, s>> /\ a \in NumAddresses
<1>1. PICK r \in STATE_ROUTES : r.address = a /\ r.field = f /\ r.slot = s /\ r.kind = "Bool"
  BY DEF RowOf
<1>2. route(a) = r /\ LeafOf(a) = <<f, s>>
  BY <1>1, RouteIs
<1>3. decode(r, a, Num(v)) = (v # 0)
  BY <1>1 DEF decode, Num
<1>. QED BY <1>1, <1>2, <1>3 DEF Makes, NumAddresses

LEMMA MakesTempo ==
  ASSUME NEW a, NEW f, NEW s, RowOf(a, f, s, "Bpm"), NEW v \in 0 .. FULL_SCALE
  PROVE  Makes(a, v) = v \div TEMPO_BPM_SCALE /\ LeafOf(a) = <<f, s>> /\ a \in NumAddresses
<1>1. PICK r \in STATE_ROUTES : r.address = a /\ r.field = f /\ r.slot = s /\ r.kind = "Bpm"
  BY DEF RowOf
<1>2. route(a) = r /\ LeafOf(a) = <<f, s>>
  BY <1>1, RouteIs
<1>3. decode(r, a, Num(v)) = v \div TEMPO_BPM_SCALE
  <2>1. FULL_SCALE \in Nat
    BY DEF FULL_SCALE
  <2>2. ~ (v > FULL_SCALE)
    BY <2>1
  <2>. QED BY <1>1, <2>2 DEF decode, Num
<1>. QED BY <1>1, <1>2, <1>3 DEF Makes, NumAddresses

\* A setter sets its own leaf to what it means, and nothing else.
SetsIts(s, m) ==
  /\ IsSysEx(m)
  /\ \E a \in NumAddresses, v \in 0 .. FULL_SCALE :
       /\ SetsTo(m, a, v) /\ \A b : MaySet(m, b) => b = a
       /\ Meant(s) = <<LeafOf(a), Makes(a, v)>>

LEMMA SetsItsRow ==
  ASSUME NEW s, NEW page \in Byte, NEW number \in Byte, NEW v \in 0 .. FULL_SCALE,
         page * 128 + number \in NumAddresses,
         Meant(s) = <<LeafOf(page * 128 + number), Makes(page * 128 + number, v)>>
  PROVE  SetsIts(s, set_param(page, number, v))
<1> DEFINE m == set_param(page, number, v)
           a == page * 128 + number
<1>1. v \in Nat /\ v <= FULL_SCALE
  BY DEF FULL_SCALE
<1>2. /\ IsSysEx(m) /\ \A b : MaySet(m, b) => a = b
      /\ SetsTo(m, a, v)
  BY <1>1, SetSays
<1> HIDE DEF m, a
<1>3. a \in NumAddresses /\ Meant(s) = <<LeafOf(a), Makes(a, v)>>
  BY DEF a
<1>4. SetsIts(s, m)
  BY <1>2, <1>3 DEF SetsIts
<1>. QED BY <1>4 DEF m

LEMMA SetterPlain ==
  ASSUME NEW s, SetTo(s), s.call \in {"set_gain", "set_rig_volume", "set_main_volume",
                                      "set_monitor_volume"}
  PROVE  SetsIts(s, Setter(s))
<1> DEFINE row == CASE s.call = "set_gain"           -> <<10, 4, "AmpGain">>
                    [] s.call = "set_rig_volume"     -> <<4, 1, "RigVolume">>
                    [] s.call = "set_main_volume"    -> <<127, 0, "MainVolume">>
                    [] s.call = "set_monitor_volume" -> <<127, 2, "MonitorVolume">>
           page == row[1]
           number == row[2]
           v == s.to
<1>1. v \in 0 .. FULL_SCALE
  BY DEF SetTo
<1>2. Setter(s) = set_param(page, number, v)
  BY DEF Setter, set_gain, set_rig_volume, set_main_volume, set_monitor_volume
<1>3. Meant(s) = <<<<row[3], 0>>, v>>
  BY DEF Meant
<1>4. page \in Byte /\ number \in Byte
  BY DEF Byte
<1>5. RowOf(page * 128 + number, row[3], 0, "U14")
  BY SetterRows
<1> HIDE DEF page, number, v, row
<1>6. /\ Makes(page * 128 + number, v) = v /\ LeafOf(page * 128 + number) = <<row[3], 0>>
      /\ page * 128 + number \in NumAddresses
  BY <1>1, <1>5, MakesNumber
<1>. QED BY <1>1, <1>2, <1>3, <1>4, <1>6, SetsItsRow

LEMMA SetterTempo ==
  ASSUME NEW s, SetTo(s), s.call = "set_tempo_bpm" PROVE SetsIts(s, Setter(s))
<1> DEFINE v == clamp(s.to * TEMPO_BPM_SCALE, 0, FULL_SCALE)
           a == 4 * 128 + 0
<1>1. s.to \in Nat
  <2>1. s.to \in U16
    BY DEF SetTo
  <2>2. U16 \subseteq Nat
    BY DEF U16
  <2>. QED BY <2>1, <2>2
<1>2. v \in 0 .. FULL_SCALE /\ v \div TEMPO_BPM_SCALE = clamp(s.to, 0, 255)
  <2> DEFINE n == s.to
  <2>1. n \in Nat
    BY <1>1
  <2> HIDE DEF n
  <2>2. CASE n <= 255
    <3>1. n * 64 \in Nat /\ n * 64 <= 16383 /\ ~ (n * 64 < 0) /\ ~ (n * 64 > 16383)
          /\ (n * 64) \div 64 = n /\ ~ (n < 0) /\ ~ (n > 255)
      BY <2>1, <2>2
    <3>2. v = n * 64 /\ clamp(s.to, 0, 255) = n
      BY <3>1 DEF n, clamp, FULL_SCALE, TEMPO_BPM_SCALE
    <3>3. v \in Nat /\ v <= FULL_SCALE /\ FULL_SCALE \in Nat
      BY <3>1, <3>2 DEF FULL_SCALE
    <3>. QED BY <3>1, <3>2, <3>3 DEF TEMPO_BPM_SCALE
  <2>3. CASE n > 255
    <3>1. ~ (n * 64 < 0) /\ n * 64 > 16383 /\ 16383 \div 64 = 255 /\ ~ (n < 0) /\ n > 255
      BY <2>1, <2>3
    <3>2. v = FULL_SCALE /\ clamp(s.to, 0, 255) = 255
      BY <3>1 DEF n, clamp, FULL_SCALE, TEMPO_BPM_SCALE
    <3>3. FULL_SCALE \in Nat /\ FULL_SCALE \div TEMPO_BPM_SCALE = 255
      BY <3>1 DEF FULL_SCALE, TEMPO_BPM_SCALE
    <3> HIDE DEF v
    <3>. QED BY <3>2, <3>3
  <2>. QED BY <2>1, <2>2, <2>3
<1>3. Setter(s) = set_param(4, 0, v)
  BY DEF Setter, set_tempo_bpm
<1>4. Meant(s) = <<<<"TempoBpm", 0>>, clamp(s.to, 0, 255)>>
  BY DEF Meant
<1>5. 4 \in Byte /\ 0 \in Byte
  BY DEF Byte
<1>6. RowOf(a, "TempoBpm", 0, "Bpm")
  BY SetterRows
<1> HIDE DEF v
<1>7. Makes(a, v) = v \div TEMPO_BPM_SCALE /\ LeafOf(a) = <<"TempoBpm", 0>> /\ a \in NumAddresses
  BY ONLY <1>2, <1>6, MakesTempo
<1>. QED BY <1>2, <1>3, <1>4, <1>5, <1>7, SetsItsRow

LEMMA SetterEffect ==
  ASSUME NEW s, SetTo(s), Setter(s) # None, s.call \in {"set_effect_enabled", "set_effect_mix"}
  PROVE  SetsIts(s, Setter(s))
<1> DEFINE i == SlotAt(s.slot)
           page == EFFECT_PAGES[i]
<1>1. \E j \in DOMAIN EFFECT_SLOTS : EFFECT_SLOTS[j] = s.slot
  BY DEF Setter, set_effect_enabled, set_effect_mix, effect_slot_page
<1>2. i \in DOMAIN EFFECT_SLOTS
  BY <1>1 DEF SlotAt
<1>3. i \in DOMAIN EFFECT_PAGES
  BY <1>2 DEF EFFECT_SLOTS, EFFECT_PAGES
<1>4. effect_slot_page(s.slot) = page
  BY <1>1 DEF effect_slot_page
<1>5. page \in 50 .. 61
  BY <1>3, EffectPages
<1>6. page # None /\ page \in Byte /\ 3 \in Byte /\ 4 \in Byte
  <2>1. page \in Nat
    BY <1>5
  <2>. QED BY <1>5, <2>1, SurfaceAssumption DEF Byte
<1>7. CASE s.call = "set_effect_enabled"
  <2> DEFINE v == IF s.to THEN 1 ELSE 0
             a == page * 128 + 3
  <2>1. s.to \in BOOLEAN
    BY <1>7 DEF SetTo
  <2>2. Setter(s) = set_param(page, 3, v)
    BY <1>4, <1>6, <1>7 DEF Setter, set_effect_enabled
  <2>3. Meant(s) = <<<<"EffectOn", i - 1>>, s.to>>
    BY <1>7 DEF Meant
  <2>4. v \in Nat /\ v \in 0 .. FULL_SCALE
    BY DEF FULL_SCALE
  <2>5. (v # 0) = s.to
    BY <2>1
  <2>6. RowOf(a, "EffectOn", i - 1, "Bool")
    BY <1>3, EffectSetterRows
  <2> HIDE DEF v, page, i
  <2>7. Makes(a, v) = (v # 0) /\ LeafOf(a) = <<"EffectOn", i - 1>> /\ a \in NumAddresses
    BY ONLY <2>4, <2>6, MakesSwitch
  <2>8. Meant(s) = <<LeafOf(a), Makes(a, v)>>
    BY <2>3, <2>5, <2>7, Zenon
  <2>. QED BY <1>6, <2>2, <2>4, <2>7, <2>8, SetsItsRow
<1>8. CASE s.call = "set_effect_mix"
  <2> DEFINE v == s.to
             a == page * 128 + 4
  <2>1. v \in 0 .. FULL_SCALE
    BY <1>8 DEF SetTo
  <2>2. Setter(s) = set_param(page, 4, v)
    BY <1>4, <1>6, <1>8 DEF Setter, set_effect_mix
  <2>3. Meant(s) = <<<<"EffectMix", i - 1>>, v>>
    BY <1>8 DEF Meant
  <2>6. RowOf(a, "EffectMix", i - 1, "U14")
    BY <1>3, EffectSetterRows
  <2> HIDE DEF v, page, i
  <2>7. Makes(a, v) = v /\ LeafOf(a) = <<"EffectMix", i - 1>> /\ a \in NumAddresses
    BY ONLY <2>1, <2>6, MakesNumber
  <2>. QED BY <1>6, <2>1, <2>2, <2>3, <2>7, SetsItsRow
<1>. QED BY <1>7, <1>8

LEMMA SetterSets ==
  ASSUME NEW s, SetTo(s), Setter(s) # None PROVE SetsIts(s, Setter(s)) /\ IsSysEx(Setter(s))
<1>1. s.call \in {"set_gain", "set_rig_volume", "set_main_volume", "set_monitor_volume",
                  "set_effect_mix", "set_effect_enabled", "set_tempo_bpm"}
  BY DEF SetTo
<1>2. SetsIts(s, Setter(s))
  BY <1>1, SetterPlain, SetterTempo, SetterEffect
<1>. QED BY <1>2 DEF SetsIts

LEMMA ActionsAreNamed ==
  ASSUME NEW n \in DOMAIN Actions PROVE Actions[n] \in DOMAIN CC \union {"EffectButton"}
BY DEF Actions, CC

LEMMA CommandQuiet ==
  ASSUME NEW c \in Commands, Sends(c) # None
  PROVE  IsSysEx(Sends(c)) \/ Quiet(Sends(c))
<1>1. GivenTo(c)
  BY CallsAssumption
<1>0. CASE c.call = "set_param"
  <2>1. c.of \in Byte \X Byte \X U16
    BY <1>0, <1>1 DEF GivenTo
  <2>2. U16 \subseteq Nat
    BY DEF U16
  <2>4. c.of[1] \in Byte /\ c.of[2] \in Byte /\ c.of[3] \in Nat
    BY <2>1, <2>2
  <2>3. Sends(c) = set_param(c.of[1], c.of[2], c.of[3])
    BY <1>0 DEF Sends
  <2>. QED BY <2>3, <2>4, SetSays
<1>2. CASE c.call = "send_raw"
  <2>1. c.of \in Seq(Byte) /\ Sends(c) = send_raw(c.of)
    BY <1>1, <1>2 DEF GivenTo, Sends
  <2>. QED BY <2>1 DEF send_raw, Quiet
<1>3. CASE c.call = "send_control"
  <2>1. Sends(c) = send_control(c.of)
    BY <1>3 DEF Sends
  <2>2. \/ c.of.name \in {"LoadSlot", "Up", "Down", "ProgramChange", "BankSelect"}
        \/ c.of.name \in DOMAIN CC \union {"EffectButton"} /\ c.of.value \in Nat
        \/ c.of.name = "SlotEnable" /\ c.of.value \in (DOMAIN SLOT_ENABLE_CC) \X Nat
    BY <1>1, <1>3 DEF GivenTo
  <2>3. send_control(c.of) = None \/ Quiet(send_control(c.of))
    BY ONLY <2>2, ControlQuiet
  <2>. QED BY <2>1, <2>3
<1>4. CASE c.call = "bank"
  <2> DEFINE v == (IF c.of = 0 THEN 0 ELSE c.of - 1) % 256
             k == Control("BankPreselect", v)
  <2>1. c.of \in Nat /\ Sends(c) = bank(c.of)
    BY <1>1, <1>4 DEF GivenTo, Sends
  <2>2. bank(c.of) = send_control(k)
    BY DEF bank
  <2>3. v \in Nat
    BY <2>1
  <2>4. k.name = "BankPreselect" /\ k.value = v
    BY DEF Control
  <2>5. "BankPreselect" \in DOMAIN CC
    BY DEF CC
  <2> HIDE DEF k, v
  <2>6. k.name \in DOMAIN CC \union {"EffectButton"} /\ k.value \in Nat
    BY <2>3, <2>4, <2>5
  <2>7. send_control(k) = None \/ Quiet(send_control(k))
    BY ONLY <2>6, ControlQuiet
  <2>. QED BY <2>1, <2>2, <2>7
<1>5. CASE c.call = "send_beacon"
  <2>1. c.of \in BOOLEAN \X BOOLEAN \X Byte
    BY <1>1, <1>5 DEF GivenTo
  <2>2. Sends(c) = send_beacon(c.of[1], c.of[2], c.of[3])
    BY <1>5 DEF Sends
  <2>3. c.of[1] \in BOOLEAN /\ c.of[2] \in BOOLEAN /\ c.of[3] \in Byte
    BY <2>1
  <2>. QED BY <2>2, <2>3, BeaconIsSysEx
<1>6. CASE c.call \notin {"send_raw", "send_control", "bank", "send_beacon", "set_param"}
  <2> DEFINE k == Control(Actions[c.call], c.of)
  <2>1. c.call \in DOMAIN Actions /\ c.of \in Nat
    BY <1>1, <1>6 DEF GivenTo
  <2>2. Sends(c) = action(c.call, c.of)
    BY <1>6 DEF Sends
  <2>3. action(c.call, c.of) = send_control(k)
    BY DEF action
  <2>4. k.name = Actions[c.call] /\ k.value = c.of
    BY DEF Control
  <2> HIDE DEF k
  <2>5. k.name \in DOMAIN CC \union {"EffectButton"} /\ k.value \in Nat
    BY <2>1, <2>4, ActionsAreNamed
  <2>6. send_control(k) = None \/ Quiet(send_control(k))
    BY ONLY <2>5, ControlQuiet
  <2>. QED BY <2>2, <2>3, <2>6
<1>. QED BY <1>0, <1>2, <1>3, <1>4, <1>5, <1>6

-----------------------------------------------------------------------------
(***************************************************************************)
(* An item is framed, unframed and heard.                                   *)
(***************************************************************************)

Delivered(item) ==
  UnframerPush(NewUnframer, Concat([i \in DOMAIN item |-> frame(item[i])])).out

LEMMA Delivers ==
  ASSUME NEW item \in Seq(Seq(Byte) \ {<<>>}) PROVE Delivered(item) = item
<1> DEFINE bytes == Concat([i \in 1 .. Len(item) |-> frame(item[i])])
           u == [NewUnframer EXCEPT !.out = item]
<1>1. UnframerPush(NewUnframer, bytes) = u
  BY FramesComeBack
<1>2. DOMAIN item = 1 .. Len(item)
  OBVIOUS
<1>3. Delivered(item) = UnframerPush(NewUnframer, bytes).out
  BY <1>2, Zenon DEF Delivered
<1>4. u.out = item
  BY DEF NewUnframer
<1> HIDE DEF bytes, u
<1>. QED BY <1>1, <1>3, <1>4

LEMMA DeliversNothing == Delivered(<<<<>>>>) = <<>>
<1> DEFINE none == <<>>
           item == <<none>>
           groups(m) == (Len(m) + 2) \div 3
<1>1. frame(none) = none
  <2>1. \E s : Len(s) = 0 /\ frame(none) = Concat(s)
    <3>1. Len(none) = 0 /\ (Len(none) + 2) \div 3 = 0
      OBVIOUS
    <3> HIDE DEF none
    <3> DEFINE count(g) == IF g = 0 THEN Len(none) - 3 * (g - 1) ELSE 3
               group(g) == <<TAG_CONT + (IF g = 0 THEN count(g) ELSE 0)>>
                    \o [i \in 1 .. 3 |->
                          IF i <= count(g) THEN none[3 * (g - 1) + i] ELSE 0]
               s == [g \in 1 .. 0 |-> group(g)]
    <3>2. frame(none) = Concat(s)
      BY <3>1, Zenon DEF frame
    <3> HIDE DEF group
    <3>3. Len(s) = 0
      OBVIOUS
    <3> HIDE DEF s
    <3>. QED BY <3>2, <3>3
  <2>2. PICK s : Len(s) = 0 /\ frame(none) = Concat(s)
    BY <2>1
  <2>3. Concat(s) = Joins!Folded(<<>>, s) /\ Joins!Folded(<<>>, s) = <<>>
    BY <2>2, ConcatIsFold, Joins!FoldEmpty
  <2>. QED BY <2>2, <2>3
<1>2. [i \in DOMAIN item |-> frame(item[i])] = <<none>>
  <2>1. DOMAIN item = 1 .. 1 /\ item[1] = none
    OBVIOUS
  <2> HIDE DEF item, none
  <2> DEFINE s == [i \in DOMAIN item |-> frame(item[i])]
  <2>2. \A i \in 1 .. 1 : frame(item[i]) = none
    BY <1>1, <2>1
  <2>3. s = [i \in 1 .. 1 |-> none]
    BY <2>1, <2>2
  <2>4. [i \in 1 .. 1 |-> none] = <<none>>
    OBVIOUS
  <2>. QED BY <2>3, <2>4
<1>3. Concat(<<none>>) = none
  <2>1. Concat(<<none>>) = Joins!Folded(<<>>, <<none>>)
    BY ConcatIsFold
  <2>2. Joins!Folded(<<>>, <<none>>) = JoinStep(<<>>, none)
    BY Joins!FoldOne
  <2>3. JoinStep(<<>>, none) = none
    BY DEF JoinStep
  <2>. QED BY <2>1, <2>2, <2>3
<1>4. Delivered(item) = UnframerPush(NewUnframer, none).out
  BY <1>2, <1>3 DEF Delivered
<1>5. UnframerPush(NewUnframer, none).out = none
  <2>1. /\ NewUnframer \in Unframer /\ NewUnframer.partial = <<>> /\ NewUnframer.current = <<>>
        /\ none \in Seq(Byte)
    BY NewFits, EmptyBytes
  <2>2. UnframerPush(NewUnframer, none) = Unframe[Holding(none, <<>>)]
    BY ONLY <2>1, Pushed
  <2>3. /\ Holding(none, <<>>) \in Unframer /\ Holding(none, <<>>).partial = none
        /\ Holding(none, <<>>).out = <<>>
    BY ONLY EmptyBytes, HoldingFields, Zenon
  <2> DEFINE h == Holding(none, <<>>)
  <2> HIDE DEF h
  <2>4. h \in Unframer /\ Len(h.partial) < 4 /\ h.out = <<>>
    BY <2>3 DEF h
  <2>5. Unframe[h] = h
    BY <2>4, UnframeTurns
  <2>. QED BY <2>2, <2>4, <2>5 DEF h
<1>. QED BY <1>4, <1>5

Hearing == INSTANCE Folding WITH step <- Hears, Keeps <- IsSeq

LEMMA HearsAllFolds == ASSUME NEW g, NEW msgs PROVE HearsAll(g, msgs) = Hearing!Folded(g, msgs)
BY DEF HearsAll, Through, Hearing!Folded

\* An item that loads nothing: one message of another call's.
Still(item) == \E msg : item = <<msg>> /\ (IsSysEx(msg) \/ Quiet(msg))

LEMMA StillHeard ==
  ASSUME NEW g, NEW l, Holds(g, l), NEW item, Still(item)
  PROVE  Holds(HearsAll(g, Delivered(item)), l)
<1>1. PICK msg : item = <<msg>> /\ (IsSysEx(msg) \/ Quiet(msg))
  BY DEF Still
<1>2. msg \in Seq(Byte)
  BY <1>1 DEF IsSysEx, Quiet
<1>3. CASE msg = <<>>
  <2>1. Delivered(item) = <<>>
    BY <1>1, <1>3, DeliversNothing
  <2>2. HearsAll(g, <<>>) = g
    BY HearsAllFolds, Hearing!FoldEmpty
  <2>. QED BY <2>1, <2>2
<1>4. CASE msg # <<>>
  <2>1. item \in Seq(Seq(Byte) \ {<<>>})
    BY <1>1, <1>2, <1>4
  <2>2. Delivered(item) = <<msg>>
    BY <1>1, <2>1, Delivers
  <2>3. HearsAll(g, <<msg>>) = Hears(g, msg)
    BY HearsAllFolds, Hearing!FoldOne
  <2>4. Holds(Hears(g, msg), l)
    BY <1>1, QuietHeard
  <2>. QED BY <2>2, <2>3, <2>4
<1>. QED BY <1>3, <1>4

LEMMA LoadItem ==
  ASSUME NEW i \in 0 .. 128 * BANK_SLOTS - 1
  PROVE  \E x \in Seq(Byte) \ {<<>>}, y \in Seq(Byte) \ {<<>>} : send_load(i) = <<x, y>>
<1> DEFINE q == i \div 5
           c == 50 + (i % 5)
           x == <<176, 47, q>>
           y == <<176, c, 1, 176, c, 0>>
<1>1. send_load(i) = <<x, y>> /\ q \in 0 .. 127 /\ i % 5 \in 0 .. 4
  BY LoadBytes
<1>2. c \in 0 .. 127
  BY <1>1
<1> HIDE DEF q, c
<1>3. x \in Seq(Byte) \ {<<>>} /\ y \in Seq(Byte) \ {<<>>}
  BY <1>1, <1>2 DEF Byte
<1> HIDE DEF x, y
<1>. QED BY <1>1, <1>3

LEMMA LoadDelivered ==
  ASSUME NEW g, NEW l, Holds(g, l), NEW i \in 0 .. 128 * BANK_SLOTS - 1
  PROVE  Holds(HearsAll(g, Delivered(send_load(i))), Append(l, i))
<1>1. PICK x \in Seq(Byte) \ {<<>>}, y \in Seq(Byte) \ {<<>>} : send_load(i) = <<x, y>>
  BY LoadItem
<1>2. <<x, y>> \in Seq(Seq(Byte) \ {<<>>})
  OBVIOUS
<1>3. Delivered(send_load(i)) = <<x, y>>
  BY <1>1, <1>2, Delivers
<1>4. HearsAll(g, <<x, y>>) = Hears(Hears(g, x), y)
  BY HearsAllFolds, Hearing!FoldTwo
<1>5. x = send_load(i)[1] /\ y = send_load(i)[2]
  BY <1>1
<1>6. Holds(Hears(Hears(g, send_load(i)[1]), send_load(i)[2]), Append(l, i))
  BY LoadHeard
<1>. QED BY <1>3, <1>4, <1>5, <1>6, Zenon

-----------------------------------------------------------------------------
(***************************************************************************)
(* What the queue owes: its items, in order, are the loads still to be      *)
(* heard, with the items of the other calls between them.                   *)
(***************************************************************************)

Rigs == 0 .. 128 * BANK_SLOTS - 1

\* With the first n of the loads s heard, q is the rest of them and what loads
\* nothing: c counts the loads up to an item.
Owed(c, q, n, s) ==
  /\ c[0] = n /\ c[Len(q)] = Len(s)
  /\ \A j \in 1 .. Len(q) : \/ c[j] = c[j - 1] /\ Still(q[j])
                            \/ c[j] = c[j - 1] + 1 /\ q[j] = send_load(s[c[j]])
Owes(q, n, s) == \E c \in [0 .. Len(q) -> 0 .. Len(s)] : Owed(c, q, n, s)

LEMMA Appended ==
  ASSUME NEW q, IsSeq(q), NEW x
  PROVE  /\ IsSeq(Append(q, x)) /\ Len(q) \in Nat /\ Len(Append(q, x)) = Len(q) + 1
         /\ \A j \in 1 .. Len(q) : Append(q, x)[j] = q[j]
         /\ Append(q, x)[Len(q) + 1] = x
<1>1. PICK S : q \in Seq(S)
  BY DEF IsSeq
<1> DEFINE T == S \union {x}
<1>2. q \in Seq(T) /\ x \in T
  BY <1>1, SeqWider
<1> HIDE DEF T
<1>3. Append(q, x) \in Seq(T)
  BY <1>2
<1>. QED BY <1>2, <1>3 DEF IsSeq

LEMMA TailIs ==
  ASSUME NEW q, IsSeq(q), q # <<>>
  PROVE  /\ IsSeq(Tail(q)) /\ Len(q) \in Nat \ {0} /\ Len(Tail(q)) = Len(q) - 1
         /\ \A j \in 1 .. Len(q) - 1 : Tail(q)[j] = q[j + 1]
         /\ Head(q) = q[1]
<1>1. PICK S : q \in Seq(S)
  BY DEF IsSeq
<1>2. Tail(q) \in Seq(S)
  BY <1>1
<1>. QED BY <1>1, <1>2 DEF IsSeq

LEMMA OwesNothing ==
  ASSUME NEW s \in Seq(Rigs) PROVE Owes(<<>>, Len(s), s)
<1> DEFINE q == <<>>
           c == [k \in 0 .. 0 |-> Len(s)]
<1>1. Len(q) = 0 /\ Len(s) \in Nat
  OBVIOUS
<1>2. c \in [0 .. 0 -> 0 .. Len(s)] /\ c[0] = Len(s)
  BY <1>1
<1> HIDE DEF q, c
<1>3. Owed(c, q, Len(s), s)
  BY <1>1, <1>2 DEF Owed
<1>4. c \in [0 .. Len(q) -> 0 .. Len(s)]
  BY <1>1, <1>2
<1>5. Owes(q, Len(s), s)
  BY <1>3, <1>4 DEF Owes
<1>. QED BY <1>5 DEF q

\* One more item: another call's, or the next load.
LEMMA OwesMore ==
  ASSUME NEW q, IsSeq(q), NEW n, NEW s \in Seq(Rigs), Owes(q, n, s),
         NEW t \in Seq(Rigs), NEW item,
         \A i \in 1 .. Len(s) : t[i] = s[i],
         \/ Len(t) = Len(s) /\ Still(item)
         \/ Len(t) = Len(s) + 1 /\ item = send_load(t[Len(t)])
  PROVE  Owes(Append(q, item), n, t)
<1> DEFINE m == Len(q)
           r == Append(q, item)
<1>1. /\ m \in Nat /\ Len(r) = m + 1 /\ r[m + 1] = item
      /\ \A j \in 1 .. m : r[j] = q[j]
  BY Appended
<1>2. Len(s) \in Nat /\ Len(t) \in Nat /\ Len(s) <= Len(t)
  OBVIOUS
<1>3. PICK c \in [0 .. m -> 0 .. Len(s)] : Owed(c, q, n, s)
  BY DEF Owes
<1>4. /\ c[0] = n /\ c[m] = Len(s)
      /\ \A j \in 1 .. m : \/ c[j] = c[j - 1] /\ Still(q[j])
                           \/ c[j] = c[j - 1] + 1 /\ q[j] = send_load(s[c[j]])
  BY <1>3 DEF Owed
<1> DEFINE d == [k \in 0 .. m + 1 |-> IF k <= m THEN c[k] ELSE Len(t)]
<1>5. /\ d \in [0 .. m + 1 -> 0 .. Len(t)]
      /\ d[m + 1] = Len(t) /\ \A k \in 0 .. m : d[k] = c[k]
  BY <1>1, <1>2
<1> HIDE DEF m, r, d
<1>6. ASSUME NEW j \in 1 .. m + 1
      PROVE  \/ d[j] = d[j - 1] /\ Still(r[j])
             \/ d[j] = d[j - 1] + 1 /\ r[j] = send_load(t[d[j]])
  <2>1. CASE j \in 1 .. m
    <3>1. j \in 0 .. m /\ j - 1 \in 0 .. m
      BY <1>1, <2>1
    <3>2. d[j] = c[j] /\ d[j - 1] = c[j - 1] /\ r[j] = q[j]
      BY <1>1, <1>5, <2>1, <3>1
    <3>3. c[j] \in 0 .. Len(s) /\ c[j - 1] \in 0 .. Len(s)
      BY <3>1
    <3>4. c[j] = c[j - 1] + 1 => c[j] \in 1 .. Len(s)
      BY <1>2, <3>3
    <3>5. c[j] = c[j - 1] + 1 => t[c[j]] = s[c[j]]
      BY <3>4
    <3>6. CASE c[j] = c[j - 1] /\ Still(q[j])
      BY <3>2, <3>6
    <3>7. CASE c[j] = c[j - 1] + 1 /\ q[j] = send_load(s[c[j]])
      BY <3>2, <3>5, <3>7
    <3>. QED BY <1>4, <2>1, <3>6, <3>7
  <2>2. CASE j = m + 1
    <3>1. d[j] = Len(t) /\ d[j - 1] = Len(s) /\ r[j] = item
      <4>1. j - 1 = m /\ m \in 0 .. m
        BY <1>1, <2>2
      <4>. QED BY <1>1, <1>4, <1>5, <2>2, <4>1
    <3>2. CASE Len(t) = Len(s) /\ Still(item)
      BY <3>1, <3>2
    <3>3. CASE Len(t) = Len(s) + 1 /\ item = send_load(t[Len(t)])
      BY <3>1, <3>3
    <3>. QED BY <3>2, <3>3
  <2>. QED BY <1>1, <2>1, <2>2
<1>7. d[0] = n /\ Len(r) = m + 1
  BY <1>1, <1>4, <1>5
<1>8. Owed(d, r, n, t)
  BY <1>5, <1>6, <1>7 DEF Owed
<1>9. Owes(r, n, t)
  BY <1>5, <1>7, <1>8 DEF Owes
<1>. QED BY <1>9 DEF r

\* The next item is heard.
LEMMA OwesHead ==
  ASSUME NEW q, IsSeq(q), q # <<>>, NEW n, NEW s \in Seq(Rigs), Owes(q, n, s)
  PROVE  \/ Still(Head(q)) /\ Owes(Tail(q), n, s)
         \/ /\ n \in Nat /\ n + 1 \in 1 .. Len(s) /\ Head(q) = send_load(s[n + 1])
            /\ Owes(Tail(q), n + 1, s)
<1> DEFINE m == Len(q)
           r == Tail(q)
<1>1. /\ m \in Nat \ {0} /\ Len(r) = m - 1 /\ Head(q) = q[1]
      /\ \A j \in 1 .. m - 1 : r[j] = q[j + 1]
  BY TailIs
<1>2. Len(s) \in Nat
  OBVIOUS
<1>3. PICK c \in [0 .. m -> 0 .. Len(s)] : Owed(c, q, n, s)
  BY DEF Owes
<1>4. /\ c[0] = n /\ c[m] = Len(s)
      /\ \A j \in 1 .. m : \/ c[j] = c[j - 1] /\ Still(q[j])
                           \/ c[j] = c[j - 1] + 1 /\ q[j] = send_load(s[c[j]])
  BY <1>3 DEF Owed
<1> DEFINE d == [k \in 0 .. m - 1 |-> c[k + 1]]
<1>5. d \in [0 .. m - 1 -> 0 .. Len(s)] /\ \A k \in 0 .. m - 1 : d[k] = c[k + 1]
  BY <1>1, <1>2
<1> HIDE DEF m, r, d
<1>6. ASSUME NEW j \in 1 .. m - 1
      PROVE  \/ d[j] = d[j - 1] /\ Still(r[j])
             \/ d[j] = d[j - 1] + 1 /\ r[j] = send_load(s[d[j]])
  <2>1. j \in 0 .. m - 1 /\ j - 1 \in 0 .. m - 1 /\ j + 1 \in 1 .. m
        /\ (j - 1) + 1 = j /\ (j + 1) - 1 = j
    BY <1>1
  <2>2. d[j] = c[j + 1] /\ d[j - 1] = c[j] /\ r[j] = q[j + 1]
    BY <1>1, <1>5, <2>1
  <2>3. \/ c[j + 1] = c[j] /\ Still(q[j + 1])
        \/ c[j + 1] = c[j] + 1 /\ q[j + 1] = send_load(s[c[j + 1]])
    BY <1>4, <2>1
  <2>. QED BY <2>2, <2>3
<1>7. d[0] = c[1] /\ d[m - 1] = Len(s) /\ Len(r) = m - 1
  <2>1. 0 \in 0 .. m - 1 /\ m - 1 \in 0 .. m - 1 /\ (m - 1) + 1 = m /\ 0 + 1 = 1
    BY <1>1
  <2>. QED BY <1>1, <1>4, <1>5, <2>1
<1>8. Owes(r, c[1], s)
  <2>1. Owed(d, r, c[1], s)
    BY <1>6, <1>7 DEF Owed
  <2>. QED BY <1>5, <1>7, <2>1 DEF Owes
<1>9. /\ c[1] \in 0 .. Len(s) /\ c[0] \in 0 .. Len(s)
      /\ \/ c[1] = n /\ Still(q[1])
         \/ c[1] = n + 1 /\ q[1] = send_load(s[c[1]])
  <2>1. 1 \in 1 .. m /\ 0 \in 0 .. m /\ 1 \in 0 .. m /\ 1 - 1 = 0
    BY <1>1
  <2>. QED BY <1>4, <2>1
<1>10. CASE c[1] = n /\ Still(q[1])
  BY <1>1, <1>8, <1>10 DEF r
<1>11. CASE c[1] = n + 1 /\ q[1] = send_load(s[c[1]])
  <2>1. n \in Nat /\ n + 1 \in 1 .. Len(s)
    BY <1>2, <1>4, <1>9, <1>11
  <2>. QED BY <1>1, <1>8, <1>11, <2>1 DEF r
<1>. QED BY <1>9, <1>10, <1>11

-----------------------------------------------------------------------------
(***************************************************************************)
(* A read: its messages are SysEx.                                          *)
(***************************************************************************)

Fielded(c) ==
  c \in [at : {c.at}, todo : {c.todo}, asked : {c.asked}, keys : {c.keys},
         worst : {c.worst}, reply : {c.reply}, single : {c.single}, stable : {c.stable}]
ToAsk(t)   == IsSeq(t) /\ \A i \in 1 .. Len(t) : IsSysEx(t[i].msg) /\ IsQuestion(t[i].msg)
Reading(c) == Fielded(c) /\ ToAsk(c.todo)

LEMMA NoCallReads == Reading(NoCall)
<1>1. Fielded(NoCall)
  BY DEF Fielded, NoCall
<1>2. NoCall.todo = <<>>
  BY DEF NoCall
<1>3. <<>> \in Seq({}) /\ Len(<<>>) = 0
  OBVIOUS
<1>. QED BY <1>1, <1>2, <1>3 DEF Reading, ToAsk, IsSeq

LEMMA CallingReads == ASSUME NEW ask \in Asks PROVE Reading(Calling(ask))
<1>1. /\ ask \in Seq({ask[i] : i \in DOMAIN ask})
      /\ \A i \in DOMAIN ask : IsSysEx(ask[i].msg) /\ IsQuestion(ask[i].msg)
  BY CallsAssumption
<1>2. ToAsk(ask)
  <2> DEFINE S == {ask[i] : i \in DOMAIN ask}
  <2> HIDE DEF S
  <2>1. ask \in Seq(S)
    BY <1>1 DEF S
  <2>2. IsSeq(ask) /\ DOMAIN ask = 1 .. Len(ask)
    BY <2>1 DEF IsSeq
  <2>. QED BY <1>1, <2>2 DEF ToAsk
<1>3. Calling(ask).todo = ask /\ Fielded(Calling(ask))
  BY DEF Calling, NoCall, Fielded
<1>. QED BY <1>2, <1>3 DEF Reading

LEMMA KeysRead ==
  ASSUME NEW c, Reading(c), NEW k, NEW w, NEW r, NEW s, NEW t, ToAsk(t), NEW a
  PROVE  /\ Reading([c EXCEPT !.keys = k, !.reply = r, !.worst = w])
         /\ Reading([c EXCEPT !.keys = k, !.worst = w])
         /\ Reading([c EXCEPT !.todo = t, !.worst = w])
         /\ Reading([c EXCEPT !.todo = t, !.keys = k])
         /\ Reading([c EXCEPT !.stable = s])
         /\ Reading([c EXCEPT !.at = a])
BY DEF Reading, Fielded

LEMMA DoneReads == ASSUME NEW c, Reading(c) PROVE Reading(Done(c))
<1>1. <<>> \in Seq({}) /\ Len(<<>>) = 0
  OBVIOUS
<1>2. ToAsk(<<>>)
  BY <1>1 DEF ToAsk, IsSeq
<1>. QED BY <1>2, KeysRead DEF Done

LEMMA DisturbedReads == ASSUME NEW c, Reading(c) PROVE Reading(Disturbed(c))
<1>1. <<>> \in Seq({}) /\ Len(<<>>) = 0
  OBVIOUS
<1>2. ToAsk(<<>>)
  BY <1>1 DEF ToAsk, IsSeq
<1>. QED BY <1>2, KeysRead, NoCallReads DEF Disturbed

LEMMA SettledReads == ASSUME NEW c, Reading(c), NEW answers PROVE Reading(Settled(c, answers))
<1> DEFINE ours == {a \in answers : a[1] \in c.keys}
           fit(a) == \/ a[1].shape # "Num" \/ a[1].address >= EXTENDED_ADDRESS_BASE
                     \/ a[2] <= FULL_SCALE \/ ~c.single
           a == CHOOSE b \in ours : TRUE
           k == c.keys \ {b[1] : b \in ours}
           r == IF c.single THEN a[2] ELSE c.reply
           w == IF fit(a) THEN c.worst ELSE worse(c.worst, "Unreadable")
<1>1. CASE ours = {}
  BY <1>1 DEF Settled
<1>2. CASE ours # {}
  <2>1. Settled(c, answers) = [c EXCEPT !.keys = k, !.reply = r, !.worst = w]
    BY <1>2 DEF Settled
  <2>2. <<>> \in Seq({}) /\ Len(<<>>) = 0
    OBVIOUS
  <2>3. ToAsk(<<>>)
    BY <2>2 DEF ToAsk, IsSeq
  <2> HIDE DEF ours, a, k, r, w, fit
  <2>4. Reading([c EXCEPT !.keys = k, !.reply = r, !.worst = w])
    BY <2>3, KeysRead
  <2>. QED BY <2>1, <2>4
<1>. QED BY <1>1, <1>2

LEMMA TailAsks ==
  ASSUME NEW t, ToAsk(t), t # <<>>
  PROVE  /\ ToAsk(Tail(t)) /\ IsSysEx(Head(t).msg) /\ IsQuestion(Head(t).msg)
         /\ Len(Tail(t)) = Len(t) - 1 /\ Len(t) \in Nat \ {0} /\ Head(t) = t[1]
         /\ \A j \in 1 .. Len(t) - 1 : Tail(t)[j] = t[j + 1]
<1>1. IsSeq(t) /\ \A i \in 1 .. Len(t) : IsSysEx(t[i].msg) /\ IsQuestion(t[i].msg)
  BY DEF ToAsk
<1>2. /\ IsSeq(Tail(t)) /\ Len(t) \in Nat \ {0} /\ Len(Tail(t)) = Len(t) - 1
      /\ \A j \in 1 .. Len(t) - 1 : Tail(t)[j] = t[j + 1]
      /\ Head(t) = t[1]
  BY <1>1, TailIs
<1>3. ASSUME NEW i \in 1 .. Len(Tail(t)) PROVE IsSysEx(Tail(t)[i].msg) /\ IsQuestion(Tail(t)[i].msg)
  <2>1. i \in 1 .. Len(t) - 1 /\ i + 1 \in 1 .. Len(t)
    BY <1>2
  <2>. QED BY <1>1, <1>2, <2>1
<1>4. 1 \in 1 .. Len(t)
  BY <1>2
<1>. QED BY <1>1, <1>2, <1>3, <1>4 DEF ToAsk

-----------------------------------------------------------------------------
(***************************************************************************)
(* The loads heard are the first of those sent.                             *)
(***************************************************************************)

LEMMA PrefixSame ==
  ASSUME NEW s \in Seq(Rigs), NEW i \in Rigs, NEW n \in 0 .. Len(s)
  PROVE  SubSeq(Append(s, i), 1, n) = SubSeq(s, 1, n)
<1> DEFINE t == Append(s, i)
           x == SubSeq(t, 1, n)
           y == SubSeq(s, 1, n)
<1>1. t \in Seq(Rigs) /\ Len(t) = Len(s) + 1 /\ \A j \in 1 .. Len(s) : t[j] = s[j]
  OBVIOUS
<1> HIDE DEF t
<1>2. 1 \in Nat /\ n \in Nat /\ 1 <= 1 /\ 1 <= n + 1 /\ n <= Len(s) /\ n <= Len(t)
  BY <1>1
<1>3. x \in Seq(Rigs) /\ Len(x) = (n - 1) + 1 /\ \A j \in 1 .. (n - 1) + 1 : x[j] = t[(1 + j) - 1]
  BY <1>1, <1>2, Cut
<1>4. y \in Seq(Rigs) /\ Len(y) = (n - 1) + 1 /\ \A j \in 1 .. (n - 1) + 1 : y[j] = s[(1 + j) - 1]
  BY <1>2, Cut
<1> HIDE DEF x, y
<1>5. Len(x) = Len(y) /\ \A j \in 1 .. Len(x) : x[j] = y[j]
  <2> SUFFICES ASSUME NEW j \in 1 .. n PROVE x[j] = y[j]
    BY <1>2, <1>3, <1>4
  <2>1. j \in 1 .. (n - 1) + 1 /\ (1 + j) - 1 = j /\ j \in 1 .. Len(s)
    BY <1>2
  <2>. QED BY <1>1, <1>3, <1>4, <2>1
<1>6. x = y
  BY <1>3, <1>4, <1>5, SeqEqual
<1>. QED BY <1>6 DEF x, y, t

LEMMA PrefixMore ==
  ASSUME NEW s \in Seq(Rigs), NEW n \in Nat, n + 1 \in 1 .. Len(s)
  PROVE  Append(SubSeq(s, 1, n), s[n + 1]) = SubSeq(s, 1, n + 1)
<1> DEFINE y == SubSeq(s, 1, n)
           x == Append(y, s[n + 1])
           m == n + 1
           z == SubSeq(s, 1, m)
<1>1. 1 \in Nat /\ m \in Nat /\ 1 <= 1 /\ 1 <= n + 1 /\ 1 <= m + 1 /\ n <= Len(s) /\ m <= Len(s)
      /\ s[n + 1] \in Rigs /\ m = n + 1
  OBVIOUS
<1> HIDE DEF m
<1>2. y \in Seq(Rigs) /\ Len(y) = (n - 1) + 1 /\ \A j \in 1 .. (n - 1) + 1 : y[j] = s[(1 + j) - 1]
  BY <1>1, Cut
<1>3. z \in Seq(Rigs) /\ Len(z) = (m - 1) + 1 /\ \A j \in 1 .. (m - 1) + 1 : z[j] = s[(1 + j) - 1]
  BY <1>1, Cut
<1> HIDE DEF y, z
<1>4. /\ x \in Seq(Rigs) /\ Len(x) = Len(y) + 1 /\ x[Len(y) + 1] = s[n + 1]
      /\ \A j \in 1 .. Len(y) : x[j] = y[j]
  BY <1>1, <1>2
<1> HIDE DEF x
<1>5. Len(y) = n /\ Len(z) = n + 1 /\ Len(x) = n + 1
  BY <1>1, <1>2, <1>3, <1>4
<1>6. ASSUME NEW j \in 1 .. Len(x) PROVE x[j] = z[j]
  <2>1. j \in 1 .. (m - 1) + 1 /\ (1 + j) - 1 = j
    BY <1>1, <1>5
  <2>2. z[j] = s[j]
    BY <1>3, <2>1
  <2>3. CASE j \in 1 .. n
    <3>1. j \in 1 .. (n - 1) + 1 /\ j \in 1 .. Len(y)
      BY <1>5, <2>3
    <3>. QED BY <1>2, <1>4, <2>1, <2>2, <3>1
  <2>4. CASE j = n + 1
    BY <1>4, <1>5, <2>2, <2>4
  <2>. QED BY <1>5, <2>3, <2>4
<1>7. x = z
  BY <1>3, <1>4, <1>5, <1>6, SeqEqual
<1>. QED BY <1>7 DEF x, y, z, m

\* The invariant's parts: what things are; what the queue owes; and that
\* nothing has been sent before the stream is the model's.
LType ==
  /\ sent \in Seq(Rigs) /\ IsSeq(queue) /\ incoming \in Seq(Message)
  /\ Grows(tree, tree) /\ Reading(call)
LOwes ==
  \E n \in 0 .. Len(sent) : /\ Holds(gear, SubSeq(sent, 1, n))
                            /\ tree.stream_open => Owes(queue, n, sent)
LIdle == client.at # "handed" => queue = <<>> /\ sent = <<>> /\ ~tree.stream_open
LInv == LType /\ LOwes /\ LIdle

\* Nothing is queued and nothing heard.
LEMMA StaysOwed ==
  ASSUME LOwes, queue' = queue \/ ~tree'.stream_open, sent' = sent,
         tree'.stream_open => tree.stream_open,
         \A l : Holds(gear, l) => Holds(gear', l)
  PROVE  LOwes'
BY DEF LOwes

\* Another call's message is queued.
LEMMA EnqueueKeeps ==
  ASSUME LType, LOwes, NEW msg, Enqueue(msg), IsSysEx(msg) \/ Quiet(msg),
         sent' = sent, tree' = tree, gear' = gear
  PROVE  IsSeq(queue') /\ LOwes'
<1>1. queue' = Append(queue, <<msg>>) /\ tree.stream_open
  BY DEF Enqueue
<1>2. IsSeq(queue) /\ sent \in Seq(Rigs)
  BY DEF LType
<1> DEFINE item == <<msg>>
<1>3. Still(item)
  BY DEF Still
<1> HIDE DEF item
<1>4. PICK n \in 0 .. Len(sent) : /\ Holds(gear, SubSeq(sent, 1, n))
                                  /\ tree.stream_open => Owes(queue, n, sent)
  BY DEF LOwes
<1>5. Owes(Append(queue, item), n, sent)
  <2>1. Owes(queue, n, sent)
    BY <1>1, <1>4
  <2>2. \A i \in 1 .. Len(sent) : sent[i] = sent[i]
    OBVIOUS
  <2>3. Len(sent) = Len(sent) /\ Still(item)
    BY <1>3
  <2>. QED BY ONLY <1>2, <2>1, <2>2, <2>3, OwesMore
<1>6. queue' = Append(queue, item)
  BY <1>1 DEF item
<1>7. Owes(queue', n, sent')
  BY <1>5, <1>6
<1>8. LOwes'
  BY <1>4, <1>7 DEF LOwes
<1>. QED BY <1>2, <1>6, <1>8, Appended

\* The Navigator queues a load, or none.
LEMMA ExecuteKeeps ==
  ASSUME LType, LOwes, NEW step, Execute(step), tree' = tree, gear' = gear
  PROVE  sent' \in Seq(Rigs) /\ IsSeq(queue') /\ LOwes'
<1>1. IsSeq(queue) /\ sent \in Seq(Rigs)
  BY DEF LType
<1>2. CASE queue' = queue /\ sent' = sent
  BY <1>1, <1>2, StaysOwed
<1>3. ASSUME NEW i, CanLoad(i), queue' = Append(queue, send_load(i)), sent' = Append(sent, i)
      PROVE  sent' \in Seq(Rigs) /\ IsSeq(queue') /\ LOwes'
  <2>1. i \in Rigs /\ tree.stream_open
    BY <1>3 DEF CanLoad, Rigs
  <2> DEFINE t == Append(sent, i)
             item == send_load(i)
  <2>2. /\ t \in Seq(Rigs) /\ Len(t) = Len(sent) + 1 /\ t[Len(t)] = i
        /\ \A j \in 1 .. Len(sent) : t[j] = sent[j]
    BY <1>1, <2>1
  <2>3. PICK n \in 0 .. Len(sent) : /\ Holds(gear, SubSeq(sent, 1, n))
                                    /\ tree.stream_open => Owes(queue, n, sent)
    BY DEF LOwes
  <2>4. SubSeq(t, 1, n) = SubSeq(sent, 1, n)
    BY <1>1, <2>1, PrefixSame
  <2>5. item = send_load(t[Len(t)])
    BY <2>2
  <2> HIDE DEF t, item
  <2>6. Owes(queue, n, sent)
    BY <2>1, <2>3
  <2>7. Len(t) = Len(sent) + 1 /\ item = send_load(t[Len(t)])
    BY <2>2, <2>5
  <2>8. t \in Seq(Rigs) /\ \A j \in 1 .. Len(sent) : t[j] = sent[j]
    BY <2>2
  <2>9. Owes(Append(queue, item), n, t)
    BY ONLY <1>1, <2>6, <2>7, <2>8, OwesMore
  <2>10. sent' = t /\ queue' = Append(queue, item)
    BY <1>3 DEF t, item
  <2>11. n \in 0 .. Len(t)
    BY <1>1, <2>2
  <2>12. LOwes'
    BY <2>3, <2>4, <2>9, <2>10, <2>11 DEF LOwes
  <2>. QED BY <1>1, <2>2, <2>10, <2>12, Appended
<1>. QED BY <1>2, <1>3 DEF Execute

LEMMA SetKeeps ==
  ASSUME LType, LOwes, NEW s \in Settings, Set(s) PROVE LType' /\ LOwes'
<1>1. /\ Setter(s) # None /\ Enqueue(Setter(s)) /\ call' = Disturbed(call)
      /\ gear' = gear /\ incoming' = incoming /\ tree' = tree /\ sent' = sent
  BY DEF Set, Calls
<1>2. IsSysEx(Setter(s))
  BY <1>1, CallsAssumption, SetterSets
<1>3. IsSeq(queue') /\ LOwes'
  BY <1>1, <1>2, EnqueueKeeps
<1>4. Reading(call')
  BY <1>1, DisturbedReads DEF LType
<1>. QED BY <1>1, <1>3, <1>4 DEF LType

LEMMA CommandKeeps ==
  ASSUME LType, LOwes, NEW c \in Commands, Command(c) PROVE LType' /\ LOwes'
<1>1. /\ Sends(c) # None /\ Enqueue(Sends(c)) /\ call' = Disturbed(call)
      /\ gear' = gear /\ incoming' = incoming /\ tree' = tree /\ sent' = sent
  BY DEF Command, Calls
<1>2. IsSysEx(Sends(c)) \/ Quiet(Sends(c))
  BY <1>1, CommandQuiet
<1>3. IsSeq(queue') /\ LOwes'
  BY <1>1, <1>2, EnqueueKeeps
<1>4. Reading(call')
  BY <1>1, DisturbedReads DEF LType
<1>. QED BY <1>1, <1>3, <1>4 DEF LType

LEMMA NavigateKeeps ==
  ASSUME LType, LOwes, NEW target, navigate_to(target) PROVE LType' /\ LOwes'
<1>1. /\ Execute(Nav!OnNavigate(nav, target)) /\ call' = Disturbed(call)
      /\ gear' = gear /\ incoming' = incoming /\ tree' = tree
  BY DEF navigate_to, Calls
<1>2. sent' \in Seq(Rigs) /\ IsSeq(queue') /\ LOwes'
  BY <1>1, ExecuteKeeps
<1>3. Reading(call')
  BY <1>1, DisturbedReads DEF LType
<1>. QED BY <1>1, <1>2, <1>3 DEF LType

LEMMA TimerKeeps == ASSUME LType, LOwes, TimerElapses PROVE LType' /\ LOwes'
<1>1. /\ Execute(Nav!OnSettleElapsed(nav)) \/ Execute(Nav!OnWindowElapsed(nav))
      /\ call' = call \/ call' = Disturbed(call)
      /\ gear' = gear /\ incoming' = incoming /\ tree' = tree
  BY DEF TimerElapses
<1>2. sent' \in Seq(Rigs) /\ IsSeq(queue') /\ LOwes'
  BY <1>1, ExecuteKeeps
<1>3. Reading(call')
  BY <1>1, DisturbedReads DEF LType
<1>. QED BY <1>1, <1>2, <1>3 DEF LType

LEMMA CborKeeps ==
  ASSUME LType, LOwes, NEW address, NEW v, apply_cbor(address, v) PROVE LType' /\ LOwes'
<1> DEFINE u == Update("Control", "Live", address, Num(v))
           a == Settles(u.decoded, address)
<1>1. /\ tree' = apply_update(tree, u).tree
      /\ call' = Done(Settled(Disturbed(call), a))
      /\ queue' = queue /\ gear' = gear /\ incoming' = incoming /\ sent' = sent
  BY DEF apply_cbor
<1>2. IsDecoded(u.decoded)
  BY DEF IsDecoded, Update, Num
<1>3. Grows(tree, tree')
  <2> HIDE DEF u
  <2>1. Grows(tree, tree)
    BY DEF LType
  <2>2. Grows(tree, apply_update(tree, u).tree)
    BY ONLY <1>2, <2>1, ApplyUpdateGrows
  <2>. QED BY <1>1, <2>2
<1>4. Grows(tree', tree') /\ tree'.stream_open = tree.stream_open
  BY <1>3 DEF Grows
<1>5. Reading(call')
  <2> HIDE DEF a
  <2>1. Reading(Settled(Disturbed(call), a))
    BY DisturbedReads, SettledReads DEF LType
  <2>. QED BY <1>1, <2>1, DoneReads
<1>6. LOwes'
  BY <1>1, <1>4, StaysOwed
<1>. QED BY <1>1, <1>4, <1>5, <1>6 DEF LType

LEMMA ReadKeeps ==
  ASSUME LType, LOwes, NEW ask \in Asks, Read(ask) PROVE LType' /\ LOwes'
<1>1. /\ call' = Calling(ask)
      /\ queue' = queue /\ gear' = gear /\ incoming' = incoming /\ tree' = tree /\ sent' = sent
  BY DEF Read
<1>2. Reading(call')
  BY <1>1, CallingReads
<1>3. LOwes'
  BY <1>1, StaysOwed
<1>. QED BY <1>1, <1>2, <1>3 DEF LType

LEMMA StartRowKeeps == ASSUME LType, LOwes, StartRow PROVE LType' /\ LOwes'
<1> DEFINE a    == Head(call.todo)
           t    == Tail(call.todo)
           next == [call EXCEPT !.todo = Tail(@)]
           k    == call.keys \union {a.key}
<1>1. Reading(call) /\ Fielded(call)
  BY DEF LType, Reading
<1>2. /\ call.todo # <<>>
      /\ gear' = gear /\ incoming' = incoming /\ tree' = tree /\ sent' = sent
      /\ \/ /\ queue' = queue
            /\ \E e : call' = Done([next EXCEPT !.worst = worse(@, e)])
         \/ /\ Enqueue(a.msg)
            /\ call' = [next EXCEPT !.keys = @ \union {a.key}]
  BY DEF StartRow
<1>3. ToAsk(t) /\ IsSysEx(a.msg)
  BY <1>1, <1>2, TailAsks DEF Reading
<1>4. next = [call EXCEPT !.todo = t]
  OBVIOUS
<1> HIDE DEF a, t
<1>5. ASSUME NEW e, queue' = queue, call' = Done([next EXCEPT !.worst = worse(@, e)])
      PROVE  LType' /\ LOwes'
  <2> DEFINE w == worse(call.worst, e)
  <2>1. [next EXCEPT !.worst = worse(@, e)] = [call EXCEPT !.todo = t, !.worst = w]
    BY <1>1, <1>4 DEF Fielded
  <2> HIDE DEF next, w
  <2>2. Reading([call EXCEPT !.todo = t, !.worst = w])
    BY <1>1, <1>3, KeysRead
  <2>3. Reading(call')
    BY <1>5, <2>1, <2>2, DoneReads
  <2>4. LOwes'
    BY <1>2, <1>5, StaysOwed
  <2>. QED BY <1>2, <1>5, <2>3, <2>4 DEF LType
<1>6. ASSUME Enqueue(a.msg), call' = [next EXCEPT !.keys = @ \union {a.key}]
      PROVE  LType' /\ LOwes'
  <2>1. [next EXCEPT !.keys = @ \union {a.key}] = [call EXCEPT !.todo = t, !.keys = k]
    BY <1>1, <1>4 DEF Fielded
  <2> HIDE DEF next, k
  <2>2. Reading([call EXCEPT !.todo = t, !.keys = k])
    BY <1>1, <1>3, KeysRead
  <2>3. IsSeq(queue') /\ LOwes'
    BY <1>2, <1>3, <1>6, EnqueueKeeps
  <2>. QED BY <1>2, <1>6, <2>1, <2>2, <2>3 DEF LType
<1>. QED BY <1>2, <1>5, <1>6

LEMMA PlayerKeeps == ASSUME LType, LOwes, PlayerSteps PROVE LType' /\ LOwes'
<1> DEFINE g == LoadRig(gear, AtRig(gear) + 1)
           b == [g EXCEPT !.says = <<>>]
<1>1. /\ gear' = b /\ incoming' = incoming \o g.says /\ call' = Disturbed(call)
      /\ queue' = queue /\ tree' = tree /\ sent' = sent
  BY DEF PlayerSteps
<1>2. \A l : Holds(gear, l) => Holds(g, l)
  BY LoadRigHolds
<1> HIDE DEF g
<1>4. <<>> \in Seq(Message)
  OBVIOUS
<1>5. \A l : Holds(g, l) => Holds([g EXCEPT !.says = <<>>], l)
  BY <1>4, SaysHolds
<1>6. LOwes'
  <2>1. \A l : Holds(gear, l) => Holds(gear', l)
    BY <1>1, <1>2, <1>5
  <2>. QED BY <1>1, <2>1, StaysOwed
<1>7. g.says \in Seq(Message)
  <2>1. PICK n : Holds(gear, SubSeq(sent, 1, n))
    BY DEF LOwes
  <2>. QED BY <1>2, <2>1 DEF Holds
<1>8. incoming' \in Seq(Message)
  BY <1>1, <1>7, ConcatProperties DEF LType
<1>9. Reading(call')
  BY <1>1, DisturbedReads DEF LType
<1>. QED BY <1>1, <1>6, <1>8, <1>9 DEF LType

LEMMA FirstMessage ==
  ASSUME NEW s \in Seq(Message), s # <<>> PROVE Head(s) \in Message /\ Tail(s) \in Seq(Message)
OBVIOUS

LEMMA HearKeeps == ASSUME LType, LOwes, Hear PROVE LType' /\ LOwes'
<1> DEFINE msg == Head(incoming)
<1>1. /\ incoming # <<>> /\ incoming' = Tail(incoming)
      /\ tree' = apply(tree, msg).tree
      /\ \E answers : call' = Done(Settled(call, answers))
      /\ queue' = queue /\ gear' = gear /\ sent' = sent
  BY DEF Hear
<1>2. msg \in Message /\ incoming' \in Seq(Message)
  BY <1>1, FirstMessage DEF LType
<1>3. Grows(tree, tree')
  <2> HIDE DEF msg
  <2>1. Grows(tree, tree)
    BY DEF LType
  <2>2. Grows(tree, apply(tree, msg).tree)
    BY ONLY <1>2, <2>1, ApplyGrows
  <2>. QED BY <1>1, <2>2
<1>4. Grows(tree', tree') /\ tree'.stream_open = tree.stream_open
  BY <1>3 DEF Grows
<1>5. Reading(call')
  <2>1. PICK answers : call' = Done(Settled(call, answers))
    BY <1>1
  <2>2. Reading(Settled(call, answers))
    BY SettledReads DEF LType
  <2>. QED BY <2>1, <2>2, DoneReads
<1>6. LOwes'
  BY <1>1, <1>4, StaysOwed
<1>. QED BY <1>1, <1>2, <1>4, <1>5, <1>6 DEF LType

LEMMA TimesOutKeeps ==
  ASSUME LType, LOwes, NEW k, ReplyTimesOut(k) PROVE LType' /\ LOwes'
<1> DEFINE s == call.keys \ {k}
           w == worse(call.worst, "Timeout")
<1>1. /\ call' = Done([call EXCEPT !.keys = s, !.worst = w])
      /\ queue' = queue /\ gear' = gear /\ incoming' = incoming /\ tree' = tree /\ sent' = sent
  BY DEF ReplyTimesOut
<1> HIDE DEF s, w
<1>2. Reading([call EXCEPT !.keys = s, !.worst = w])
  BY KeysRead DEF LType, Reading
<1>3. Reading(call')
  BY <1>1, <1>2, DoneReads
<1>4. LOwes'
  BY <1>1, StaysOwed
<1>. QED BY <1>1, <1>3, <1>4 DEF LType

LEMMA LoseKeeps == ASSUME LType, LOwes, Lose PROVE LType' /\ LOwes'
<1> DEFINE w == worse(call.worst, "Disconnected")
           none == {}
<1>1. /\ tree' = [tree EXCEPT !.stream_open = FALSE]
      /\ queue' = <<>> /\ incoming' = <<>>
      /\ \/ call' = call
         \/ call' = Done([call EXCEPT !.keys = none, !.worst = w])
      /\ gear' = gear /\ sent' = sent
  BY DEF Lose
<1> HIDE DEF w, none
<1>2. Reading([call EXCEPT !.keys = none, !.worst = w])
  BY KeysRead DEF LType, Reading
<1>3. Reading(call')
  BY <1>1, <1>2, DoneReads DEF LType
<1>4. Grows(tree', tree') /\ ~tree'.stream_open
  BY <1>1 DEF LType, Grows
<1>5. LOwes'
  BY <1>1, <1>4, StaysOwed
<1>6. <<>> \in Seq({}) /\ <<>> \in Seq(Message)
  OBVIOUS
<1>7. IsSeq(<<>>) /\ <<>> \in Seq(Message)
  BY <1>6 DEF IsSeq
<1>. QED BY <1>1, <1>3, <1>4, <1>5, <1>7 DEF LType

\* The writer takes an item: its load is the next one, or it loads nothing.
LEMMA WriteKeeps ==
  ASSUME LType, LOwes, WriteItem PROVE LType' /\ LOwes'
<1> DEFINE item == Head(queue)
           g == HearsAll(gear, Delivered(item))
           b == [g EXCEPT !.says = <<>>]
<1>1. /\ queue # <<>> /\ tree.stream_open /\ queue' = Tail(queue)
      /\ gear' = b /\ incoming' = incoming \o g.says
      /\ call' = call \/ call' = Disturbed(call)
      /\ tree' = tree /\ sent' = sent
  BY DEF WriteItem, Delivered
<1>2. IsSeq(queue) /\ sent \in Seq(Rigs)
  BY DEF LType
<1>3. PICK n \in 0 .. Len(sent) : /\ Holds(gear, SubSeq(sent, 1, n))
                                  /\ tree.stream_open => Owes(queue, n, sent)
  BY DEF LOwes
<1>4. \/ Still(item) /\ Owes(Tail(queue), n, sent)
      \/ /\ n \in Nat /\ n + 1 \in 1 .. Len(sent) /\ item = send_load(sent[n + 1])
         /\ Owes(Tail(queue), n + 1, sent)
  <2>1. Owes(queue, n, sent) /\ queue # <<>>
    BY <1>1, <1>3
  <2>. QED BY ONLY <1>2, <2>1, OwesHead
<1> HIDE DEF item
<1>5. \E m \in 0 .. Len(sent) : Holds(g, SubSeq(sent, 1, m)) /\ Owes(Tail(queue), m, sent)
  <2>1. CASE Still(item) /\ Owes(Tail(queue), n, sent)
    <3>1. Holds(g, SubSeq(sent, 1, n))
      BY <1>3, <2>1, StillHeard
    <3> HIDE DEF g
    <3>. QED BY <2>1, <3>1
  <2>2. CASE /\ n \in Nat /\ n + 1 \in 1 .. Len(sent) /\ item = send_load(sent[n + 1])
             /\ Owes(Tail(queue), n + 1, sent)
    <3> DEFINE l == SubSeq(sent, 1, n)
               i == sent[n + 1]
    <3>1. i \in Rigs
      BY <1>2, <2>2
    <3>2. Append(l, i) = SubSeq(sent, 1, n + 1)
      BY <1>2, <2>2, PrefixMore
    <3> HIDE DEF l, i
    <3>3. Holds(gear, l)
      BY <1>3 DEF l
    <3>4. Holds(HearsAll(gear, Delivered(send_load(i))), Append(l, i))
      <4>1. i \in 0 .. 128 * BANK_SLOTS - 1
        BY <3>1 DEF Rigs
      <4>. QED BY ONLY <3>3, <4>1, LoadDelivered
    <3>5. Holds(g, SubSeq(sent, 1, n + 1))
      BY <2>2, <3>2, <3>4 DEF i
    <3>6. n + 1 \in 0 .. Len(sent)
      BY <1>2, <2>2
    <3> HIDE DEF g
    <3>. QED BY <2>2, <3>5, <3>6
  <2>. QED BY <1>4, <2>1, <2>2
<1> HIDE DEF g
<1>6. PICK m \in 0 .. Len(sent) : Holds(g, SubSeq(sent, 1, m)) /\ Owes(Tail(queue), m, sent)
  BY <1>5
<1>8. <<>> \in Seq(Message)
  OBVIOUS
<1>9. Holds(b, SubSeq(sent, 1, m))
  BY <1>6, <1>8, SaysHolds
<1>10. LOwes'
  BY <1>1, <1>6, <1>9 DEF LOwes
<1>11. incoming' \in Seq(Message)
  <2>1. g.says \in Seq(Message)
    BY <1>6 DEF Holds
  <2>. QED BY <1>1, <2>1, ConcatProperties DEF LType
<1>12. IsSeq(queue')
  BY <1>1, <1>2, TailIs
<1>13. Reading(call')
  BY <1>1, DisturbedReads DEF LType
<1>. QED BY <1>1, <1>10, <1>11, <1>12, <1>13 DEF LType

-----------------------------------------------------------------------------
(***************************************************************************)
(* Every load of the device's is one that was sent.                         *)
(***************************************************************************)

LEMMA ServeKeeps ==
  ASSUME LType, LOwes, Serve PROVE LType' /\ LOwes'
<1>1. ASSUME NEW w \in Writes, apply_cbor(w[1], w[2]) PROVE LType' /\ LOwes'
  BY <1>1, CborKeeps
<1>2. ASSUME NEW target, navigate_to(target) PROVE LType' /\ LOwes'
  BY <1>2, NavigateKeeps
<1>3. ASSUME NEW k, ReplyTimesOut(k) PROVE LType' /\ LOwes'
  BY <1>3, TimesOutKeeps
<1>4. CASE \/ StartRow \/ Hear \/ TimerElapses \/ Lose \/ PlayerSteps
  BY <1>4, StartRowKeeps, HearKeeps, TimerKeeps, LoseKeeps, PlayerKeeps
<1>5. CASE WriteItem
  BY <1>5, WriteKeeps
<1>6. CASE \/ \E s \in Settings : Set(s)
           \/ \E c \in Commands : Command(c)
           \/ \E ask \in Asks : Read(ask)
  BY <1>6, SetKeeps, CommandKeeps, ReadKeeps
<1>. QED BY <1>1, <1>2, <1>3, <1>4, <1>5, <1>6 DEF Serve

LEMMA LInvInit == Init => LInv
<1> SUFFICES ASSUME Init PROVE LInv
  OBVIOUS
<1>1. /\ queue = <<>> /\ incoming = <<>> /\ sent = <<>> /\ tree = NewTree /\ call = NoCall
      /\ \E mute \in Mutes : gear = NewGear(0, mute)
  BY DEF Init, SurfaceInit
<1>2. /\ <<>> \in Seq(Message) /\ <<>> \in Seq(Rigs) /\ Len(<<>>) = 0
      /\ SubSeq(<<>>, 1, 0) = <<>>
  OBVIOUS
<1>3. IsSeq(<<>>)
  BY <1>2 DEF IsSeq
<1>4. Grows(tree, tree) /\ ~tree.stream_open
  BY <1>1 DEF NewTree, Grows
<1>5. Holds(gear, <<>>)
  <2>1. 0 \in 0 .. RigCount - 1
    BY SurfaceAssumption
  <2>2. Params(0) \in [NumAddresses -> 0 .. FULL_SCALE]
    BY <2>1, ParamsFit
  <2>. QED BY <1>1, <1>2, <2>2 DEF NewGear, Holds
<1>6. LType
  BY <1>1, <1>2, <1>3, <1>4, NoCallReads DEF LType
<1>7. LOwes
  <2>1. 0 \in 0 .. Len(sent) /\ SubSeq(sent, 1, 0) = <<>>
    BY <1>1
  <2>2. Holds(gear, SubSeq(sent, 1, 0))
    BY <1>5, <2>1
  <2>. QED BY <1>4, <2>1, <2>2 DEF LOwes
<1>. QED BY <1>1, <1>4, <1>6, <1>7 DEF LInv, LIdle

\* What begins on the stream begins with nothing sent.
LEMMA OpenedKeeps == ASSUME LInv, Opened PROVE LInv'
<1>1. /\ client.at = "open" /\ client'.at = "handed"
      /\ tree' = [tree EXCEPT !.stream_open = TRUE]
      /\ queue' = queue /\ gear' = gear /\ incoming' = incoming /\ call' = call /\ sent' = sent
  BY DEF Opened, Idle
<1>2. queue = <<>> /\ sent = <<>>
  BY <1>1 DEF LInv, LIdle
<1>3. Grows(tree', tree')
  BY <1>1 DEF LInv, LType, Grows
<1>4. PICK n \in 0 .. Len(sent) : Holds(gear, SubSeq(sent, 1, n))
  BY DEF LInv, LOwes
<1>5. n = Len(sent) /\ sent \in Seq(Rigs)
  BY <1>2, <1>4 DEF LInv, LType
<1>6. Owes(<<>>, Len(sent), sent)
  BY <1>5, OwesNothing
<1>7. LOwes'
  BY <1>1, <1>2, <1>4, <1>5, <1>6 DEF LOwes
<1>. QED BY <1>1, <1>3, <1>7 DEF LInv, LType, LIdle

LEMMA LInvStep ==
  ASSUME LInv, [Next]_vars PROVE LInv'
<1>1. CASE Opened
  BY <1>1, OpenedKeeps
<1>2. CASE client.at = "handed" /\ Serve /\ UNCHANGED <<discovery, opening>>
  <2>1. client' = client
    BY <1>2 DEF opening
  <2>. QED BY <1>2, <2>1, ServeKeeps DEF LInv, LIdle
<1>3. CASE UNCHANGED surface /\ (client.at = "handed" => client'.at = "handed")
  <2>1. /\ queue' = queue /\ gear' = gear /\ incoming' = incoming /\ tree' = tree
        /\ call' = call /\ sent' = sent
    BY <1>3 DEF surface
  <2>. QED BY <1>3, <2>1 DEF LInv, LType, LOwes, LIdle
<1>4. ASSUME NEW ip \in Found, NEW kind \in {"stream", "control"}, Connect(ip, kind)
      PROVE  UNCHANGED surface /\ client.at = "idle"
  BY <1>4 DEF Connect, Dial
<1>5. OpenStep => client.at # "handed"
  BY DEF OpenStep, DialEnds, Elapses, Eof, Reads, Open
<1>6. PeerStep => client' = client
  BY DEF PeerStep, Greets, Answers, Streams, HangsUp
<1>7. (\/ UNCHANGED vars
       \/ Tick /\ Finding
       \/ client.at = "idle" /\ Discover /\ Finding)
        => UNCHANGED surface /\ client' = client
  BY DEF vars, Finding, opening
<1>8. \/ Opened
      \/ client.at = "handed" /\ Serve /\ UNCHANGED <<discovery, opening>>
      \/ UNCHANGED surface /\ (client.at = "handed" => client'.at = "handed")
  <2>1. CASE OpenStep /\ Opens
    BY <1>5, <2>1 DEF Opens
  <2>2. CASE PeerStep /\ Opens
    BY <1>6, <2>2 DEF Opens
  <2>3. CASE \E ip \in Found, kind \in {"stream", "control"} : Connect(ip, kind)
    BY <1>4, <2>3
  <2>4. CASE \/ UNCHANGED vars
             \/ Tick /\ Finding
             \/ client.at = "idle" /\ Discover /\ Finding
    BY <1>7, <2>4
  <2>. QED BY <2>1, <2>2, <2>3, <2>4 DEF Next
<1>. QED BY <1>1, <1>2, <1>3, <1>8

\* What the device has loaded is the first of what the Navigator sent.
LEMMA LInvAims == LInv => LoadsAreAimed
<1> SUFFICES ASSUME LInv PROVE LoadsAreAimed
  OBVIOUS
<1>1. sent \in Seq(Rigs)
  BY DEF LInv, LType
<1>2. PICK n \in 0 .. Len(sent) : Holds(gear, SubSeq(sent, 1, n))
  BY DEF LInv, LOwes
<1> DEFINE l == SubSeq(sent, 1, n)
<1>3. gear.loads = l
  BY <1>2 DEF Holds
<1>4. Len(l) = n
  <2>1. 1 \in Nat /\ n \in Nat /\ 1 <= 1 /\ 1 <= n + 1 /\ n <= Len(sent)
    BY <1>1
  <2>2. Len(l) = (n - 1) + 1
    BY <1>1, <2>1, Cut
  <2>. QED BY <2>1, <2>2
<1> HIDE DEF l
<1>5. SubSeq(l, 1, n) = l
  <2>1. l \in Seq(Rigs)
    <3>1. 1 \in Nat /\ n \in Nat /\ 1 <= 1 /\ 1 <= n + 1 /\ n <= Len(sent)
      BY <1>1
    <3>. QED BY <1>1, <3>1, Cut DEF l
  <2>2. 1 \in Nat /\ n \in Nat /\ 1 <= 1 /\ 1 <= n + 1 /\ n <= Len(l)
    BY <1>1, <1>4
  <2> DEFINE x == SubSeq(l, 1, n)
  <2>3. x \in Seq(Rigs) /\ Len(x) = (n - 1) + 1 /\ \A j \in 1 .. (n - 1) + 1 : x[j] = l[(1 + j) - 1]
    BY <2>1, <2>2, Cut
  <2> HIDE DEF x
  <2>4. Len(x) = n /\ \A j \in 1 .. n : x[j] = l[j]
    <3>1. \A j \in 1 .. n : j \in 1 .. (n - 1) + 1 /\ (1 + j) - 1 = j
      BY <2>2
    <3>. QED BY <2>2, <2>3, <3>1
  <2>5. x = l
    BY <1>4, <2>1, <2>3, <2>4, SeqEqual
  <2>. QED BY <2>5 DEF x
<1>6. Len(gear.loads) <= Len(sent)
      /\ SubSeq(gear.loads, 1, Len(gear.loads)) = SubSeq(sent, 1, Len(gear.loads))
  BY <1>1, <1>3, <1>4, <1>5 DEF l
<1>. QED BY <1>6 DEF LoadsAreAimed, IsPrefix

\* Every rig the device loads by our wire is one the Navigator sent, in the
\* order it sent them, whatever else is sent (mod.rs send_raw, send_control;
\* nav.rs send_load).
THEOREM SessionLoadsAreAimed ==
  Spec => []LoadsAreAimed
<1>1. Init => LInv
  BY LInvInit
<1>2. LInv /\ [Next]_vars => LInv'
  BY LInvStep
<1>3. LInv => LoadsAreAimed
  BY LInvAims
<1>. QED BY <1>1, <1>2, <1>3, PTL DEF Spec

=============================================================================
