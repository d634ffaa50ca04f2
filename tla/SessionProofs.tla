---------------------------- MODULE SessionProofs -----------------------------
(***************************************************************************)
(* Proofs about a session's beginnings: that who is dialed is a device and  *)
(* its stream is handed over from its first byte (Discovery, Opening), and  *)
(* that the Unframer does not care where the stream is cut and hands back   *)
(* what was framed (Wire).                                                  *)
(***************************************************************************)
EXTENDS Session, FiniteSets, FiniteSetTheorems, FunctionTheorems, SequenceTheorems,
        WellFoundedInduction, TLAPS

-----------------------------------------------------------------------------
(***************************************************************************)
(* Sequences.                                                               *)
(***************************************************************************)

JoinStep(s, t) == s \o t
OfBytes(s)     == s \in Seq(Byte)
Joins == INSTANCE Folding WITH step <- JoinStep, Keeps <- OfBytes

LEMMA Least ==
  ASSUME NEW S \in SUBSET Nat, S # {}
  PROVE  Min(S) \in S /\ \A y \in S : Min(S) <= y
<1>1. \E x \in S : \A y \in S : x <= y
  BY Joins!FirstOf
<1>. QED BY <1>1 DEF Min

LEMMA SeqWider == ASSUME NEW S, NEW T, S \subseteq T, NEW s \in Seq(S) PROVE s \in Seq(T)
<1>1. Len(s) \in Nat /\ s = [i \in 1 .. Len(s) |-> s[i]] /\ \A i \in 1 .. Len(s) : s[i] \in T
  OBVIOUS
<1>. QED BY <1>1

LEMMA Joined ==
  ASSUME NEW S, NEW a \in Seq(S), NEW b \in Seq(S)
  PROVE  /\ a \o b \in Seq(S) /\ Len(a \o b) = Len(a) + Len(b)
         /\ \A i \in 1 .. Len(a) : (a \o b)[i] = a[i]
         /\ \A i \in 1 .. Len(b) : (a \o b)[Len(a) + i] = b[i]
<1>1. /\ a \o b \in Seq(S) /\ Len(a \o b) = Len(a) + Len(b)
      /\ \A i \in 1 .. Len(a) + Len(b) :
           (a \o b)[i] = IF i <= Len(a) THEN a[i] ELSE b[i - Len(a)]
  BY ConcatProperties
<1>2. Len(a) \in Nat /\ Len(b) \in Nat
  OBVIOUS
<1> DEFINE c == a \o b
<1> HIDE DEF c
<1>3. \A i \in 1 .. Len(a) : c[i] = a[i]
  BY <1>1, <1>2 DEF c
<1>4. ASSUME NEW i \in 1 .. Len(b) PROVE c[Len(a) + i] = b[i]
  <2>1. Len(a) + i \in 1 .. Len(a) + Len(b) /\ ~ (Len(a) + i <= Len(a)) /\ (Len(a) + i) - Len(a) = i
    BY <1>2
  <2>. QED BY <1>1, <2>1 DEF c
<1>. QED BY <1>1, <1>3, <1>4 DEF c

LEMMA Cut ==
  ASSUME NEW S, NEW s \in Seq(S), NEW a \in Nat, NEW b \in Nat, 1 <= a, a <= b + 1, b <= Len(s)
  PROVE  /\ SubSeq(s, a, b) \in Seq(S) /\ Len(SubSeq(s, a, b)) = (b - a) + 1
         /\ \A i \in 1 .. (b - a) + 1 : SubSeq(s, a, b)[i] = s[(a + i) - 1]
BY SubSeqProperties

LEMMA CutOfNat ==
  ASSUME NEW s \in Seq(Nat), NEW a \in Nat, NEW b \in Nat, 1 <= a, a <= b + 1, b <= Len(s)
  PROVE  /\ SubSeq(s, a, b) \in Seq(Nat) /\ Len(SubSeq(s, a, b)) = (b - a) + 1
         /\ \A i \in 1 .. (b - a) + 1 : SubSeq(s, a, b)[i] = s[(a + i) - 1]
BY Cut

LEMMA PairAt ==
  ASSUME NEW S, NEW b \in Seq(S), NEW i \in 1 .. Len(b) - 1
  PROVE  SubSeq(b, i, i + 1) = CRLF <=> b[i] = 13 /\ b[i + 1] = 10
<1> DEFINE s == SubSeq(b, i, i + 1)
<1>1. s \in Seq(S) /\ Len(s) = 2 /\ s[1] = b[i] /\ s[2] = b[i + 1]
  BY SubSeqProperties
<1>2. CRLF = <<13, 10>> /\ Len(CRLF) = 2 /\ CRLF[1] = 13 /\ CRLF[2] = 10
  BY DEF CRLF
<1> HIDE DEF s
<1>3. s = CRLF => b[i] = 13 /\ b[i + 1] = 10
  BY <1>1, <1>2
<1>4. ASSUME b[i] = 13, b[i + 1] = 10 PROVE s = CRLF
  <2>1. s = <<s[1], s[2]>>
    BY <1>1
  <2>. QED BY <2>1, <1>1, <1>2, <1>4
<1>. QED BY <1>3, <1>4 DEF s

\* What follows a cut is unmoved by what comes after.
LEMMA CutOfJoined ==
  ASSUME NEW S, NEW a \in Seq(S), NEW b \in Seq(S), NEW m \in 1 .. Len(a) + 1
  PROVE  /\ SubSeq(a, m, Len(a)) \in Seq(S)
         /\ SubSeq(a \o b, m, Len(a \o b)) = SubSeq(a, m, Len(a)) \o b
<1> DEFINE c == a \o b
           t == SubSeq(a, m, Len(a))
           l == SubSeq(c, m, Len(c))
           r == t \o b
<1>1. /\ c \in Seq(S) /\ Len(c) = Len(a) + Len(b)
      /\ \A i \in 1 .. Len(a) + Len(b) : c[i] = IF i <= Len(a) THEN a[i] ELSE b[i - Len(a)]
  BY ConcatProperties
<1>2. /\ t \in Seq(S) /\ Len(t) = Len(a) - m + 1
      /\ \A i \in 1 .. Len(a) - m + 1 : t[i] = a[m + i - 1]
  BY SubSeqProperties
<1> HIDE DEF c, t
<1>3. /\ l \in Seq(S) /\ Len(l) = Len(c) - m + 1
      /\ \A i \in 1 .. Len(c) - m + 1 : l[i] = c[m + i - 1]
  <2>1. m \in Int /\ Len(c) \in Int /\ \A i \in m .. Len(c) : c[i] \in S
    BY <1>1
  <2>2. m <= Len(c) \/ Len(c) - m + 1 = 0
    BY <1>1
  <2>. QED BY <2>1, <2>2, SubSeqProperties
<1>4. /\ r \in Seq(S) /\ Len(r) = Len(t) + Len(b)
      /\ \A i \in 1 .. Len(t) + Len(b) : r[i] = IF i <= Len(t) THEN t[i] ELSE b[i - Len(t)]
  BY <1>2, ConcatProperties
<1> HIDE DEF l, r
<1>5. Len(l) = Len(r)
  BY <1>1, <1>2, <1>3, <1>4
<1>6. ASSUME NEW i \in 1 .. Len(l) PROVE l[i] = r[i]
  <2>1. /\ i \in 1 .. Len(c) - m + 1 /\ i \in 1 .. Len(t) + Len(b)
        /\ m + i - 1 \in 1 .. Len(a) + Len(b)
    BY <1>1, <1>2, <1>3
  <2>2. /\ l[i] = c[m + i - 1]
        /\ r[i] = IF i <= Len(t) THEN t[i] ELSE b[i - Len(t)]
        /\ c[m + i - 1] = IF m + i - 1 <= Len(a) THEN a[m + i - 1] ELSE b[m + i - 1 - Len(a)]
    <3>1. l[i] = c[m + i - 1]
      BY <1>3, <2>1
    <3>2. r[i] = IF i <= Len(t) THEN t[i] ELSE b[i - Len(t)]
      BY <1>4, <2>1
    <3> DEFINE j == m + i - 1
    <3> HIDE DEF j
    <3>3. j \in 1 .. Len(a) + Len(b)
      BY <2>1 DEF j
    <3>4. c[j] = IF j <= Len(a) THEN a[j] ELSE b[j - Len(a)]
      BY <1>1, <3>3
    <3>. QED BY <3>1, <3>2, <3>4 DEF j
  <2>3. CASE i <= Len(t)
    <3>1. i \in 1 .. Len(a) - m + 1 /\ m + i - 1 <= Len(a)
      BY <1>2, <2>3
    <3>2. t[i] = a[m + i - 1]
      BY <1>2, <3>1
    <3>. QED BY <2>2, <2>3, <3>1, <3>2
  <2>4. CASE ~(i <= Len(t))
    <3>1. ~(m + i - 1 <= Len(a)) /\ m + i - 1 - Len(a) = i - Len(t)
      BY <1>2, <2>4
    <3>2. c[m + i - 1] = b[m + i - 1 - Len(a)]
      BY <2>2, <3>1
    <3>3. r[i] = b[i - Len(t)]
      BY <2>2, <2>4
    <3>. QED BY <2>2, <3>1, <3>2, <3>3
  <2>. QED BY <2>3, <2>4
<1>7. l = r
  BY <1>3, <1>4, <1>5, <1>6, SeqEqual
<1>. QED BY <1>2, <1>7 DEF l, r, t, c

\* The rank of every element of a finite set of positions is taken.
LEMMA RankTaken ==
  ASSUME NEW m \in Nat, NEW S \in SUBSET (1 .. m), NEW n \in 1 .. Cardinality(S)
  PROVE  \E i \in S : Cardinality({j \in S : j <= i}) = n
<1> DEFINE upto(i) == {j \in S : j <= i}
           c == Cardinality(S)
           T == {k \in 0 .. c - 1 : \E i \in S : Cardinality(upto(i)) = c - k}
<1>1. IsFiniteSet(S) /\ c \in Nat
  <2>1. IsFiniteSet(1 .. m)
    BY FS_Interval
  <2>. QED BY <2>1, FS_Subset, FS_CardinalityType
<1>2. \A i \in S : IsFiniteSet(upto(i)) /\ Cardinality(upto(i)) \in Nat
  BY <1>1, FS_Subset, FS_CardinalityType
<1>3. 0 \in T
  <2>1. S # {}
    BY <1>1, FS_EmptySet
  <2>2. PICK i \in S : \A y \in S : y <= i
    BY <2>1, Joins!LastOf
  <2>3. upto(i) = S
    BY <2>2
  <2>4. Cardinality(upto(i)) = c - 0 /\ 0 \in 0 .. c - 1
    BY <2>3, <1>1
  <2>. QED BY <2>4
<1>4. ASSUME NEW k \in 0 .. (c - 1) - 1, k \in T PROVE k + 1 \in T
  <2>1. PICK i \in S : Cardinality(upto(i)) = c - k
    BY <1>4
  <2> DEFINE below == upto(i) \ {i}
  <2>0. i \in S /\ i \in Nat /\ S \subseteq 1 .. m
    OBVIOUS
  <2>2. /\ i \in upto(i)
        /\ below \subseteq 1 .. m
        /\ below \subseteq S
    <3>1. upto(i) \subseteq S
      OBVIOUS
    <3>2. i <= i
      BY <2>0
    <3>. QED BY <2>0, <3>1, <3>2
  <2>3. IsFiniteSet(below) /\ Cardinality(below) = Cardinality(upto(i)) - 1
    BY <1>2, <2>2, FS_RemoveElement
  <2>4. Cardinality(below) = c - (k + 1) /\ Cardinality(below) # 0
    BY <1>1, <2>1, <2>3
  <2>5. below # {}
    BY <2>4, FS_EmptySet
  <2>6. PICK j \in below : \A y \in below : y <= j
    BY <2>2, <2>5, Joins!LastOf
  <2>7. upto(j) = below
    <3>1. \A y \in S : y <= i /\ y # i => y <= j
      BY <2>6
    <3>2. j \in S /\ j <= i /\ j # i
      BY <2>6
    <3>3. \A y \in S : y \in Nat
      BY <2>0
    <3>4. \A y \in S : y <= j <=> y <= i /\ y # i
      BY <2>0, <3>1, <3>2, <3>3
    <3>. QED BY <3>4
  <2>8. j \in S /\ Cardinality(upto(j)) = c - (k + 1)
    BY <2>2, <2>4, <2>6, <2>7
  <2>. HIDE DEF upto
  <2>. QED BY <1>1, <2>8
<1>5. c - n \in 0 .. c - 1 /\ c - 1 \in Nat
  BY <1>1
<1> HIDE DEF T
<1>6. 0 .. c - 1 \subseteq T
  BY <1>3, <1>4, <1>5, Joins!Induction
<1>7. PICK i \in S : Cardinality(upto(i)) = c - (c - n)
  BY <1>5, <1>6 DEF T
<1>8. Cardinality(upto(i)) = n
  BY <1>1, <1>7
<1>. QED BY <1>8

-----------------------------------------------------------------------------
(***************************************************************************)
(* Folds.  An instance of Folding is one step and what it keeps.            *)
(***************************************************************************)

LEMMA ConcatIsFold == ASSUME NEW s PROVE Concat(s) = Joins!Folded(<<>>, s)
BY DEF Concat, Through, Joins!Folded, JoinStep

LEMMA JoinRuns ==
  ASSUME NEW s, Len(s) \in Nat
  PROVE  \E f : /\ f[0] = <<>>
                /\ \A i \in 1 .. Len(s) : f[i] = JoinStep(f[i - 1], s[i])
                /\ Concat(s) = f[Len(s)]
BY Joins!FoldRuns, ConcatIsFold

\* A sequence made of others is one of what they are of.
LEMMA ConcatOfBytes ==
  ASSUME NEW s, Len(s) \in Nat, \A i \in 1 .. Len(s) : s[i] \in Seq(Byte)
  PROVE  Concat(s) \in Seq(Byte)
<1>1. OfBytes(<<>>)
  BY DEF OfBytes
<1>2. ASSUME NEW v, NEW i \in 1 .. Len(s), OfBytes(v) PROVE OfBytes(JoinStep(v, s[i]))
  <2>1. v \in Seq(Byte) /\ s[i] \in Seq(Byte)
    BY <1>2 DEF OfBytes
  <2>. QED BY <2>1, ConcatProperties DEF OfBytes, JoinStep
<1>3. OfBytes(Joins!Folded(<<>>, s))
  BY <1>1, <1>2, Joins!FoldKeeps
<1>. QED BY <1>3, ConcatIsFold DEF OfBytes

\* The fields of a tag stream.
TakeStep(p, byte) == FieldTaken(p)
Takes == INSTANCE Folding WITH step <- TakeStep, Keeps <- OfBytes

LEMMA KeyValues ==
  ASSUME NEW buf
  PROVE  LET begun  == [rest |-> SubSeq(buf, detect_header(buf) + 1, Len(buf)),
                        fields |-> {}, overrun |-> FALSE]
             parsed == Takes!Folded(begun, begun.rest)
         IN  key_values(buf) =
               IF parsed.overrun THEN {}
               ELSE {f \in parsed.fields : Len(f) >= 4 /\ Graphic(SubSeq(f, 1, 4))}
BY DEF key_values, Through, Takes!Folded, TakeStep

\* A field that fits is taken, and what follows it is left.
LEMMA FieldFits ==
  ASSUME NEW p, p \in [rest : Seq(Nat), fields : SUBSET Seq(Nat), overrun : {FALSE}],
         NEW k \in Nat \ {0}, p.rest # <<>>, p.rest[1] = k, k <= Len(p.rest)
  PROVE  /\ FieldTaken(p) \in [rest : Seq(Nat), fields : SUBSET Seq(Nat), overrun : {FALSE}]
         /\ FieldTaken(p).rest = SubSeq(p.rest, k + 1, Len(p.rest))
         /\ SubSeq(p.rest, 2, k) \in FieldTaken(p).fields
<1>1. Head(p.rest) = k
  OBVIOUS
<1>2. SubSeq(p.rest, 2, k) \in Seq(Nat) /\ SubSeq(p.rest, k + 1, Len(p.rest)) \in Seq(Nat)
  BY SubSeqProperties
<1> DEFINE rest   == SubSeq(p.rest, k + 1, Len(p.rest))
           fields == p.fields \union {SubSeq(p.rest, 2, k)}
           after  == [p EXCEPT !.fields = fields, !.rest = rest]
<1>3. p.overrun = FALSE /\ p.rest \in Seq(Nat) /\ p.fields \subseteq Seq(Nat)
  OBVIOUS
<1>4. k # 0 /\ ~ (k > Len(p.rest))
  BY <1>3
<1>5. FieldTaken(p) = after
  BY <1>1, <1>3, <1>4 DEF FieldTaken
<1>6. rest \in Seq(Nat) /\ fields \in SUBSET Seq(Nat) /\ SubSeq(p.rest, 2, k) \in fields
  BY <1>2, <1>3
<1> HIDE DEF rest, fields
<1>7. /\ after \in [rest : Seq(Nat), fields : SUBSET Seq(Nat), overrun : {FALSE}]
      /\ after.rest = rest /\ after.fields = fields
  BY <1>6
<1>8. /\ FieldTaken(p) \in [rest : Seq(Nat), fields : SUBSET Seq(Nat), overrun : {FALSE}]
      /\ FieldTaken(p).rest = rest /\ SubSeq(p.rest, 2, k) \in FieldTaken(p).fields
  BY <1>5, <1>6, <1>7
<1>. QED BY <1>8 DEF rest

\* The bytes of a poll.
LEMMA PollBytes ==
  LET poll == build_poll_request(MAC)
      n    == Len(MAC)
  IN  /\ n \in Nat /\ poll \in Seq(Nat) /\ Len(poll) = n + 17
      /\ poll[1] = 68 /\ poll[2] = 83 /\ poll[3] = 67 /\ poll[4] = 86 /\ poll[5] = n + 5
      /\ poll[n + 10] = 7 /\ poll[n + 11] = 80 /\ poll[n + 12] = 79 /\ poll[n + 13] = 76
      /\ poll[n + 14] = 76 /\ poll[n + 17] = 0
<1> DEFINE n    == Len(MAC)
           one  == POLL_MAC_PREFIX \o MAC
           f    == <<n + 5>> \o one
           g    == <<7, 80, 79, 76, 76, 58, 41>>
           head == DISCOVERY_HEADER \o f
           most == head \o g
<1>1. n \in Nat /\ MAC \in Seq(Nat)
  <2>1. Byte \subseteq Nat /\ MAC \in Seq(Byte)
    BY DiscoveryAssumption DEF Byte
  <2>2. MAC \in Seq(Nat)
    BY <2>1, SeqWider
  <2>. QED BY <2>2
<1>2. one \in Seq(Nat) /\ Len(one) = n + 4
  <2>1. POLL_MAC_PREFIX \in Seq(Nat) /\ Len(POLL_MAC_PREFIX) = 4
    BY DEF POLL_MAC_PREFIX
  <2>2. one \in Seq(Nat) /\ Len(one) = Len(POLL_MAC_PREFIX) + Len(MAC)
    BY <1>1, <2>1, Joined
  <2>. QED BY <1>1, <2>1, <2>2
<1>3. f = field(POLL_MAC_PREFIX \o MAC) /\ g = field(POLL_PAYLOAD)
  <2>1. Len(one) + 1 = n + 5
    BY <1>1, <1>2
  <2>2. Len(POLL_PAYLOAD) + 1 = 7
    BY DEF POLL_PAYLOAD
  <2>3. g = <<7>> \o POLL_PAYLOAD
    BY DEF POLL_PAYLOAD
  <2>4. f = field(POLL_MAC_PREFIX \o MAC)
    BY <2>1 DEF field
  <2>5. g = field(POLL_PAYLOAD)
    BY <2>2, <2>3 DEF field
  <2>. QED BY <2>4, <2>5
<1> HIDE DEF one
<1>4. f \in Seq(Nat) /\ Len(f) = n + 5 /\ f[1] = n + 5
  <2> DEFINE l == <<n + 5>>
  <2>1. l \in Seq(Nat) /\ Len(l) = 1 /\ l[1] = n + 5
    BY <1>1
  <2> HIDE DEF l
  <2>2. /\ l \o one \in Seq(Nat) /\ Len(l \o one) = Len(l) + Len(one)
        /\ \A i \in 1 .. Len(l) : (l \o one)[i] = l[i]
    BY <1>2, <2>1, Joined
  <2>. QED BY <1>1, <1>2, <2>1, <2>2 DEF l
<1> HIDE DEF f, n
<1>5. /\ head \in Seq(Nat) /\ Len(head) = n + 9
      /\ head[1] = 68 /\ head[2] = 83 /\ head[3] = 67 /\ head[4] = 86 /\ head[5] = n + 5
  <2>1. /\ DISCOVERY_HEADER \in Seq(Nat) /\ Len(DISCOVERY_HEADER) = 4
        /\ DISCOVERY_HEADER[1] = 68 /\ DISCOVERY_HEADER[2] = 83
        /\ DISCOVERY_HEADER[3] = 67 /\ DISCOVERY_HEADER[4] = 86
    BY DEF DISCOVERY_HEADER
  <2>2. /\ head \in Seq(Nat) /\ Len(head) = Len(DISCOVERY_HEADER) + Len(f)
        /\ \A i \in 1 .. Len(DISCOVERY_HEADER) : head[i] = DISCOVERY_HEADER[i]
        /\ \A i \in 1 .. Len(f) : head[Len(DISCOVERY_HEADER) + i] = f[i]
    <3>1. DISCOVERY_HEADER \in Seq(Nat) /\ f \in Seq(Nat)
      BY <1>4, <2>1
    <3>. QED BY <3>1, Joined
  <2> HIDE DEF head
  <2>3. head[4 + 1] = f[1]
    BY <1>1, <1>4, <2>1, <2>2
  <2>. QED BY <1>1, <1>4, <2>1, <2>2, <2>3
<1> HIDE DEF head
<1>6. /\ g \in Seq(Nat) /\ Len(g) = 7 /\ g[1] = 7 /\ g[2] = 80 /\ g[3] = 79 /\ g[4] = 76
      /\ g[5] = 76
  OBVIOUS
<1> HIDE DEF g
<1>7. /\ most \in Seq(Nat) /\ Len(most) = n + 16
      /\ \A i \in 1 .. n + 9 : most[i] = head[i]
      /\ \A i \in 1 .. 7 : most[n + 9 + i] = g[i]
  <2>1. /\ most \in Seq(Nat) /\ Len(most) = Len(head) + Len(g)
        /\ \A i \in 1 .. Len(head) : most[i] = head[i]
        /\ \A i \in 1 .. Len(g) : most[Len(head) + i] = g[i]
    <3>1. head \in Seq(Nat) /\ g \in Seq(Nat)
      BY <1>5, <1>6
    <3>. QED BY <3>1, Joined
  <2> HIDE DEF most
  <2>. QED BY <1>1, <1>5, <1>6, <2>1
<1>8. /\ most[1] = 68 /\ most[2] = 83 /\ most[3] = 67 /\ most[4] = 86 /\ most[5] = n + 5
      /\ most[n + 10] = 7 /\ most[n + 11] = 80 /\ most[n + 12] = 79 /\ most[n + 13] = 76
      /\ most[n + 14] = 76
  <2> HIDE DEF most
  <2>0. /\ 1 \in 1 .. n + 9 /\ 2 \in 1 .. n + 9 /\ 3 \in 1 .. n + 9 /\ 4 \in 1 .. n + 9
        /\ 5 \in 1 .. n + 9
    BY <1>1
  <2>1. /\ most[1] = head[1] /\ most[2] = head[2] /\ most[3] = head[3]
        /\ most[4] = head[4] /\ most[5] = head[5]
    BY <2>0, <1>7
  <2>2. /\ most[n + 9 + 1] = g[1] /\ most[n + 9 + 2] = g[2] /\ most[n + 9 + 3] = g[3]
        /\ most[n + 9 + 4] = g[4] /\ most[n + 9 + 5] = g[5]
    BY <1>7
  <2>3. /\ n + 9 + 1 = n + 10 /\ n + 9 + 2 = n + 11 /\ n + 9 + 3 = n + 12
        /\ n + 9 + 4 = n + 13 /\ n + 9 + 5 = n + 14
    BY <1>1
  <2>. QED BY <1>5, <1>6, <2>1, <2>2, <2>3
<1> DEFINE poll == most \o <<0>>
<1>9. build_poll_request(MAC) = poll
  BY <1>3 DEF build_poll_request, head, most
<1> HIDE DEF most
<1>10. /\ poll \in Seq(Nat) /\ Len(poll) = n + 17 /\ poll[n + 17] = 0
       /\ \A i \in 1 .. n + 16 : poll[i] = most[i]
  <2> DEFINE z == <<0>>
  <2>1. z \in Seq(Nat) /\ Len(z) = 1 /\ z[1] = 0
    OBVIOUS
  <2> HIDE DEF z
  <2>2. /\ most \o z \in Seq(Nat) /\ Len(most \o z) = Len(most) + Len(z)
        /\ \A i \in 1 .. Len(most) : (most \o z)[i] = most[i]
        /\ \A i \in 1 .. Len(z) : (most \o z)[Len(most) + i] = z[i]
    <3>1. most \in Seq(Nat) /\ z \in Seq(Nat)
      BY <1>7, <2>1
    <3>. QED BY <3>1, Joined
  <2>3. poll = most \o z
    BY DEF z
  <2> HIDE DEF poll
  <2>4. 1 \in 1 .. Len(z) /\ Len(most) + 1 = n + 17
    BY <1>1, <1>7, <2>1
  <2>5. poll[n + 17] = 0
    BY <2>1, <2>2, <2>3, <2>4
  <2>6. poll \in Seq(Nat) /\ Len(poll) = n + 17
    BY <1>1, <1>7, <2>1, <2>2, <2>3
  <2>7. \A i \in 1 .. n + 16 : poll[i] = most[i]
    BY <1>7, <2>2, <2>3
  <2>. QED BY <2>5, <2>6, <2>7
<1> HIDE DEF poll
<1>11. /\ poll[1] = 68 /\ poll[2] = 83 /\ poll[3] = 67 /\ poll[4] = 86 /\ poll[5] = n + 5
       /\ poll[n + 10] = 7 /\ poll[n + 11] = 80 /\ poll[n + 12] = 79 /\ poll[n + 13] = 76
       /\ poll[n + 14] = 76
  <2>1. /\ 1 \in 1 .. n + 16 /\ 2 \in 1 .. n + 16 /\ 3 \in 1 .. n + 16 /\ 4 \in 1 .. n + 16
        /\ 5 \in 1 .. n + 16 /\ n + 10 \in 1 .. n + 16 /\ n + 11 \in 1 .. n + 16
        /\ n + 12 \in 1 .. n + 16 /\ n + 13 \in 1 .. n + 16 /\ n + 14 \in 1 .. n + 16
    BY <1>1
  <2>2. /\ poll[1] = most[1] /\ poll[2] = most[2] /\ poll[3] = most[3] /\ poll[4] = most[4]
        /\ poll[5] = most[5] /\ poll[n + 10] = most[n + 10] /\ poll[n + 11] = most[n + 11]
        /\ poll[n + 12] = most[n + 12] /\ poll[n + 13] = most[n + 13]
        /\ poll[n + 14] = most[n + 14]
    BY <1>10, <2>1
  <2>. QED BY <1>8, <2>2
<1>. QED BY <1>1, <1>9, <1>10, <1>11 DEF n

\* A poll is known for one, whatever address it carries.
LEMMA FourGraphic ==
  ASSUME NEW s \in Seq(Nat), Len(s) = 4, s[1] \in 33 .. 126, s[2] \in 33 .. 126,
         s[3] \in 33 .. 126, s[4] \in 33 .. 126
  PROVE  Graphic(s)
<1>1. ASSUME NEW i \in DOMAIN s PROVE s[i] \in 33 .. 126
  <2>1. i = 1 \/ i = 2 \/ i = 3 \/ i = 4
    OBVIOUS
  <2>. QED BY <2>1
<1>. QED BY <1>1 DEF Graphic

LEMMA PollIsPoll == is_poll(build_poll_request(MAC))
<1> DEFINE buf == build_poll_request(MAC)
           n   == Len(MAC)
           St  == [rest : Seq(Nat), fields : SUBSET Seq(Nat), overrun : {FALSE}]
<1>1. /\ n \in Nat /\ buf \in Seq(Nat) /\ Len(buf) = n + 17
      /\ buf[1] = 68 /\ buf[2] = 83 /\ buf[3] = 67 /\ buf[4] = 86 /\ buf[5] = n + 5
      /\ buf[n + 10] = 7 /\ buf[n + 11] = 80 /\ buf[n + 12] = 79 /\ buf[n + 13] = 76
      /\ buf[n + 14] = 76 /\ buf[n + 17] = 0
  BY PollBytes
<1> HIDE DEF buf, n
<1>0. n \in Nat /\ buf \in Seq(Nat) /\ Len(buf) = n + 17
  BY <1>1
<1>2. detect_header(buf) = 4
  <2> DEFINE s == SubSeq(buf, 1, 4)
  <2>1. 4 <= Len(buf) /\ 1 <= 1 /\ 1 <= 4 + 1 /\ (4 - 1) + 1 = 4
    BY <1>0
  <2>2. s \in Seq(Nat) /\ Len(s) = 4 /\ \A i \in 1 .. 4 : s[i] = buf[(1 + i) - 1]
    BY <1>0, <2>1, Cut
  <2> HIDE DEF s
  <2>3. s[1] = 68 /\ s[2] = 83 /\ s[3] = 67 /\ s[4] = 86
    BY <1>1, <2>2
  <2>4. Graphic(s)
    BY <2>2, <2>3, FourGraphic
  <2>5. Len(buf) >= 5 /\ 4 + buf[5] <= Len(buf)
    BY <1>0, <1>1
  <2>. QED BY <2>4, <2>5 DEF detect_header, s
<1> DEFINE r0 == SubSeq(buf, 5, Len(buf))
           begun == [rest |-> r0, fields |-> {}, overrun |-> FALSE]
<1>3. r0 \in Seq(Nat) /\ Len(r0) = n + 13 /\ \A i \in 1 .. n + 13 : r0[i] = buf[i + 4]
  <2>1. /\ Len(buf) \in Nat /\ 5 <= Len(buf) + 1 /\ 1 <= 5 /\ (Len(buf) - 5) + 1 = n + 13
        /\ \A i \in 1 .. n + 13 : (5 + i) - 1 = i + 4
    BY <1>0
  <2>2. /\ r0 \in Seq(Nat) /\ Len(r0) = (Len(buf) - 5) + 1
        /\ \A i \in 1 .. (Len(buf) - 5) + 1 : r0[i] = buf[(5 + i) - 1]
    BY <1>0, <2>1, Cut
  <2>. QED BY <2>1, <2>2
<1> HIDE DEF r0
<1>4. begun \in St /\ begun.rest = r0
  BY <1>3
<1> HIDE DEF begun
<1>5. PICK g : /\ g[0] = begun
               /\ \A i \in 1 .. Len(r0) : g[i] = TakeStep(g[i - 1], r0[i])
               /\ Takes!Folded(begun, r0) = g[Len(r0)]
  <2>1. Len(r0) \in Nat
    BY <1>3
  <2>. QED BY <2>1, Takes!FoldRuns
<1>6. \A i \in 1 .. Len(r0) : g[i] = FieldTaken(g[i - 1])
  BY <1>5 DEF TakeStep
<1> DEFINE r1 == SubSeq(r0, n + 6, n + 13)
<1>7. g[1] \in St /\ g[1].rest = r1
  <2>1. r0[1] = n + 5 /\ n + 5 \in Nat \ {0} /\ r0 # <<>> /\ n + 5 <= Len(r0)
    <3>1. 1 \in 1 .. n + 13
      BY <1>1
    <3>2. r0[1] = buf[1 + 4]
      BY <1>3, <3>1
    <3>. QED BY <1>1, <1>3, <3>2
  <2>2. /\ FieldTaken(begun) \in St
        /\ FieldTaken(begun).rest = SubSeq(begun.rest, (n + 5) + 1, Len(begun.rest))
    BY <1>4, <2>1, FieldFits
  <2>3. 1 \in 1 .. Len(r0) /\ g[1 - 1] = begun
    BY <1>1, <1>3, <1>5
  <2>4. g[1] = FieldTaken(begun)
    BY <1>6, <2>3
  <2>5. (n + 5) + 1 = n + 6 /\ Len(begun.rest) = n + 13
    BY <1>1, <1>3, <1>4
  <2>. QED BY <1>4, <2>2, <2>4, <2>5
<1>8. /\ r1 \in Seq(Nat) /\ Len(r1) = 8 /\ r1[1] = 7 /\ r1[2] = 80 /\ r1[3] = 79
      /\ r1[4] = 76 /\ r1[5] = 76 /\ r1[8] = 0
  <2>1. r1 \in Seq(Nat) /\ Len(r1) = 8 /\ \A i \in 1 .. 8 : r1[i] = r0[i + (n + 5)]
    <3>1. /\ n + 6 \in Nat /\ n + 13 \in Nat /\ 1 <= n + 6 /\ n + 6 <= (n + 13) + 1
          /\ ((n + 13) - (n + 6)) + 1 = 8
          /\ \A i \in 1 .. 8 : ((n + 6) + i) - 1 = i + (n + 5)
      BY <1>0
    <3>2. n + 13 <= Len(r0) /\ r0 \in Seq(Nat)
      BY <1>0, <1>3
    <3>3. /\ r1 \in Seq(Nat) /\ Len(r1) = ((n + 13) - (n + 6)) + 1
          /\ \A i \in 1 .. ((n + 13) - (n + 6)) + 1 : r1[i] = r0[((n + 6) + i) - 1]
      BY <3>1, <3>2, Cut
    <3>. QED BY <3>1, <3>3
  <2> HIDE DEF r1
  <2>2. \A i \in 1 .. 8 : r1[i] = buf[i + n + 9]
    <3>1. \A i \in 1 .. 8 : i + (n + 5) \in 1 .. n + 13 /\ (i + (n + 5)) + 4 = i + n + 9
      BY <1>0
    <3>. QED BY <1>3, <2>1, <3>1
  <2>3. /\ 1 + n + 9 = n + 10 /\ 2 + n + 9 = n + 11 /\ 3 + n + 9 = n + 12
        /\ 4 + n + 9 = n + 13 /\ 5 + n + 9 = n + 14 /\ 8 + n + 9 = n + 17
    BY <1>1
  <2>4. /\ r1[1] = buf[1 + n + 9] /\ r1[2] = buf[2 + n + 9] /\ r1[3] = buf[3 + n + 9]
        /\ r1[4] = buf[4 + n + 9] /\ r1[5] = buf[5 + n + 9] /\ r1[8] = buf[8 + n + 9]
    BY <2>2
  <2>. QED BY <1>1, <2>1, <2>3, <2>4
<1> HIDE DEF r1
<1> DEFINE r2 == SubSeq(r1, 8, 8)
           kv == SubSeq(r1, 2, 7)
<1>9. g[2] \in St /\ g[2].rest = r2 /\ kv \in g[2].fields
  <2>1. r1[1] = 7 /\ 7 \in Nat \ {0} /\ r1 # <<>> /\ 7 <= Len(r1)
    BY <1>8
  <2>2. /\ FieldTaken(g[1]) \in St
        /\ FieldTaken(g[1]).rest = SubSeq(g[1].rest, 7 + 1, Len(g[1].rest))
        /\ SubSeq(g[1].rest, 2, 7) \in FieldTaken(g[1]).fields
    BY <1>7, <2>1, FieldFits
  <2>3. 2 \in 1 .. Len(r0) /\ 2 - 1 = 1 /\ 7 + 1 = 8
    BY <1>1, <1>3
  <2>4. g[2] = FieldTaken(g[1])
    BY <1>6, <2>3
  <2>. QED BY <1>7, <1>8, <2>2, <2>3, <2>4
<1>10. r2 = <<0>> /\ r2 # <<>> /\ Head(r2) = 0
  <2>1. r2 \in Seq(Nat) /\ Len(r2) = 1 /\ r2[1] = 0
    BY <1>8, SubSeqProperties
  <2> HIDE DEF r2
  <2>2. r2 = <<r2[1]>>
    BY <2>1
  <2>. QED BY <2>1, <2>2
<1>11. /\ kv \in Seq(Nat) /\ Len(kv) = 6 /\ kv[1] = 80 /\ kv[2] = 79 /\ kv[3] = 76
       /\ kv[4] = 76
  <2>1. /\ kv \in Seq(Nat) /\ Len(kv) = (7 - 2) + 1
        /\ \A i \in 1 .. (7 - 2) + 1 : kv[i] = r1[(2 + i) - 1]
    <3>1. r1 \in Seq(Nat) /\ 2 \in Nat /\ 7 \in Nat /\ 1 <= 2 /\ 2 <= 7 + 1 /\ 7 <= Len(r1)
      BY <1>8
    <3>. QED BY <3>1, CutOfNat
  <2> HIDE DEF kv
  <2>2. kv \in Seq(Nat) /\ Len(kv) = 6 /\ \A i \in 1 .. 6 : kv[i] = r1[i + 1]
    BY <2>1
  <2>3. kv[1] = r1[1 + 1] /\ kv[2] = r1[2 + 1] /\ kv[3] = r1[3 + 1] /\ kv[4] = r1[4 + 1]
    BY <2>2
  <2>. QED BY <1>8, <2>2, <2>3
<1> HIDE DEF r2, kv
<1>12. FieldTaken(g[2]) = g[2]
  BY <1>9, <1>10 DEF FieldTaken
<1> DEFINE T == {k \in 0 .. n + 11 : g[k + 2] = g[2]}
<1>13. n + 11 \in T
  <2>1. 0 \in T
    BY <1>1
  <2>2. ASSUME NEW k \in 0 .. (n + 11) - 1, k \in T PROVE k + 1 \in T
    <3>1. k + 3 \in 1 .. Len(r0) /\ (k + 3) - 1 = k + 2 /\ (k + 1) + 2 = k + 3
      BY <1>1, <1>3
    <3>2. g[k + 3] = FieldTaken(g[k + 2])
      BY <1>6, <3>1
    <3>3. g[k + 2] = g[2]
      BY <2>2
    <3>4. g[k + 3] = g[2]
      BY <1>12, <3>2, <3>3
    <3>5. k + 1 \in 0 .. n + 11
      BY <1>1
    <3>. QED BY <3>1, <3>4, <3>5
  <2>3. n + 11 \in Nat
    BY <1>1
  <2> HIDE DEF T
  <2>. QED BY <2>1, <2>2, <2>3, Joins!Induction
<1>14. Takes!Folded(begun, r0) = g[2]
  <2>1. (n + 11) + 2 = Len(r0)
    BY <1>1, <1>3
  <2>2. g[(n + 11) + 2] = g[2]
    BY <1>13
  <2>. QED BY <1>5, <2>1, <2>2
<1> DEFINE parsed == Takes!Folded(begun, begun.rest)
<1>15. /\ parsed.overrun = FALSE /\ kv \in parsed.fields
  BY <1>4, <1>9, <1>14
<1> DEFINE key == SubSeq(kv, 1, 4)
<1>16. key \in Seq(Nat) /\ Len(key) = 4 /\ key[1] = 80 /\ key[2] = 79 /\ key[3] = 76 /\ key[4] = 76
  BY <1>11, SubSeqProperties
<1>17. key = POLL_KEY
  <2> DEFINE w == POLL_PAYLOAD
  <2>1. /\ w \in Seq(Nat) /\ Len(w) = 6 /\ w[1] = 80 /\ w[2] = 79 /\ w[3] = 76 /\ w[4] = 76
    BY DEF POLL_PAYLOAD
  <2> HIDE DEF w, key
  <2> DEFINE v == SubSeq(w, 1, 4)
  <2>2. v \in Seq(Nat) /\ Len(v) = 4 /\ v[1] = 80 /\ v[2] = 79 /\ v[3] = 76 /\ v[4] = 76
    BY <2>1, SubSeqProperties
  <2> HIDE DEF v
  <2>3. v = <<v[1], v[2], v[3], v[4]>> /\ key = <<key[1], key[2], key[3], key[4]>>
    BY <1>16, <2>2
  <2>. QED BY <1>16, <2>2, <2>3 DEF POLL_KEY, v, w
<1>18. Graphic(key)
  <2> HIDE DEF key
  <2>. QED BY <1>16, FourGraphic
<1>19. key_values(buf) = {f \in parsed.fields : Len(f) >= 4 /\ Graphic(SubSeq(f, 1, 4))}
  <2>1. SubSeq(buf, detect_header(buf) + 1, Len(buf)) = r0
    BY <1>2 DEF r0
  <2>2. key_values(buf) =
          IF parsed.overrun THEN {}
          ELSE {f \in parsed.fields : Len(f) >= 4 /\ Graphic(SubSeq(f, 1, 4))}
    BY <2>1, KeyValues DEF begun
  <2>. QED BY <1>15, <2>2
<1> HIDE DEF parsed
<1>20. kv \in key_values(buf)
  <2>1. kv \in parsed.fields /\ Len(kv) >= 4
    BY <1>11, <1>15
  <2>2. Graphic(SubSeq(kv, 1, 4))
    BY <1>18
  <2> HIDE DEF key, kv
  <2>. QED BY <2>1, <2>2, <1>19, Zenon
<1>. QED BY <1>17, <1>20 DEF is_poll, buf

-----------------------------------------------------------------------------
(***************************************************************************)
(* The Unframer: its loop ends, does not care where the stream is cut, and  *)
(* has no say in what it is told after what it has told.                    *)
(***************************************************************************)

\* More bytes behind, more messages before.
More(u, d)  == [u EXCEPT !.partial = @ \o d]
After(o, u) == [u EXCEPT !.out = o \o @]

LEMMA ValidFits == ASSUME NEW tag PROVE Valid(tag) \in 0 .. 3
BY DEF Valid, TAG_CONT

LEMMA TurnedFits ==
  ASSUME NEW u \in Unframer, ~(Len(u.partial) < 4)
  PROVE  Turned(u) \in Unframer /\ Len(Turned(u).partial) < Len(u.partial)
<1> DEFINE p   == u.partial
           v   == Valid(Head(p))
           now == SubSeq(p, 2, 1 + v)
           cur == u.current \o now
           rest == SubSeq(p, 5, Len(p))
           t   == Tail(p)
<1>1. p \in Seq(Byte) /\ p # <<>> /\ u.current \in Seq(Byte) /\ u.out \in Seq(Seq(Byte))
  BY DEF Unframer
<1>2. v \in 0 .. 3
  BY ValidFits
<1>3. now \in Seq(Byte)
  <2>1. \A i \in 2 .. 1 + v : p[i] \in Byte
    BY <1>1, <1>2
  <2>. HIDE DEF p, v
  <2>. QED BY <1>2, <2>1, SubSeqProperties
<1>4. rest \in Seq(Byte) /\ Len(rest) = Len(p) - 4
  <2>1. p \in Seq(Byte) /\ 5 \in Nat /\ Len(p) \in Nat /\ 1 <= 5 /\ 5 <= Len(p) + 1
        /\ Len(p) <= Len(p) /\ (Len(p) - 5) + 1 = Len(p) - 4
    BY <1>1
  <2> HIDE DEF p
  <2>. QED BY <2>1, Cut
<1>5. t \in Seq(Byte) /\ Len(t) = Len(p) - 1
  BY <1>1, HeadTailProperties
<1>6. cur \in Seq(Byte)
  BY <1>1, <1>3, ConcatProperties
<1>7. Append(u.out, cur) \in Seq(Seq(Byte)) /\ <<>> \in Seq(Byte)
  BY <1>1, <1>6, AppendProperties
<1>8. Turned(u) = IF v = 0 THEN [u EXCEPT !.partial = t, !.current = <<>>]
                  ELSE IF Head(p) = TAG_CONT THEN [u EXCEPT !.partial = rest, !.current = cur]
                  ELSE [partial |-> rest, current |-> <<>>, out |-> Append(u.out, cur)]
  BY DEF Turned
<1>9. Len(p) \in Nat /\ Len(rest) < Len(p) /\ Len(t) < Len(p)
  BY <1>1, <1>4, <1>5
<1> HIDE DEF rest, cur, t, v
<1>10. CASE v = 0
  <2>1. Turned(u) = [u EXCEPT !.partial = t, !.current = <<>>]
    BY <1>8, <1>10
  <2>. QED BY <1>5, <1>7, <1>9, <2>1 DEF Unframer
<1>11. CASE v # 0 /\ Head(p) = TAG_CONT
  <2>1. Turned(u) = [u EXCEPT !.partial = rest, !.current = cur]
    BY <1>8, <1>11
  <2>. QED BY <1>4, <1>6, <1>9, <2>1 DEF Unframer
<1>12. CASE v # 0 /\ Head(p) # TAG_CONT
  <2>1. Turned(u) = [partial |-> rest, current |-> <<>>, out |-> Append(u.out, cur)]
    BY <1>8, <1>12
  <2>. QED BY <1>4, <1>7, <1>9, <2>1 DEF Unframer
<1>. QED BY <1>10, <1>11, <1>12

\* The loop ends: the recursion has a solution.
LEMMA UnframeTurns ==
  ASSUME NEW u \in Unframer
  PROVE  Unframe[u] = IF Len(u.partial) < 4 THEN u ELSE Unframe[Turned(u)]
<1> DEFINE Short(v) == Len(v.partial) < 4
           Goes(n, g, v, w) == /\ g[0] = v /\ g[n] = w /\ Short(w)
                               /\ \A i \in 0 .. n - 1 : ~Short(g[i]) /\ g[i + 1] = Turned(g[i])
           Ends(v, w) == \E n \in Nat : \E g : Goes(n, g, v, w)
           f == [v \in Unframer |-> CHOOSE w : Ends(v, w)]
           Is(g) == g = [v \in Unframer |-> IF Short(v) THEN v ELSE g[Turned(v)]]
<1>1. ASSUME NEW v, NEW w, Short(v) PROVE Ends(v, w) <=> w = v
  <2>1. ASSUME w = v PROVE Ends(v, w)
    <3> DEFINE g == [i \in 0 .. 0 |-> v]
    <3>1. Goes(0, g, v, w)
      BY <1>1, <2>1
    <3>. QED BY <3>1
  <2>2. ASSUME NEW n \in Nat, NEW g, Goes(n, g, v, w) PROVE w = v
    <3>1. n = 0
      <4>1. n > 0 => 0 \in 0 .. n - 1
        OBVIOUS
      <4>. QED BY <1>1, <2>2, <4>1
    <3>. QED BY <2>2, <3>1
  <2>. QED BY <2>1, <2>2
<1>2. ASSUME NEW v, NEW w, ~Short(v) PROVE Ends(v, w) <=> Ends(Turned(v), w)
  <2>1. ASSUME NEW n \in Nat, NEW g, Goes(n, g, v, w) PROVE Ends(Turned(v), w)
    <3>1. n # 0
      BY <1>2, <2>1
    <3> DEFINE h == [i \in 0 .. n - 1 |-> g[i + 1]]
    <3>2. Goes(n - 1, h, Turned(v), w)
      <4>1. h[0] = Turned(v) /\ h[n - 1] = w
        BY <2>1, <3>1
      <4>2. ASSUME NEW i \in 0 .. (n - 1) - 1
            PROVE  ~Short(h[i]) /\ h[i + 1] = Turned(h[i])
        <5>1. i \in 0 .. n - 1 /\ i + 1 \in 0 .. n - 1
          OBVIOUS
        <5>2. h[i] = g[i + 1] /\ h[i + 1] = g[(i + 1) + 1]
          BY <5>1
        <5>. QED BY <2>1, <5>1, <5>2
      <4>. QED BY <2>1, <4>1, <4>2
    <3> HIDE DEF Goes
    <3>. QED BY <3>1, <3>2
  <2>2. ASSUME NEW n \in Nat, NEW g, Goes(n, g, Turned(v), w) PROVE Ends(v, w)
    <3> DEFINE h == [i \in 0 .. n + 1 |-> IF i = 0 THEN v ELSE g[i - 1]]
    <3>1. Goes(n + 1, h, v, w)
      <4>1. h[0] = v /\ h[n + 1] = w
        BY <2>2
      <4>2. ASSUME NEW i \in 0 .. (n + 1) - 1
            PROVE  ~Short(h[i]) /\ h[i + 1] = Turned(h[i])
        <5>1. i \in 0 .. n + 1 /\ i + 1 \in 0 .. n + 1 /\ (i + 1) - 1 = i
          OBVIOUS
        <5>2. h[i + 1] = g[i]
          BY <5>1
        <5>3. CASE i = 0
          BY <1>2, <2>2, <5>1, <5>2, <5>3
        <5>4. CASE i # 0
          <6>1. i - 1 \in 0 .. n - 1 /\ (i - 1) + 1 = i
            BY <5>4
          <6>2. h[i] = g[i - 1]
            BY <5>1, <5>4
          <6>. QED BY <2>2, <5>2, <6>1, <6>2
        <5>. QED BY <5>3, <5>4
      <4>. QED BY <2>2, <4>1, <4>2
    <3> HIDE DEF Goes
    <3>. QED BY <3>1
  <2>. QED BY <2>1, <2>2
<1> HIDE DEF Ends
<1>3. Is(f)
  <2>1. ASSUME NEW v \in Unframer PROVE f[v] = IF Short(v) THEN v ELSE f[Turned(v)]
    <3>1. CASE Short(v)
      <4>1. \A w : Ends(v, w) <=> w = v
        BY <1>1, <3>1
      <4>. QED BY <3>1, <4>1
    <3>2. CASE ~Short(v)
      <4>1. Turned(v) \in Unframer
        BY <3>2, TurnedFits
      <4>2. \A w : Ends(v, w) <=> Ends(Turned(v), w)
        BY <1>2, <3>2
      <4>3. (CHOOSE w : Ends(v, w)) = CHOOSE w : Ends(Turned(v), w)
        BY <4>2
      <4>. QED BY <3>2, <4>1, <4>3
    <3>. QED BY <3>1, <3>2
  <2>2. f = [v \in Unframer |-> f[v]]
    OBVIOUS
  <2> HIDE DEF f
  <2>. QED BY <2>1, <2>2
<1> HIDE DEF f
<1>4. \E g : Is(g)
  BY <1>3
<1>5. Unframe = CHOOSE g : Is(g)
  BY DEF Unframe
<1>6. Is(Unframe)
  BY <1>4, <1>5
<1>. QED BY <1>6

LEMMA SameUnframer ==
  ASSUME NEW u \in Unframer, NEW v \in Unframer, u.partial = v.partial,
         u.current = v.current, u.out = v.out
  PROVE  u = v
BY DEF Unframer

LEMMA MoreFields ==
  ASSUME NEW u \in Unframer, NEW d \in Seq(Byte)
  PROVE  /\ More(u, d) \in Unframer /\ More(u, d).partial = u.partial \o d
         /\ More(u, d).current = u.current /\ More(u, d).out = u.out
<1> DEFINE q == u.partial \o d
<1>1. q \in Seq(Byte)
  BY Joined DEF Unframer
<1>2. More(u, d) = [u EXCEPT !.partial = q]
  BY DEF More
<1> HIDE DEF q
<1>3. /\ More(u, d) \in Unframer /\ More(u, d).partial = q
      /\ More(u, d).current = u.current /\ More(u, d).out = u.out
  BY <1>1, <1>2 DEF Unframer
<1>. QED BY <1>3 DEF q

LEMMA AfterFields ==
  ASSUME NEW u \in Unframer, NEW o \in Seq(Seq(Byte))
  PROVE  /\ After(o, u) \in Unframer /\ After(o, u).out = o \o u.out
         /\ After(o, u).current = u.current /\ After(o, u).partial = u.partial
<1> DEFINE q == o \o u.out
<1>1. q \in Seq(Seq(Byte))
  BY Joined DEF Unframer
<1>2. After(o, u) = [u EXCEPT !.out = q]
  BY DEF After
<1> HIDE DEF q
<1>3. /\ After(o, u) \in Unframer /\ After(o, u).out = q
      /\ After(o, u).current = u.current /\ After(o, u).partial = u.partial
  BY <1>1, <1>2 DEF Unframer
<1>. QED BY <1>3 DEF q

\* A turn takes the first bytes held, and adds behind what was told.
LEMMA TurnedMore ==
  ASSUME NEW u \in Unframer, ~(Len(u.partial) < 4), NEW d \in Seq(Byte)
  PROVE  /\ More(u, d) \in Unframer /\ ~(Len(More(u, d).partial) < 4)
         /\ Turned(More(u, d)) = More(Turned(u), d)
<1> DEFINE p == u.partial
           q == p \o d
           v == Valid(Head(p))
<1>1. /\ p \in Seq(Byte) /\ 4 <= Len(p) /\ p # <<>> /\ u.current \in Seq(Byte)
      /\ u.out \in Seq(Seq(Byte))
  BY DEF Unframer
<1>2. /\ q \in Seq(Byte) /\ Len(q) = Len(p) + Len(d) /\ Len(d) \in Nat /\ Len(p) \in Nat
      /\ \A i \in 1 .. Len(p) : q[i] = p[i]
  BY <1>1, Joined
<1> HIDE DEF p, q
<1>3. More(u, d) = [u EXCEPT !.partial = q]
  BY DEF More, p, q
<1>4. /\ More(u, d) \in Unframer /\ More(u, d).partial = q /\ ~(Len(q) < 4)
      /\ More(u, d).current = u.current /\ More(u, d).out = u.out
  <2>1. ~(Len(q) < 4)
    BY <1>1, <1>2
  <2>. QED BY <2>1, MoreFields DEF p, q
<1>5. Head(q) = Head(p)
  BY <1>1, <1>2
<1>6. v \in 0 .. 3
  BY ValidFits
<1>7. SubSeq(q, 2, 1 + v) = SubSeq(p, 2, 1 + v)
  <2>1. CASE v = 0
    <3>1. 2 \in Int /\ 1 + v \in Int /\ 1 + v < 2
      BY <2>1
    <3>. QED BY <3>1, SubSeqEmpty
  <2>2. CASE v # 0
    <3>1. 2 \in 1 .. Len(p) /\ 1 + v \in 1 .. Len(p)
      BY <1>1, <1>6, <2>2
    <3>. HIDE DEF v
    <3>. QED BY <1>1, <3>1, SubSeqOfConcat1 DEF q
  <2>. QED BY <2>1, <2>2
<1>8. SubSeq(q, 5, Len(q)) = SubSeq(p, 5, Len(p)) \o d
  <2>1. 5 \in 1 .. Len(p) + 1
    BY <1>1
  <2>. QED BY <1>1, <2>1, CutOfJoined DEF q
<1>9. Tail(q) = Tail(p) \o d
  <2>1. 2 \in 1 .. Len(p) + 1 /\ q # <<>>
    BY <1>1, <1>2
  <2>2. SubSeq(q, 2, Len(q)) = SubSeq(p, 2, Len(p)) \o d
    BY <1>1, <2>1, CutOfJoined DEF q
  <2>3. Tail(q) = SubSeq(q, 2, Len(q)) /\ Tail(p) = SubSeq(p, 2, Len(p))
    BY <1>1, <1>2, <2>1, TailIsSubSeq
  <2>. QED BY <2>2, <2>3
<1> DEFINE cur  == u.current \o SubSeq(p, 2, 1 + v)
           rest == SubSeq(p, 5, Len(p))
           t    == Tail(p)
<1>10. Turned(u) = IF v = 0 THEN [u EXCEPT !.partial = t, !.current = <<>>]
                   ELSE IF Head(p) = TAG_CONT THEN [u EXCEPT !.partial = rest, !.current = cur]
                   ELSE [partial |-> rest, current |-> <<>>, out |-> Append(u.out, cur)]
  BY DEF Turned, p
<1> DEFINE w == More(u, d)
<1>11. Turned(w) = IF v = 0 THEN [w EXCEPT !.partial = t \o d, !.current = <<>>]
                   ELSE IF Head(p) = TAG_CONT
                     THEN [w EXCEPT !.partial = rest \o d, !.current = cur]
                   ELSE [partial |-> rest \o d, current |-> <<>>, out |-> Append(u.out, cur)]
  <2> HIDE DEF w
  <2>1. Turned(w) =
          IF Valid(Head(q)) = 0 THEN [w EXCEPT !.partial = Tail(q), !.current = <<>>]
          ELSE IF Head(q) = TAG_CONT
            THEN [w EXCEPT !.partial = SubSeq(q, 5, Len(q)),
                           !.current = u.current \o SubSeq(q, 2, 1 + Valid(Head(q)))]
          ELSE [partial |-> SubSeq(q, 5, Len(q)), current |-> <<>>,
                out |-> Append(u.out, u.current \o SubSeq(q, 2, 1 + Valid(Head(q))))]
    <3>1. w.partial = q /\ w.current = u.current /\ w.out = u.out
      BY <1>4 DEF w
    <3>. QED BY <3>1 DEF Turned
  <2>. QED BY <2>1, <1>5, <1>7, <1>8, <1>9
<1>12. w = [u EXCEPT !.partial = q]
  BY <1>3
<1> HIDE DEF rest, cur, t, v, w
<1>13. CASE v = 0
  <2>1. Turned(u) = [u EXCEPT !.partial = t, !.current = <<>>]
        /\ Turned(w) = [w EXCEPT !.partial = t \o d, !.current = <<>>]
    BY <1>10, <1>11, <1>13
  <2>. QED BY <1>4, <1>12, <2>1 DEF Unframer, More, w
<1>14. CASE v # 0 /\ Head(p) = TAG_CONT
  <2>1. Turned(u) = [u EXCEPT !.partial = rest, !.current = cur]
        /\ Turned(w) = [w EXCEPT !.partial = rest \o d, !.current = cur]
    BY <1>10, <1>11, <1>14
  <2>. QED BY <1>4, <1>12, <2>1 DEF Unframer, More, w
<1>15. CASE v # 0 /\ Head(p) # TAG_CONT
  <2>1. Turned(u) = [partial |-> rest, current |-> <<>>, out |-> Append(u.out, cur)]
        /\ Turned(w) = [partial |-> rest \o d, current |-> <<>>, out |-> Append(u.out, cur)]
    BY <1>10, <1>11, <1>15
  <2>2. Turned(u).partial = rest /\ Turned(u).current = <<>> /\ Turned(u).out = Append(u.out, cur)
    BY <2>1
  <2>3. Turned(w).partial = rest \o d /\ Turned(w).current = <<>> /\ Turned(w).out = Append(u.out, cur)
    BY <2>1
  <2>4. Turned(u) \in Unframer /\ Turned(w) \in Unframer
    BY <1>4, TurnedFits DEF p, w
  <2>5. /\ More(Turned(u), d) \in Unframer /\ More(Turned(u), d).partial = Turned(u).partial \o d
        /\ More(Turned(u), d).current = Turned(u).current
        /\ More(Turned(u), d).out = Turned(u).out
    BY <2>4, MoreFields
  <2>6. Turned(w) = More(Turned(u), d)
    BY <2>2, <2>3, <2>4, <2>5, SameUnframer
  <2>. QED BY <1>4, <2>6 DEF w
<1>. QED BY <1>4, <1>13, <1>14, <1>15 DEF w

LEMMA TurnedAfter ==
  ASSUME NEW u \in Unframer, ~(Len(u.partial) < 4), NEW o \in Seq(Seq(Byte))
  PROVE  /\ After(o, u) \in Unframer /\ After(o, u).partial = u.partial
         /\ Turned(After(o, u)) = After(o, Turned(u))
<1> DEFINE p == u.partial
           v == Valid(Head(p))
           cur  == u.current \o SubSeq(p, 2, 1 + v)
           rest == SubSeq(p, 5, Len(p))
           t    == Tail(p)
           w    == After(o, u)
           oo   == o \o u.out
<1>1. /\ u.out \in Seq(Seq(Byte)) /\ oo \in Seq(Seq(Byte))
      /\ w = [u EXCEPT !.out = oo]
  BY ConcatProperties DEF Unframer, After
<1>2. w \in Unframer /\ w.partial = p /\ w.current = u.current /\ w.out = oo
  BY AfterFields
<1>3. Turned(u) = IF v = 0 THEN [u EXCEPT !.partial = t, !.current = <<>>]
                  ELSE IF Head(p) = TAG_CONT THEN [u EXCEPT !.partial = rest, !.current = cur]
                  ELSE [partial |-> rest, current |-> <<>>, out |-> Append(u.out, cur)]
  BY DEF Turned
<1>4. Turned(w) = IF v = 0 THEN [w EXCEPT !.partial = t, !.current = <<>>]
                  ELSE IF Head(p) = TAG_CONT THEN [w EXCEPT !.partial = rest, !.current = cur]
                  ELSE [partial |-> rest, current |-> <<>>, out |-> Append(oo, cur)]
  <2> HIDE DEF w
  <2>. QED BY <1>2 DEF Turned
<1>5. v # 0 => cur \in Seq(Byte)
  <2>1. Turned(u) \in Unframer
    BY TurnedFits
  <2>2. u.current \in Seq(Byte) /\ p \in Seq(Byte) /\ 4 <= Len(p)
    BY DEF Unframer
  <2>3. ASSUME v # 0 PROVE SubSeq(p, 2, 1 + v) \in Seq(Byte)
    <3>1. v \in 1 .. 3
      BY <2>3, ValidFits
    <3>2. p \in Seq(Byte) /\ 2 \in Nat /\ 1 + v \in Nat /\ 1 <= 2 /\ 2 <= (1 + v) + 1 /\ 1 + v <= Len(p)
      BY <2>2, <3>1
    <3> HIDE DEF v, p
    <3>. QED BY <3>2, Cut
  <2>. QED BY <2>2, <2>3, ConcatProperties
<1> HIDE DEF rest, cur, t, v, w
<1>6. v # 0 => Append(oo, cur) = o \o Append(u.out, cur)
  <2> SUFFICES ASSUME v # 0 PROVE Append(oo, cur) = o \o Append(u.out, cur)
    OBVIOUS
  <2>1. /\ Append(oo, cur) = oo \o <<cur>> /\ Append(u.out, cur) = u.out \o <<cur>>
        /\ <<cur>> \in Seq(Seq(Byte))
    <3> HIDE DEF oo
    <3>1. oo \in Seq(Seq(Byte)) /\ u.out \in Seq(Seq(Byte)) /\ cur \in Seq(Byte)
      BY <1>1, <1>5
    <3>2. <<cur>> \in Seq(Seq(Byte))
      BY <3>1
    <3>3. Append(oo, cur) = oo \o <<cur>>
      BY <3>1, AppendIsConcat
    <3>4. Append(u.out, cur) = u.out \o <<cur>>
      BY <3>1, AppendIsConcat
    <3>. QED BY <3>2, <3>3, <3>4
  <2>2. oo \o <<cur>> = o \o (u.out \o <<cur>>)
    <3>1. o \in Seq(Seq(Byte)) /\ u.out \in Seq(Seq(Byte)) /\ <<cur>> \in Seq(Seq(Byte))
      BY <1>1, <2>1
    <3> DEFINE M == Seq(Byte)
               x == u.out
               y == <<cur>>
    <3> HIDE DEF M, x, y
    <3>2. o \in Seq(M) /\ x \in Seq(M) /\ y \in Seq(M)
      BY <3>1 DEF M, x, y
    <3>3. (o \o x) \o y = o \o (x \o y)
      BY <3>2, ConcatAssociative
    <3>. QED BY <3>3 DEF x, y
  <2>. QED BY <2>1, <2>2
<1>7. CASE v = 0
  <2>1. Turned(u) = [u EXCEPT !.partial = t, !.current = <<>>]
        /\ Turned(w) = [w EXCEPT !.partial = t, !.current = <<>>]
    BY <1>3, <1>4, <1>7
  <2>. QED BY <1>1, <1>2, <2>1 DEF Unframer, After, w
<1>8. CASE v # 0 /\ Head(p) = TAG_CONT
  <2>1. Turned(u) = [u EXCEPT !.partial = rest, !.current = cur]
        /\ Turned(w) = [w EXCEPT !.partial = rest, !.current = cur]
    BY <1>3, <1>4, <1>8
  <2>. QED BY <1>1, <1>2, <2>1 DEF Unframer, After, w
<1>9. CASE v # 0 /\ Head(p) # TAG_CONT
  <2>1. Turned(u) = [partial |-> rest, current |-> <<>>, out |-> Append(u.out, cur)]
        /\ Turned(w) = [partial |-> rest, current |-> <<>>, out |-> Append(oo, cur)]
    BY <1>3, <1>4, <1>9
  <2>2. Turned(u).partial = rest /\ Turned(u).current = <<>> /\ Turned(u).out = Append(u.out, cur)
    BY <2>1
  <2>3. Turned(w).partial = rest /\ Turned(w).current = <<>> /\ Turned(w).out = Append(oo, cur)
    BY <2>1
  <2>4. Turned(u) \in Unframer /\ Turned(w) \in Unframer
    BY <1>2, TurnedFits
  <2>5. /\ After(o, Turned(u)) \in Unframer /\ After(o, Turned(u)).partial = Turned(u).partial
        /\ After(o, Turned(u)).current = Turned(u).current
        /\ After(o, Turned(u)).out = o \o Turned(u).out
    BY <2>4, AfterFields
  <2>6. Turned(w) = After(o, Turned(u))
    BY <1>6, <1>9, <2>2, <2>3, <2>4, <2>5, SameUnframer
  <2>. QED BY <1>2, <2>6 DEF w
<1>. QED BY <1>2, <1>7, <1>8, <1>9 DEF w

\* However much is held, the loop leaves less than a frame.
LEMMA UnframeEnds ==
  ASSUME NEW u \in Unframer
  PROVE  Unframe[u] \in Unframer /\ Len(Unframe[u].partial) < 4
<1> DEFINE Fine(v) == Unframe[v] \in Unframer /\ Len(Unframe[v].partial) < 4
           n == Len(u.partial)
           T == {k \in 0 .. n : \A v \in Unframer : Len(v.partial) <= k => Fine(v)}
<1>1. \A v \in Unframer : Len(v.partial) \in Nat
  BY DEF Unframer
<1>2. ASSUME NEW v \in Unframer, Len(v.partial) < 4 PROVE Fine(v)
  BY <1>2, UnframeTurns
<1>3. 0 \in T
  BY <1>1, <1>2
<1>4. ASSUME NEW k \in 0 .. n - 1, k \in T PROVE k + 1 \in T
  <2>1. ASSUME NEW v \in Unframer, Len(v.partial) <= k + 1, ~(Len(v.partial) < 4) PROVE Fine(v)
    <3>1. Turned(v) \in Unframer /\ Len(Turned(v).partial) < Len(v.partial)
      BY <2>1, TurnedFits
    <3>2. Len(Turned(v).partial) <= k
      BY <1>1, <2>1, <3>1
    <3>3. Fine(Turned(v))
      BY <1>4, <3>1, <3>2
    <3>4. Unframe[v] = Unframe[Turned(v)]
      BY <2>1, UnframeTurns
    <3>. QED BY <3>3, <3>4
  <2> HIDE DEF Fine
  <2>. QED BY <1>1, <1>2, <2>1
<1>5. n \in Nat
  BY <1>1
<1> HIDE DEF T
<1>6. n \in T
  BY <1>3, <1>4, <1>5, Joins!Induction
<1> HIDE DEF Fine
<1>7. Fine(u)
  BY <1>1, <1>6 DEF T
<1>. QED BY <1>7 DEF Fine

\* What is held is turned over first, whatever comes behind it and was told
\* before it.
LEMMA UnframeMore ==
  ASSUME NEW u \in Unframer, NEW d \in Seq(Byte)
  PROVE  Unframe[More(u, d)] = Unframe[More(Unframe[u], d)]
<1> DEFINE Fine(v) == Unframe[More(v, d)] = Unframe[More(Unframe[v], d)]
           n == Len(u.partial)
           T == {k \in 0 .. n : \A v \in Unframer : Len(v.partial) <= k => Fine(v)}
<1>1. \A v \in Unframer : Len(v.partial) \in Nat
  BY DEF Unframer
<1>2. ASSUME NEW v \in Unframer, Len(v.partial) < 4 PROVE Fine(v)
  <2>1. Unframe[v] = v
    BY <1>2, UnframeTurns
  <2>. QED BY <2>1
<1>3. 0 \in T
  BY <1>1, <1>2
<1>4. ASSUME NEW k \in 0 .. n - 1, k \in T PROVE k + 1 \in T
  <2>1. ASSUME NEW v \in Unframer, Len(v.partial) <= k + 1, ~(Len(v.partial) < 4) PROVE Fine(v)
    <3>1. Turned(v) \in Unframer /\ Len(Turned(v).partial) < Len(v.partial)
      BY <2>1, TurnedFits
    <3>2. Len(Turned(v).partial) <= k
      BY <1>1, <2>1, <3>1
    <3>3. Fine(Turned(v))
      BY <1>4, <3>1, <3>2
    <3>4. Unframe[v] = Unframe[Turned(v)]
      BY <2>1, UnframeTurns
    <3>5. /\ More(v, d) \in Unframer /\ ~(Len(More(v, d).partial) < 4)
          /\ Turned(More(v, d)) = More(Turned(v), d)
      BY <2>1, TurnedMore
    <3>6. Unframe[More(v, d)] = Unframe[More(Turned(v), d)]
      BY <3>5, UnframeTurns
    <3>. QED BY <3>3, <3>4, <3>6
  <2> HIDE DEF Fine
  <2>. QED BY <1>1, <1>2, <2>1
<1>5. n \in Nat
  BY <1>1
<1> HIDE DEF T
<1>6. n \in T
  BY <1>3, <1>4, <1>5, Joins!Induction
<1> HIDE DEF Fine
<1>7. Fine(u)
  BY <1>1, <1>6 DEF T
<1>. QED BY <1>7 DEF Fine

LEMMA UnframeAfter ==
  ASSUME NEW u \in Unframer, NEW o \in Seq(Seq(Byte))
  PROVE  Unframe[After(o, u)] = After(o, Unframe[u])
<1> DEFINE Fine(v) == Unframe[After(o, v)] = After(o, Unframe[v])
           n == Len(u.partial)
           T == {k \in 0 .. n : \A v \in Unframer : Len(v.partial) <= k => Fine(v)}
<1>1. \A v \in Unframer : Len(v.partial) \in Nat
  BY DEF Unframer
<1>2. ASSUME NEW v \in Unframer, Len(v.partial) < 4 PROVE Fine(v)
  <2>1. Unframe[v] = v
    BY <1>2, UnframeTurns
  <2>2. After(o, v) \in Unframer /\ Len(After(o, v).partial) < 4
    BY <1>2, AfterFields
  <2>3. Unframe[After(o, v)] = After(o, v)
    BY <2>2, UnframeTurns
  <2>. QED BY <2>1, <2>3
<1>3. 0 \in T
  BY <1>1, <1>2
<1>4. ASSUME NEW k \in 0 .. n - 1, k \in T PROVE k + 1 \in T
  <2>1. ASSUME NEW v \in Unframer, Len(v.partial) <= k + 1, ~(Len(v.partial) < 4) PROVE Fine(v)
    <3>1. Turned(v) \in Unframer /\ Len(Turned(v).partial) < Len(v.partial)
      BY <2>1, TurnedFits
    <3>2. Len(Turned(v).partial) <= k
      BY <1>1, <2>1, <3>1
    <3>3. Fine(Turned(v))
      BY <1>4, <3>1, <3>2
    <3>4. Unframe[v] = Unframe[Turned(v)]
      BY <2>1, UnframeTurns
    <3>5. /\ After(o, v) \in Unframer /\ ~(Len(After(o, v).partial) < 4)
          /\ Turned(After(o, v)) = After(o, Turned(v))
      BY <2>1, TurnedAfter
    <3>6. Unframe[After(o, v)] = Unframe[After(o, Turned(v))]
      BY <3>5, UnframeTurns
    <3>. QED BY <3>3, <3>4, <3>6
  <2> HIDE DEF Fine
  <2>. QED BY <1>1, <1>2, <2>1
<1>5. n \in Nat
  BY <1>1
<1> HIDE DEF T
<1>6. n \in T
  BY <1>3, <1>4, <1>5, Joins!Induction
<1> HIDE DEF Fine
<1>7. Fine(u)
  BY <1>1, <1>6 DEF T
<1>. QED BY <1>7 DEF Fine

LEMMA PushIs ==
  ASSUME NEW u \in Unframer, NEW d \in Seq(Byte)
  PROVE  \E v \in Unframer :
           /\ v.partial = u.partial /\ v.current = u.current /\ v.out = <<>>
           /\ UnframerPush(u, d) = Unframe[More(v, d)]
<1> DEFINE v == [u EXCEPT !.out = <<>>]
           q == u.partial \o d
<1>1. <<>> \in Seq(Seq(Byte)) /\ q \in Seq(Byte)
  BY Joined DEF Unframer
<1>2. v \in Unframer /\ v.partial = u.partial /\ v.current = u.current /\ v.out = <<>>
  BY <1>1 DEF Unframer
<1>3. More(v, d) \in Unframer /\ More(v, d).partial = q /\ More(v, d).current = u.current
      /\ More(v, d).out = <<>>
  BY <1>2, MoreFields
<1> HIDE DEF q
<1> DEFINE w == [u EXCEPT !.partial = q, !.out = <<>>]
<1>4. w \in Unframer /\ w.partial = q /\ w.current = u.current /\ w.out = <<>>
  BY <1>1 DEF Unframer
<1>5. UnframerPush(u, d) = Unframe[w]
  BY DEF UnframerPush, q
<1> HIDE DEF v, w
<1>6. w = More(v, d)
  BY <1>3, <1>4, SameUnframer
<1>. QED BY <1>2, <1>5, <1>6

\* Where the stream is cut is nothing to the Unframer (midi3.rs,
\* Unframer::push): two reads hand over what one read of both would.
THEOREM CutsDoNotMatter ==
  ASSUME NEW u \in Unframer, NEW a \in Seq(Byte), NEW b \in Seq(Byte)
  PROVE  LET first  == UnframerPush(u, a)
             second == UnframerPush(first, b)
         IN  UnframerPush(u, a \o b) = [second EXCEPT !.out = first.out \o @]
<1> DEFINE first  == UnframerPush(u, a)
           second == UnframerPush(first, b)
           ab     == a \o b
<1>0. ab \in Seq(Byte)
  BY Joined
<1>1. PICK v \in Unframer : /\ v.partial = u.partial /\ v.current = u.current /\ v.out = <<>>
                            /\ first = Unframe[More(v, a)]
  BY PushIs
<1>2. PICK w \in Unframer : /\ w.partial = u.partial /\ w.current = u.current /\ w.out = <<>>
                            /\ UnframerPush(u, ab) = Unframe[More(w, ab)]
  BY <1>0, PushIs
<1>3. v = w
  BY <1>1, <1>2, SameUnframer
<1>4. More(v, a) \in Unframer /\ More(v, a).partial = v.partial \o a
      /\ More(v, a).current = v.current /\ More(v, a).out = v.out
  BY MoreFields
<1>5. first \in Unframer
  BY <1>1, <1>4, UnframeEnds
<1> HIDE DEF first
<1>6. PICK x \in Unframer : /\ x.partial = first.partial /\ x.current = first.current
                            /\ x.out = <<>> /\ second = Unframe[More(x, b)]
  BY <1>5, PushIs
<1> HIDE DEF second
<1>7. More(x, b) \in Unframer /\ More(x, b).partial = x.partial \o b
      /\ More(x, b).current = x.current /\ More(x, b).out = x.out
  BY MoreFields
<1>8. second \in Unframer
  BY <1>6, <1>7, UnframeEnds
<1>9. More(v, ab) = More(More(v, a), b)
  <2>1. (v.partial \o a) \o b = v.partial \o ab
    <3>1. v.partial \in Seq(Byte)
      BY DEF Unframer
    <3> DEFINE p == v.partial
    <3> HIDE DEF p
    <3>2. p \in Seq(Byte)
      BY <3>1 DEF p
    <3>3. (p \o a) \o b = p \o (a \o b)
      BY <3>2, ConcatAssociative
    <3>. QED BY <3>3 DEF p
  <2> HIDE DEF ab
  <2>2. More(v, ab) \in Unframer /\ More(v, ab).partial = v.partial \o ab
        /\ More(v, ab).current = v.current /\ More(v, ab).out = v.out
    BY <1>0, MoreFields
  <2> DEFINE y == More(v, a)
  <2>3. y \in Unframer
    BY <1>4
  <2> HIDE DEF y
  <2>4. More(y, b) \in Unframer /\ More(y, b).partial = y.partial \o b
        /\ More(y, b).current = y.current /\ More(y, b).out = y.out
    BY <2>3, MoreFields
  <2>5. y.partial \o b = v.partial \o ab
    BY <1>4, <2>1 DEF y
  <2>6. y.current = v.current /\ y.out = v.out
    BY <1>4 DEF y
  <2>7. More(v, ab) = More(y, b)
    BY <2>2, <2>4, <2>5, <2>6, SameUnframer
  <2>. QED BY <2>7 DEF y
<1>10. Unframe[More(v, ab)] = Unframe[More(first, b)]
  BY <1>1, <1>4, <1>9, UnframeMore
<1>11. More(first, b) = After(first.out, More(x, b))
  <2>1. More(first, b) \in Unframer /\ More(first, b).partial = first.partial \o b
        /\ More(first, b).current = first.current /\ More(first, b).out = first.out
    BY <1>5, MoreFields
  <2>2. first.out \in Seq(Seq(Byte))
    BY <1>5 DEF Unframer
  <2> DEFINE y == More(x, b)
             z == After(first.out, y)
  <2> HIDE DEF y
  <2>3. z \in Unframer /\ z.out = first.out \o y.out /\ z.current = y.current
        /\ z.partial = y.partial
    BY <1>7, <2>2, AfterFields DEF y
  <2>4. first.out \o <<>> = first.out
    BY <2>2, ConcatEmptySeq
  <2>5. y.partial = first.partial \o b /\ y.current = first.current /\ y.out = <<>>
    BY <1>6, <1>7 DEF y
  <2>6. More(first, b) = z
    <3> HIDE DEF z
    <3>1. z.out = first.out /\ z.current = first.current /\ z.partial = first.partial \o b
      BY <2>3, <2>4, <2>5
    <3>. QED BY <2>1, <2>3, <3>1, SameUnframer
  <2>. QED BY <2>6 DEF y
<1>12. Unframe[More(first, b)] = After(first.out, second)
  <2>1. first.out \in Seq(Seq(Byte))
    BY <1>5 DEF Unframer
  <2>. QED BY <1>6, <1>7, <1>11, <2>1, UnframeAfter
<1>13. UnframerPush(u, ab) = [second EXCEPT !.out = first.out \o @]
  BY <1>2, <1>3, <1>10, <1>12 DEF After
<1>. QED BY <1>13 DEF first, second

-----------------------------------------------------------------------------
(***************************************************************************)
(* Frames.                                                                  *)
(***************************************************************************)

LEMMA Listed ==
  ASSUME NEW S, NEW n \in Nat, NEW t, t = [i \in 1 .. n |-> t[i]], \A i \in 1 .. n : t[i] \in S
  PROVE  t \in Seq(S) /\ Len(t) = n
OBVIOUS

LEMMA EmptyBytes == <<>> \in Seq(Byte) /\ Len(<<>>) = 0
OBVIOUS

\* An Unframer that holds p, in the middle of c.
Holding(p, c) == [partial |-> p, current |-> c, out |-> <<>>]

LEMMA HoldingFields ==
  ASSUME NEW p \in Seq(Byte), NEW c \in Seq(Byte)
  PROVE  /\ Holding(p, c) \in Unframer /\ Holding(p, c).partial = p
         /\ Holding(p, c).current = c /\ Holding(p, c).out = <<>>
<1>1. <<>> \in Seq(Seq(Byte))
  OBVIOUS
<1>. QED BY <1>1 DEF Holding, Unframer

LEMMA HoldingMore ==
  ASSUME NEW p \in Seq(Byte), NEW c \in Seq(Byte), NEW d \in Seq(Byte)
  PROVE  More(Holding(p, c), d) = Holding(p \o d, c)
<1> DEFINE q == p \o d
           x == Holding(p, c)
           y == Holding(q, c)
<1>1. q \in Seq(Byte)
  BY Joined
<1> HIDE DEF q
<1>2. /\ x \in Unframer /\ x.partial = p /\ x.current = c /\ x.out = <<>>
      /\ y \in Unframer /\ y.partial = q /\ y.current = c /\ y.out = <<>>
  BY <1>1, HoldingFields
<1> HIDE DEF x, y
<1>3. /\ More(x, d) \in Unframer /\ More(x, d).partial = x.partial \o d
      /\ More(x, d).current = x.current /\ More(x, d).out = x.out
  BY <1>2, MoreFields
<1>4. More(x, d) = y
  BY <1>2, <1>3, SameUnframer DEF q
<1>. QED BY <1>4 DEF x, y, q

\* A group of at most three bytes: its tag, and where they are.
LEMMA FrameGroups ==
  ASSUME NEW msg \in Seq(Byte), msg # <<>>
  PROVE  \E n \in Nat \ {0} : \E s :
           /\ 3 * (n - 1) < Len(msg) /\ Len(msg) <= 3 * n
           /\ Len(s) = n /\ frame(msg) = Concat(s)
           /\ \A g \in 1 .. n : LET count == IF g = n THEN Len(msg) - 3 * (n - 1) ELSE 3 IN
                /\ s[g] \in Seq(Byte) /\ Len(s[g]) = 4
                /\ s[g][1] = IF g = n THEN 20 + count ELSE 20
                /\ \A i \in 1 .. count : s[g][1 + i] = msg[3 * (g - 1) + i]
<1> DEFINE L == Len(msg)
           n == (L + 2) \div 3
           count(g) == IF g = n THEN L - 3 * (g - 1) ELSE 3
           tag(g)   == TAG_CONT + (IF g = n THEN count(g) ELSE 0)
           three(g) == [i \in 1 .. 3 |-> IF i <= count(g) THEN msg[3 * (g - 1) + i] ELSE 0]
           s == [g \in 1 .. n |-> <<tag(g)>> \o three(g)]
<1>1. L \in Nat \ {0} /\ \A i \in 1 .. L : msg[i] \in Byte
  OBVIOUS
<1> HIDE DEF L
<1>2. n \in Nat \ {0} /\ 3 * (n - 1) < L /\ L <= 3 * n
  BY <1>1
<1>3. frame(msg) = Concat(s)
  BY DEF frame, L
<1> HIDE DEF n
<1>4. ASSUME NEW g \in 1 .. n
      PROVE  /\ s[g] \in Seq(Byte) /\ Len(s[g]) = 4
             /\ s[g][1] = tag(g)
             /\ \A i \in 1 .. count(g) : s[g][1 + i] = msg[3 * (g - 1) + i]
  <2> DEFINE c == count(g)
             t == three(g)
             a == tag(g)
  <2>1. c \in 1 .. 3 /\ 3 * (g - 1) + c <= L /\ a \in Byte /\ 3 * (g - 1) \in Nat
    <3>1. CASE g = n
      BY <1>1, <1>2, <3>1 DEF TAG_CONT, Byte
    <3>2. CASE g # n
      BY <1>1, <1>2, <3>2 DEF TAG_CONT, Byte
    <3>. QED BY <3>1, <3>2
  <2>2. t = [i \in 1 .. 3 |-> IF i <= c THEN msg[3 * (g - 1) + i] ELSE 0]
    OBVIOUS
  <2> HIDE DEF count, three, tag, c, t, a
  <2>3. \A i \in 1 .. 3 : t[i] = IF i <= c THEN msg[3 * (g - 1) + i] ELSE 0
    BY <2>2
  <2>4. \A i \in 1 .. 3 : t[i] \in Byte
    <3> SUFFICES ASSUME NEW i \in 1 .. 3 PROVE t[i] \in Byte
      OBVIOUS
    <3>1. CASE i <= c
      <4>1. 3 * (g - 1) + i \in 1 .. L
        BY <1>1, <2>1, <3>1
      <4>. QED BY <1>1, <2>3, <3>1, <4>1
    <3>2. CASE ~(i <= c)
      <4>1. 0 \in Byte
        BY DEF Byte
      <4>. QED BY <2>3, <3>2, <4>1
    <3>. QED BY <3>1, <3>2
  <2>5. t \in Seq(Byte) /\ Len(t) = 3
    <3>1. t = [i \in 1 .. 3 |-> t[i]] /\ 3 \in Nat
      BY <2>2
    <3>. QED BY <2>4, <3>1, Listed
  <2> DEFINE o == <<a>>
  <2>6. o \in Seq(Byte) /\ Len(o) = 1 /\ o[1] = a
    BY <2>1
  <2> HIDE DEF o
  <2>7. /\ o \o t \in Seq(Byte) /\ Len(o \o t) = Len(o) + Len(t)
        /\ \A i \in 1 .. Len(o) : (o \o t)[i] = o[i]
        /\ \A i \in 1 .. Len(t) : (o \o t)[Len(o) + i] = t[i]
    <3>1. o \in Seq(Byte) /\ t \in Seq(Byte)
      BY <2>5, <2>6
    <3>. QED BY <3>1, Joined
  <2> DEFINE w == o \o t
  <2> HIDE DEF w
  <2>8. w \in Seq(Byte) /\ Len(w) = 4 /\ w[1] = a /\ \A i \in 1 .. 3 : w[1 + i] = t[i]
    BY <2>5, <2>6, <2>7 DEF w
  <2>9. \A i \in 1 .. c : w[1 + i] = msg[3 * (g - 1) + i]
    <3>1. \A i \in 1 .. c : i \in 1 .. 3 /\ i <= c
      BY <2>1
    <3>. QED BY <2>3, <2>8, <3>1
  <2>10. s[g] = w
    BY DEF w, o, a, t
  <2> HIDE DEF s
  <2>. QED BY <2>8, <2>9, <2>10 DEF a, c
<1>5. Len(s) = n
  BY <1>2
<1> HIDE DEF s
<1>6. \A g \in 1 .. n : LET cc == IF g = n THEN Len(msg) - 3 * (n - 1) ELSE 3 IN
        /\ s[g] \in Seq(Byte) /\ Len(s[g]) = 4
        /\ s[g][1] = IF g = n THEN 20 + cc ELSE 20
        /\ \A i \in 1 .. cc : s[g][1 + i] = msg[3 * (g - 1) + i]
  <2> SUFFICES ASSUME NEW g \in 1 .. n
               PROVE  LET cc == IF g = n THEN Len(msg) - 3 * (n - 1) ELSE 3 IN
                      /\ s[g] \in Seq(Byte) /\ Len(s[g]) = 4
                      /\ s[g][1] = IF g = n THEN 20 + cc ELSE 20
                      /\ \A i \in 1 .. cc : s[g][1 + i] = msg[3 * (g - 1) + i]
    OBVIOUS
  <2>1. count(g) = IF g = n THEN Len(msg) - 3 * (n - 1) ELSE 3
    BY DEF L
  <2>2. tag(g) = IF g = n THEN 20 + count(g) ELSE 20
    BY DEF TAG_CONT
  <2> HIDE DEF count, tag
  <2>. QED BY <1>4, <2>1, <2>2
<1>. QED BY <1>2, <1>3, <1>5, <1>6 DEF L

\* A group turns into the bytes it has.
LEMMA GroupTurns ==
  ASSUME NEW w \in Seq(Byte), Len(w) = 4, NEW c \in Seq(Byte)
  PROVE  /\ w[1] = 20 =>
              Unframe[Holding(w, c)] = Holding(<<>>, c \o SubSeq(w, 2, 4))
         /\ \A k \in 1 .. 3 : w[1] = 20 + k =>
              Unframe[Holding(w, c)] =
                [partial |-> <<>>, current |-> <<>>, out |-> <<c \o SubSeq(w, 2, 1 + k)>>]
<1> DEFINE u == Holding(w, c)
<1>1. u \in Unframer /\ u.partial = w /\ u.current = c /\ u.out = <<>>
  BY HoldingFields
<1> HIDE DEF u
<1>0. u \in Unframer /\ ~(Len(u.partial) < 4)
  <2>1. Len(u.partial) = 4
    BY <1>1, Zenon
  <2>2. ~(4 < 4)
    OBVIOUS
  <2>. QED BY <1>1, <2>1, <2>2, Zenon
<1>2. Unframe[u] = Unframe[Turned(u)]
  BY <1>0, UnframeTurns
<1>3. Turned(u) \in Unframer
  BY <1>0, TurnedFits
<1>4. SubSeq(w, 5, Len(w)) = <<>> /\ Head(w) = w[1]
  <2>1. SubSeq(w, 5, 4) = <<>>
    BY SubSeqEmpty
  <2>. QED BY <2>1
<1>5. Len(<<>>) < 4
  OBVIOUS
<1>6. ASSUME w[1] = 20 PROVE Unframe[u] = Holding(<<>>, c \o SubSeq(w, 2, 4))
  <2> DEFINE cur == c \o SubSeq(w, 2, 4)
  <2>1. Valid(w[1]) = 3 /\ TAG_CONT = 20
    BY <1>6 DEF Valid, TAG_CONT
  <2>2. Turned(u) = [u EXCEPT !.partial = <<>>, !.current = cur]
    <3>1. /\ Head(u.partial) = 20 /\ Valid(Head(u.partial)) = 3 /\ 1 + 3 = 4
          /\ SubSeq(u.partial, 5, Len(u.partial)) = <<>>
      <4>1. Head(u.partial) = 20
        BY <1>1, <1>4, <1>6, Zenon
      <4>2. Valid(Head(u.partial)) = 3
        BY <1>6, <2>1, <4>1, Zenon
      <4>3. SubSeq(u.partial, 5, Len(u.partial)) = <<>>
        BY <1>1, <1>4, Zenon
      <4>. QED BY <4>1, <4>2, <4>3
    <3>2. u.current \o SubSeq(u.partial, 2, 1 + Valid(Head(u.partial))) = cur
      BY <1>1, <3>1
    <3> HIDE DEF cur
    <3>3. 3 # 0 /\ Head(u.partial) = TAG_CONT
      BY <2>1, <3>1
    <3>. QED BY <3>1, <3>2, <3>3, Zenon DEF Turned
  <2> HIDE DEF cur
  <2>3. Turned(u).partial = <<>> /\ Turned(u).current = cur /\ Turned(u).out = <<>>
    BY <1>1, <2>2 DEF Unframer
  <2>4. Turned(u) = [partial |-> <<>>, current |-> cur, out |-> <<>>]
    BY <1>3, <2>3 DEF Unframer
  <2>5. Unframe[Turned(u)] = Turned(u)
    BY <1>3, <1>5, <2>3, UnframeTurns
  <2>. QED BY <1>2, <2>4, <2>5 DEF Holding, cur
<1>7. ASSUME NEW k \in 1 .. 3, w[1] = 20 + k
      PROVE  Unframe[u] =
               [partial |-> <<>>, current |-> <<>>, out |-> <<c \o SubSeq(w, 2, 1 + k)>>]
  <2> DEFINE cur == c \o SubSeq(w, 2, 1 + k)
  <2>1. Valid(w[1]) = k /\ TAG_CONT = 20 /\ w[1] # 20
    BY <1>7 DEF Valid, TAG_CONT
  <2>2. Turned(u) = [partial |-> <<>>, current |-> <<>>, out |-> Append(u.out, cur)]
    <3>1. /\ Head(u.partial) = w[1] /\ Valid(Head(u.partial)) = k
          /\ SubSeq(u.partial, 5, Len(u.partial)) = <<>>
      BY <1>1, <1>4, <2>1
    <3>2. u.current \o SubSeq(u.partial, 2, 1 + Valid(Head(u.partial))) = cur
      BY <1>1, <3>1
    <3> HIDE DEF cur
    <3>3. k # 0 /\ Head(u.partial) # TAG_CONT
      BY <2>1, <3>1
    <3>. QED BY <3>1, <3>2, <3>3 DEF Turned
  <2>3. Append(u.out, cur) = <<cur>>
    BY <1>1
  <2> HIDE DEF cur
  <2>4. Turned(u).partial = <<>>
    BY <2>2
  <2>5. Unframe[Turned(u)] = Turned(u)
    BY <1>3, <1>5, <2>4, UnframeTurns
  <2>. QED BY <1>2, <2>2, <2>3, <2>5 DEF cur
<1>. QED BY <1>6, <1>7 DEF u

\* What a message is when its first bytes are had.
LEMMA Grown ==
  ASSUME NEW msg \in Seq(Byte), NEW m \in Nat, NEW k \in 1 .. 3, m + k <= Len(msg),
         NEW w \in Seq(Byte), Len(w) = 4, \A i \in 1 .. k : w[1 + i] = msg[m + i]
  PROVE  /\ SubSeq(msg, 1, m) \in Seq(Byte)
         /\ SubSeq(msg, 1, m) \o SubSeq(w, 2, 1 + k) = SubSeq(msg, 1, m + k)
<1> DEFINE a == SubSeq(msg, 1, m)
           b == SubSeq(w, 2, 1 + k)
           l == a \o b
           r == SubSeq(msg, 1, m + k)
<1>1. /\ a \in Seq(Byte) /\ Len(a) = (m - 1) + 1
      /\ \A i \in 1 .. (m - 1) + 1 : a[i] = msg[(1 + i) - 1]
  <2>1. msg \in Seq(Byte) /\ 1 \in Nat /\ m \in Nat /\ 1 <= 1 /\ 1 <= m + 1 /\ m <= Len(msg)
    OBVIOUS
  <2>. QED BY <2>1, Cut
<1>2. /\ b \in Seq(Byte) /\ Len(b) = ((1 + k) - 2) + 1
      /\ \A i \in 1 .. ((1 + k) - 2) + 1 : b[i] = w[(2 + i) - 1]
  <2>1. /\ w \in Seq(Byte) /\ 2 \in Nat /\ 1 + k \in Nat /\ 1 <= 2 /\ 2 <= (1 + k) + 1
        /\ 1 + k <= Len(w)
    OBVIOUS
  <2> DEFINE n == 1 + k
  <2> HIDE DEF n
  <2>2. /\ SubSeq(w, 2, n) \in Seq(Byte) /\ Len(SubSeq(w, 2, n)) = (n - 2) + 1
        /\ \A i \in 1 .. (n - 2) + 1 : SubSeq(w, 2, n)[i] = w[(2 + i) - 1]
    <3>1. w \in Seq(Byte) /\ 2 \in Nat /\ n \in Nat /\ 1 <= 2 /\ 2 <= n + 1 /\ n <= Len(w)
      BY <2>1 DEF n
    <3>. QED BY <3>1, Cut
  <2>. QED BY <2>2 DEF n
<1>3. /\ r \in Seq(Byte) /\ Len(r) = ((m + k) - 1) + 1
      /\ \A i \in 1 .. ((m + k) - 1) + 1 : r[i] = msg[(1 + i) - 1]
  <2>1. /\ msg \in Seq(Byte) /\ 1 \in Nat /\ m + k \in Nat /\ 1 <= 1 /\ 1 <= (m + k) + 1
        /\ m + k <= Len(msg)
    OBVIOUS
  <2>. QED BY <2>1, Cut
<1> HIDE DEF a, b, r
<1>4. /\ l \in Seq(Byte) /\ Len(l) = Len(a) + Len(b)
      /\ \A i \in 1 .. Len(a) : l[i] = a[i]
      /\ \A i \in 1 .. Len(b) : l[Len(a) + i] = b[i]
  <2>1. a \in Seq(Byte) /\ b \in Seq(Byte)
    BY <1>1, <1>2
  <2>. QED BY <2>1, Joined
<1> HIDE DEF l
<1>5. Len(a) = m /\ Len(b) = k /\ Len(r) = m + k /\ Len(l) = m + k
  BY <1>1, <1>2, <1>3, <1>4
<1>6. ASSUME NEW i \in 1 .. m + k PROVE l[i] = r[i]
  <2>1. r[i] = msg[i]
    BY <1>3
  <2>2. CASE i <= m
    <3>1. i \in 1 .. Len(a) /\ i \in 1 .. (m - 1) + 1 /\ (1 + i) - 1 = i
      BY <1>5, <2>2
    <3>2. l[i] = a[i]
      BY <1>4, <3>1
    <3>3. a[i] = msg[i]
      BY <1>1, <3>1
    <3>. QED BY <2>1, <3>2, <3>3
  <2>3. CASE ~(i <= m)
    <3> DEFINE j == i - m
    <3>1. /\ j \in 1 .. k /\ j \in 1 .. Len(b) /\ Len(a) + j = i /\ m + j = i
          /\ (2 + j) - 1 = 1 + j /\ j \in 1 .. ((1 + k) - 2) + 1
      BY <1>5, <2>3
    <3> HIDE DEF j
    <3>2. l[i] = b[j]
      BY <1>4, <3>1
    <3>3. b[j] = w[1 + j]
      BY <1>2, <3>1
    <3>4. w[1 + j] = msg[i]
      BY <3>1
    <3>. QED BY <2>1, <3>2, <3>3, <3>4
  <2>. QED BY <2>2, <2>3
<1>7. l = r
  <2>1. l \in Seq(Byte) /\ r \in Seq(Byte) /\ Len(l) = Len(r) /\ \A i \in 1 .. Len(l) : l[i] = r[i]
    BY <1>3, <1>4, <1>5, <1>6
  <2>. QED BY <2>1, SeqEqual
<1>. QED BY <1>1, <1>7 DEF a, l, b, r

\* An Unframer between messages takes a frame's bytes to its message.
LEMMA FrameTurns ==
  ASSUME NEW msg \in Seq(Byte), msg # <<>>
  PROVE  /\ frame(msg) \in Seq(Byte)
         /\ Unframe[Holding(frame(msg), <<>>)] =
              [partial |-> <<>>, current |-> <<>>, out |-> <<msg>>]
<1>1. PICK n \in Nat \ {0} : \E s :
        /\ 3 * (n - 1) < Len(msg) /\ Len(msg) <= 3 * n
        /\ Len(s) = n /\ frame(msg) = Concat(s)
        /\ \A g \in 1 .. n : LET count == IF g = n THEN Len(msg) - 3 * (n - 1) ELSE 3 IN
             /\ s[g] \in Seq(Byte) /\ Len(s[g]) = 4
             /\ s[g][1] = IF g = n THEN 20 + count ELSE 20
             /\ \A i \in 1 .. count : s[g][1 + i] = msg[3 * (g - 1) + i]
  BY FrameGroups
<1>2. PICK s :
        /\ 3 * (n - 1) < Len(msg) /\ Len(msg) <= 3 * n
        /\ Len(s) = n /\ frame(msg) = Concat(s)
        /\ \A g \in 1 .. n : LET count == IF g = n THEN Len(msg) - 3 * (n - 1) ELSE 3 IN
             /\ s[g] \in Seq(Byte) /\ Len(s[g]) = 4
             /\ s[g][1] = IF g = n THEN 20 + count ELSE 20
             /\ \A i \in 1 .. count : s[g][1 + i] = msg[3 * (g - 1) + i]
  BY <1>1
<1> DEFINE had(k) == SubSeq(msg, 1, 3 * k)
           last   == Len(msg) - 3 * (n - 1)
<1>3. last \in 1 .. 3 /\ 3 * (n - 1) \in Nat /\ Len(msg) \in Nat
  BY <1>2
<1>4. ASSUME NEW g \in 1 .. n - 1
      PROVE  /\ s[g] \in Seq(Byte) /\ Len(s[g]) = 4 /\ s[g][1] = 20
             /\ \A i \in 1 .. 3 : s[g][1 + i] = msg[3 * (g - 1) + i]
  <2>1. g \in 1 .. n /\ g # n
    OBVIOUS
  <2>. QED BY <1>2, <2>1
<1>5. /\ s[n] \in Seq(Byte) /\ Len(s[n]) = 4 /\ s[n][1] = 20 + last
      /\ \A i \in 1 .. last : s[n][1 + i] = msg[3 * (n - 1) + i]
  <2>1. n \in 1 .. n
    OBVIOUS
  <2>. QED BY <1>2, <2>1
<1> HIDE DEF last
<1>6. PICK f : /\ f[0] = <<>>
               /\ \A i \in 1 .. Len(s) : f[i] = JoinStep(f[i - 1], s[i])
               /\ Concat(s) = f[Len(s)]
  <2>1. Len(s) \in Nat
    BY <1>2
  <2>. QED BY <2>1, JoinRuns
<1>7. frame(msg) = f[n]
  BY <1>2, <1>6
<1>8. \A i \in 1 .. n : f[i] = f[i - 1] \o s[i]
  BY <1>2, <1>6 DEF JoinStep
<1> DEFINE T == {k \in 0 .. n - 1 : /\ f[k] \in Seq(Byte)
                                    /\ Unframe[Holding(f[k], <<>>)] = Holding(<<>>, had(k))}
<1>9. 0 \in T
  <2>1. had(0) = <<>>
    BY SubSeqEmpty
  <2>2. <<>> \in Seq(Byte) /\ Len(<<>>) < 4
    OBVIOUS
  <2>3. Holding(<<>>, <<>>) \in Unframer /\ Holding(<<>>, <<>>).partial = <<>>
    BY <2>2, HoldingFields
  <2>4. Unframe[Holding(<<>>, <<>>)] = Holding(<<>>, <<>>)
    BY <2>2, <2>3, UnframeTurns
  <2>5. 0 \in 0 .. n - 1
    OBVIOUS
  <2>. QED BY <1>6, <2>1, <2>2, <2>4, <2>5
<1>10. ASSUME NEW k \in Nat, f[k] \in Seq(Byte), NEW w \in Seq(Byte), Len(w) = 4,
              had(k) \in Seq(Byte),
              Unframe[Holding(f[k], <<>>)] = Holding(<<>>, had(k))
       PROVE  /\ f[k] \o w \in Seq(Byte)
              /\ Unframe[Holding(f[k] \o w, <<>>)] = Unframe[Holding(w, had(k))]
  <2> DEFINE h == had(k)
             e == <<>>
  <2> HIDE DEF had, h, e
  <2>1. e \in Seq(Byte) /\ h \in Seq(Byte) /\ e \o w = w
    BY <1>10, ConcatEmptySeq DEF e, h
  <2>2. Holding(f[k], e) \in Unframer
    BY <1>10, <2>1, HoldingFields
  <2>3. More(Holding(f[k], e), w) = Holding(f[k] \o w, e)
    BY <1>10, <2>1, HoldingMore
  <2>4. More(Holding(e, h), w) = Holding(w, h)
    <3>1. More(Holding(e, h), w) = Holding(e \o w, h)
      BY <1>10, <2>1, HoldingMore
    <3>. QED BY <2>1, <3>1, Zenon
  <2>5. Unframe[More(Holding(f[k], e), w)] = Unframe[More(Unframe[Holding(f[k], e)], w)]
    BY <2>2, UnframeMore
  <2>6. Unframe[Holding(f[k], e)] = Holding(e, h)
    BY <1>10 DEF e, h
  <2>7. f[k] \o w \in Seq(Byte)
    BY <1>10, Joined
  <2>8. Unframe[Holding(f[k] \o w, e)] = Unframe[Holding(w, h)]
    BY <2>3, <2>4, <2>5, <2>6, Zenon
  <2>. QED BY <2>7, <2>8 DEF e, h
<1>11. ASSUME NEW k \in 0 .. (n - 1) - 1, k \in T PROVE k + 1 \in T
  <2>1. f[k] \in Seq(Byte) /\ Unframe[Holding(f[k], <<>>)] = Holding(<<>>, had(k))
    BY <1>11
  <2>2. k + 1 \in 1 .. n - 1 /\ k + 1 \in 1 .. n /\ (k + 1) - 1 = k /\ k \in Nat
    OBVIOUS
  <2> DEFINE w == s[k + 1]
             m == 3 * k
  <2>3. /\ w \in Seq(Byte) /\ Len(w) = 4 /\ w[1] = 20
        /\ \A i \in 1 .. 3 : w[1 + i] = msg[m + i]
    BY <1>4, <2>2
  <2>4. f[k + 1] = f[k] \o w
    BY <1>8, <2>2
  <2> HIDE DEF w
  <2>5. m \in Nat /\ 3 \in 1 .. 3 /\ m + 3 <= Len(msg) /\ m + 3 = 3 * (k + 1)
    BY <1>2
  <2> HIDE DEF m
  <2>6. /\ SubSeq(msg, 1, m) \in Seq(Byte)
        /\ SubSeq(msg, 1, m) \o SubSeq(w, 2, 1 + 3) = SubSeq(msg, 1, m + 3)
    <3>1. m \in Nat /\ 3 \in 1 .. 3 /\ m + 3 <= Len(msg)
      BY <2>5
    <3>2. w \in Seq(Byte) /\ Len(w) = 4 /\ \A i \in 1 .. 3 : w[1 + i] = msg[m + i]
      BY <2>3
    <3>. QED BY <3>1, <3>2, Grown
  <2>7. had(k) \in Seq(Byte) /\ had(k) \o SubSeq(w, 2, 4) = had(k + 1)
    <3>1. 1 + 3 = 4
      OBVIOUS
    <3>. QED BY <2>5, <2>6, <3>1 DEF m
  <2> HIDE DEF had
  <2>8. /\ f[k] \o w \in Seq(Byte)
        /\ Unframe[Holding(f[k] \o w, <<>>)] = Unframe[Holding(w, had(k))]
    BY <1>10, <2>1, <2>2, <2>3, <2>7
  <2>9. Unframe[Holding(w, had(k))] = Holding(<<>>, had(k) \o SubSeq(w, 2, 4))
    BY <2>3, <2>7, GroupTurns
  <2>10. k + 1 \in 0 .. n - 1
    OBVIOUS
  <2>11. Unframe[Holding(f[k + 1], <<>>)] = Holding(<<>>, had(k + 1))
    BY <2>4, <2>7, <2>8, <2>9, Zenon
  <2>. QED BY <2>4, <2>8, <2>10, <2>11
<1>12. n - 1 \in Nat
  OBVIOUS
<1> HIDE DEF T
<1>13. n - 1 \in T
  BY <1>9, <1>11, <1>12, Joins!Induction
<1>14. f[n - 1] \in Seq(Byte) /\ Unframe[Holding(f[n - 1], <<>>)] = Holding(<<>>, had(n - 1))
  BY <1>13 DEF T
<1> DEFINE w == s[n]
           m == 3 * (n - 1)
<1>15. f[n] = f[n - 1] \o w
  <2>1. n \in 1 .. n
    OBVIOUS
  <2>. QED BY <1>8, <2>1
<1>16. m + last = Len(msg)
  BY <1>3 DEF last
<1>17. /\ SubSeq(msg, 1, m) \in Seq(Byte)
       /\ SubSeq(msg, 1, m) \o SubSeq(w, 2, 1 + last) = SubSeq(msg, 1, m + last)
  <2>1. m \in Nat /\ last \in 1 .. 3 /\ m + last <= Len(msg)
    BY <1>3, <1>16
  <2>2. w \in Seq(Byte) /\ Len(w) = 4 /\ \A i \in 1 .. last : w[1 + i] = msg[m + i]
    BY <1>5
  <2> HIDE DEF w, m
  <2>. QED BY <2>1, <2>2, Grown
<1>18. SubSeq(msg, 1, m + last) = msg
  BY <1>16, SubSeqFull
<1> HIDE DEF had
<1>19. had(n - 1) \in Seq(Byte) /\ had(n - 1) \o SubSeq(w, 2, 1 + last) = msg
  BY <1>17, <1>18 DEF had
<1>20. w \in Seq(Byte) /\ Len(w) = 4 /\ w[1] = 20 + last
  BY <1>5
<1> HIDE DEF w
<1>21. /\ f[n - 1] \o w \in Seq(Byte)
       /\ Unframe[Holding(f[n - 1] \o w, <<>>)] = Unframe[Holding(w, had(n - 1))]
  BY <1>10, <1>12, <1>14, <1>19, <1>20
<1>22. Unframe[Holding(w, had(n - 1))] =
         [partial |-> <<>>, current |-> <<>>, out |-> <<had(n - 1) \o SubSeq(w, 2, 1 + last)>>]
  BY <1>3, <1>19, <1>20, GroupTurns
<1>. QED BY <1>7, <1>15, <1>19, <1>21, <1>22, Zenon

LEMMA NewFits ==
  NewUnframer \in Unframer /\ NewUnframer.partial = <<>> /\ NewUnframer.current = <<>>
<1>1. NewUnframer = Holding(<<>>, <<>>)
  BY DEF NewUnframer, Holding
<1>. QED BY <1>1, EmptyBytes, HoldingFields

LEMMA Pushed ==
  ASSUME NEW u \in Unframer, u.partial = <<>>, u.current = <<>>, NEW d \in Seq(Byte)
  PROVE  UnframerPush(u, d) = Unframe[Holding(d, <<>>)]
<1>1. PICK v \in Unframer : /\ v.partial = u.partial /\ v.current = u.current /\ v.out = <<>>
                            /\ UnframerPush(u, d) = Unframe[More(v, d)]
  BY PushIs
<1>2. u.partial \o d = d
  <2>1. <<>> \o d = d
    BY ConcatEmptySeq
  <2>. QED BY <2>1
<1>3. /\ More(v, d) \in Unframer /\ More(v, d).partial = v.partial \o d
      /\ More(v, d).current = v.current /\ More(v, d).out = v.out
  BY MoreFields
<1> DEFINE h == Holding(d, <<>>)
<1>4. h \in Unframer /\ h.partial = d /\ h.current = <<>> /\ h.out = <<>>
  BY EmptyBytes, HoldingFields
<1> HIDE DEF h
<1>5. More(v, d) = h
  BY <1>1, <1>2, <1>3, <1>4, SameUnframer
<1>. QED BY <1>1, <1>5 DEF h

\* What is framed comes back (midi3.rs, frame and Unframer::push): messages of
\* a byte or more, framed one after the other, are what the Unframer hands
\* over, and it keeps nothing.
THEOREM FramesComeBack ==
  ASSUME NEW msgs \in Seq(Seq(Byte) \ {<<>>})
  PROVE  LET bytes == Concat([i \in 1 .. Len(msgs) |-> frame(msgs[i])])
         IN  /\ bytes \in Seq(Byte)
             /\ UnframerPush(NewUnframer, bytes) = [NewUnframer EXCEPT !.out = msgs]
<1> DEFINE n == Len(msgs)
           s == [i \in 1 .. n |-> frame(msgs[i])]
           Gave(o) == [partial |-> <<>>, current |-> <<>>, out |-> o]
<1>1. n \in Nat /\ Len(s) = n /\ \A i \in 1 .. n : msgs[i] \in Seq(Byte) /\ msgs[i] # <<>>
  OBVIOUS
<1>2. \A i \in 1 .. n : s[i] = frame(msgs[i])
  OBVIOUS
<1> HIDE DEF n, s
<1>3. PICK f : /\ f[0] = <<>>
               /\ \A i \in 1 .. Len(s) : f[i] = JoinStep(f[i - 1], s[i])
               /\ Concat(s) = f[Len(s)]
  <2>1. Len(s) \in Nat
    BY <1>1
  <2>. QED BY <2>1, JoinRuns
<1>4. Concat(s) = f[n]
  BY <1>1, <1>3
<1>5. \A i \in 1 .. n : f[i] = f[i - 1] \o s[i]
  BY <1>1, <1>3 DEF JoinStep
<1>6. NewUnframer = Gave(<<>>)
  BY DEF NewUnframer
<1> DEFINE T == {k \in 0 .. n : /\ f[k] \in Seq(Byte)
                                /\ UnframerPush(NewUnframer, f[k]) = Gave(SubSeq(msgs, 1, k))}
<1>7. 0 \in T
  <2>1. <<>> \in Seq(Byte) /\ Len(<<>>) < 4 /\ SubSeq(msgs, 1, 0) = <<>> /\ 0 \in 0 .. n
    BY <1>1, SubSeqEmpty
  <2>2. Holding(<<>>, <<>>) \in Unframer /\ Holding(<<>>, <<>>).partial = <<>>
    BY <2>1, HoldingFields
  <2>3. Unframe[Holding(<<>>, <<>>)] = Holding(<<>>, <<>>)
    BY <2>1, <2>2, UnframeTurns
  <2>4. UnframerPush(NewUnframer, <<>>) = Unframe[Holding(<<>>, <<>>)]
    BY <2>1, NewFits, Pushed
  <2>. QED BY <1>3, <2>1, <2>3, <2>4 DEF Holding
<1>8. ASSUME NEW k \in 0 .. n - 1, k \in T PROVE k + 1 \in T
  <2> DEFINE a   == f[k]
             b   == s[k + 1]
             had == SubSeq(msgs, 1, k)
             msg == msgs[k + 1]
  <2>1. a \in Seq(Byte) /\ UnframerPush(NewUnframer, a) = Gave(had)
    BY <1>8
  <2>2. k + 1 \in 1 .. n /\ (k + 1) - 1 = k /\ k + 1 \in 0 .. n
    BY <1>1
  <2>3. msg \in Seq(Byte) /\ msg # <<>> /\ b = frame(msg)
    BY <1>1, <1>2, <2>2
  <2>4. f[k + 1] = a \o b
    BY <1>5, <2>2
  <2>5. had \o <<msg>> = SubSeq(msgs, 1, k + 1)
    <3>1. /\ k + 1 \in 1 .. Len(msgs) /\ 1 \in 1 .. Len(msgs) /\ k + 1 \in 1 .. Len(msgs)
          /\ (k + 1) - 1 = k
      BY <2>2 DEF n
    <3>2. SubSeq(msgs, 1, k + 1) = SubSeq(msgs, 1, (k + 1) - 1) \o <<msgs[k + 1]>>
      BY <3>1, SubSeqRecursiveSecond
    <3>. QED BY <3>1, <3>2
  <2> HIDE DEF a, b, had, msg
  <2>6. b \in Seq(Byte) /\ Unframe[Holding(b, <<>>)] = Gave(<<msg>>)
    BY <2>3, FrameTurns
  <2>7. had \in Seq(Seq(Byte))
    <3>1. /\ 1 \in Nat /\ k \in Nat /\ 1 <= 1 /\ 1 <= k + 1 /\ k <= Len(msgs)
          /\ msgs \in Seq(Seq(Byte))
      BY <1>1 DEF n
    <3>. QED BY <3>1, Cut DEF had
  <2>8. LET first  == UnframerPush(NewUnframer, a)
            second == UnframerPush(first, b)
        IN  UnframerPush(NewUnframer, a \o b) = [second EXCEPT !.out = first.out \o @]
    BY <2>1, <2>6, NewFits, CutsDoNotMatter
  <2>9. UnframerPush(Gave(had), b) = Gave(<<msg>>)
    <3>1. Gave(had) \in Unframer
      BY <2>7, EmptyBytes DEF Unframer
    <3>2. Gave(had).partial = <<>> /\ Gave(had).current = <<>>
      OBVIOUS
    <3> HIDE DEF Gave
    <3>3. UnframerPush(Gave(had), b) = Unframe[Holding(b, <<>>)]
      BY <2>6, <3>1, <3>2, Pushed
    <3>. QED BY <2>6, <3>3
  <2> DEFINE told == Gave(<<msg>>)
             all  == had \o <<msg>>
  <2>10. UnframerPush(NewUnframer, a \o b) = After(had, told)
    <3>1. UnframerPush(NewUnframer, a).out = had
      BY <2>1
    <3>. QED BY <2>1, <2>8, <2>9, <3>1, Zenon DEF After
  <2>11. After(had, told) = Gave(all)
    <3>1. had \in Seq(Seq(Byte)) /\ <<msg>> \in Seq(Seq(Byte))
      BY <2>3, <2>7
    <3>2. all \in Seq(Seq(Byte))
      BY <3>1, Joined
    <3>3. told \in Unframer /\ told.partial = <<>> /\ told.current = <<>> /\ told.out = <<msg>>
      BY <3>1, EmptyBytes DEF Unframer
    <3> HIDE DEF told, all
    <3>4. Gave(all) \in Unframer
      BY <3>2, EmptyBytes DEF Unframer
    <3>5. Gave(all).partial = <<>> /\ Gave(all).current = <<>> /\ Gave(all).out = all
      OBVIOUS
    <3>6. /\ After(had, told) \in Unframer /\ After(had, told).out = had \o told.out
          /\ After(had, told).current = told.current /\ After(had, told).partial = told.partial
      BY <3>1, <3>3, AfterFields
    <3> HIDE DEF Gave
    <3>. QED BY <3>3, <3>4, <3>5, <3>6, SameUnframer DEF all
  <2>12. a \o b \in Seq(Byte)
    BY <2>1, <2>6, Joined
  <2>. QED BY <2>2, <2>4, <2>5, <2>10, <2>11, <2>12
<1> HIDE DEF T
<1>9. n \in T
  BY <1>1, <1>7, <1>8, Joins!Induction
<1>10. f[n] \in Seq(Byte) /\ UnframerPush(NewUnframer, f[n]) = Gave(SubSeq(msgs, 1, n))
  BY <1>9 DEF T
<1>11. SubSeq(msgs, 1, n) = msgs
  BY SubSeqFull DEF n
<1>12. [NewUnframer EXCEPT !.out = msgs] = Gave(msgs)
  BY DEF NewUnframer
<1>. QED BY <1>4, <1>10, <1>11, <1>12 DEF s, n

-----------------------------------------------------------------------------
(***************************************************************************)
(* Discovery: who is found is a device.                                     *)
(***************************************************************************)

Addresses == Devices \union Strangers \union {Self}
Payloads  == {build_poll_request(MAC)} \union {ReplyOf[ip] : ip \in Devices}
Pollers   == [at : {"idle", "bound", "listening", "done", "failed"}, left : Int, next : Int,
              replies : [Addresses -> Payloads \union {None}]]

DiscoveryType ==
  /\ poller \in Pollers
  /\ lan \in SUBSET [from : Addresses, payload : Payloads]
  /\ polled \in SUBSET Devices

\* What is not a device sends polls, and has no reply on record.
Echoes(ds)      == \A d \in ds : d.from \in Devices \/ d.payload = build_poll_request(MAC)
Replied(replies) == \A ip \in Addresses : ip \notin Devices => replies[ip] = None

DInv == DiscoveryType /\ Echoes(lan) /\ Replied(poller.replies)

LEMMA NoRepliesOK ==
  /\ NoReplies \in [Addresses -> Payloads \union {None}] /\ Replied(NoReplies)
  /\ \A at \in {"idle", "bound", "listening", "done", "failed"} :
       Poller(at) \in Pollers /\ Poller(at).replies = NoReplies
<1>1. NoReplies \in [Addresses -> Payloads \union {None}] /\ Replied(NoReplies)
  BY DEF NoReplies, Addresses, Replied
<1>. QED BY <1>1 DEF Poller, Pollers

LEMMA DInvInit == DiscoveryInit => DInv
<1> SUFFICES ASSUME DiscoveryInit PROVE DInv
  OBVIOUS
<1>1. poller = Poller("idle") /\ lan = {} /\ polled = {}
  BY DEF DiscoveryInit
<1>2. poller \in Pollers /\ poller.replies = NoReplies
  BY <1>1, NoRepliesOK
<1>. QED BY <1>1, <1>2, NoRepliesOK DEF DInv, DiscoveryType, Echoes

\* One more datagram on the way.
LEMMA OnTheWay ==
  ASSUME NEW rest, rest \in SUBSET [from : Addresses, payload : Payloads], Echoes(rest),
         NEW from \in Addresses, NEW payload \in Payloads,
         from \in Devices \/ payload = build_poll_request(MAC)
  PROVE  LET more == rest \union {[from |-> from, payload |-> payload]}
         IN  more \in SUBSET [from : Addresses, payload : Payloads] /\ Echoes(more)
<1> DEFINE d == [from |-> from, payload |-> payload]
<1>1. /\ d \in [from : Addresses, payload : Payloads]
      /\ d.from \in Devices \/ d.payload = build_poll_request(MAC)
  OBVIOUS
<1> HIDE DEF d
<1>2. /\ rest \union {d} \in SUBSET [from : Addresses, payload : Payloads]
      /\ Echoes(rest \union {d})
  BY <1>1 DEF Echoes
<1>. QED BY <1>2 DEF d

LEMMA TurnKeeps ==
  ASSUME DInv, poller.at = "listening",
         NEW replies \in [Addresses -> Payloads \union {None}], Replied(replies),
         NEW rest, rest \in SUBSET [from : Addresses, payload : Payloads], Echoes(rest),
         Turn(replies, rest)
  PROVE  DInv'
<1> DEFINE poll == build_poll_request(MAC)
<1>1. Self \in Addresses /\ poll \in Payloads
  BY DEF Addresses, Payloads
<1>2. poller \in Pollers /\ RepeatEvery \in Int
  BY DiscoveryAssumption DEF DInv, DiscoveryType
<1>3. CASE /\ poller' = [poller EXCEPT !.replies = replies, !.next = RepeatEvery]
           /\ lan' = rest \union {[from |-> Self, payload |-> poll]}
           /\ polled' = Devices
  <2>1. poller' \in Pollers /\ poller'.replies = replies
    BY <1>2, <1>3 DEF Pollers
  <2>2. lan' \in SUBSET [from : Addresses, payload : Payloads] /\ Echoes(lan')
    BY <1>1, <1>3, OnTheWay
  <2>. QED BY <1>3, <2>1, <2>2 DEF DInv, DiscoveryType, Replied, Echoes
<1>4. CASE poller' = Poller("failed") /\ UNCHANGED <<lan, polled>>
  <2>1. poller' \in Pollers /\ Replied(poller'.replies)
    BY <1>4, NoRepliesOK
  <2>. QED BY <1>4, <2>1 DEF DInv, DiscoveryType, Replied, Echoes
<1>5. CASE /\ poller' = [poller EXCEPT !.replies = replies]
           /\ lan' = rest /\ UNCHANGED <<port, polled>>
  <2>1. poller' \in Pollers /\ poller'.replies = replies
    BY <1>2, <1>5 DEF Pollers
  <2>. QED BY <1>5, <2>1 DEF DInv, DiscoveryType, Replied, Echoes
<1>. QED BY <1>3, <1>4, <1>5 DEF Turn, RoundFails

LEMMA DInvStep ==
  ASSUME DInv,
         \/ Discover \/ Tick
         \/ poller' = Poller("idle") /\ UNCHANGED <<lan, polled>>
         \/ UNCHANGED discovery
  PROVE  DInv'
<1>1. /\ poller \in Pollers /\ lan \in SUBSET [from : Addresses, payload : Payloads]
      /\ poller.replies \in [Addresses -> Payloads \union {None}]
      /\ Echoes(lan) /\ Replied(poller.replies) /\ polled \in SUBSET Devices
  BY DEF DInv, DiscoveryType, Pollers
<1>2. ASSUME NEW at \in {"idle", "bound", "failed"}, poller' = Poller(at),
             UNCHANGED <<lan, polled>>
      PROVE  DInv'
  <2>1. poller' \in Pollers /\ Replied(poller'.replies)
    BY <1>2, NoRepliesOK
  <2>. QED BY <1>1, <1>2, <2>1 DEF DInv, DiscoveryType, Replied, Echoes
<1>3. CASE Acquire
  BY <1>2, <1>3 DEF Acquire
<1>4. ASSUME RoundFails PROVE DInv'
  BY <1>2, <1>4 DEF RoundFails
<1>5. CASE StartPoll
  <2>1. CASE /\ poller' = [Poller("listening") EXCEPT !.left = ListenFor, !.next = RepeatEvery]
             /\ SendRound
    <3>1. Poller("listening") \in Pollers /\ Poller("listening").replies = NoReplies
      BY NoRepliesOK
    <3>2. ListenFor \in Int /\ RepeatEvery \in Int
      BY DiscoveryAssumption
    <3> DEFINE begun == Poller("listening")
    <3>6. poller' = [begun EXCEPT !.left = ListenFor, !.next = RepeatEvery]
      BY <2>1
    <3> HIDE DEF begun
    <3>7. poller' \in Pollers /\ poller'.replies = NoReplies
      BY <3>1, <3>2, <3>6 DEF Pollers, begun
    <3>3. Self \in Addresses /\ build_poll_request(MAC) \in Payloads
      BY DEF Addresses, Payloads
    <3>4. /\ lan' = lan \union {[from |-> Self, payload |-> build_poll_request(MAC)]}
          /\ polled' = Devices
      BY <2>1 DEF SendRound
    <3>5. lan' \in SUBSET [from : Addresses, payload : Payloads] /\ Echoes(lan')
      BY <1>1, <3>3, <3>4, OnTheWay
    <3>. QED BY <3>4, <3>5, <3>7, NoRepliesOK DEF DInv, DiscoveryType, Replied, Echoes
  <2>. QED BY <1>4, <1>5, <2>1 DEF StartPoll
<1>6. CASE ReceiveFails
  BY <1>4, <1>6 DEF ReceiveFails
<1>7. CASE WindowEnds
  BY <1>1, <1>7, TurnKeeps DEF WindowEnds, Listening
<1>8. CASE PollEnds
  <2>1. Poller("done") \in Pollers
    BY NoRepliesOK
  <2>2. poller' = [Poller("done") EXCEPT !.replies = poller.replies] /\ lan' = {} /\ polled' = {}
    BY <1>8 DEF PollEnds
  <2>3. poller' \in Pollers /\ poller'.replies = poller.replies
    BY <1>1, <2>1, <2>2 DEF Pollers
  <2>. QED BY <1>1, <2>2, <2>3 DEF DInv, DiscoveryType, Replied, Echoes
<1>9. ASSUME NEW d \in lan, Receive(d) PROVE DInv'
  <2> DEFINE replies == IF is_poll(d.payload) THEN poller.replies
                        ELSE [poller.replies EXCEPT ![d.from] = d.payload]
  <2>1. d.from \in Addresses /\ d.payload \in Payloads
    BY <1>1, <1>9
  <2>2. d.from \notin Devices => is_poll(d.payload)
    BY <1>1, <1>9, PollIsPoll DEF Echoes
  <2>3. replies \in [Addresses -> Payloads \union {None}]
    BY <1>1, <2>1
  <2>4. Replied(replies)
    BY <1>1, <2>1, <2>2 DEF Replied
  <2>5. lan \ {d} \in SUBSET [from : Addresses, payload : Payloads] /\ Echoes(lan \ {d})
    BY <1>1 DEF Echoes
  <2>6. Turn(replies, lan \ {d}) /\ poller.at = "listening"
    BY <1>9 DEF Receive, Listening
  <2> HIDE DEF replies
  <2>. QED BY <2>3, <2>4, <2>5, <2>6, TurnKeeps
<1>10. ASSUME NEW ip \in Devices, DeviceAnswers(ip) PROVE DInv'
  <2>1. ip \in Addresses /\ ReplyOf[ip] \in Payloads
    BY DEF Addresses, Payloads
  <2>2. /\ lan' = lan \union {[from |-> ip, payload |-> ReplyOf[ip]]}
        /\ polled' = polled \ {ip} /\ poller' = poller
    BY <1>10 DEF DeviceAnswers
  <2>3. lan' \in SUBSET [from : Addresses, payload : Payloads] /\ Echoes(lan')
    BY <1>1, <1>10, <2>1, <2>2, OnTheWay
  <2>. QED BY <1>1, <2>2, <2>3 DEF DInv, DiscoveryType, Replied, Echoes
<1>11. ASSUME NEW ip \in Strangers, StrangerPolls(ip) PROVE DInv'
  <2>1. ip \in Addresses /\ build_poll_request(MAC) \in Payloads
    BY <1>11 DEF Addresses, Payloads
  <2>2. /\ lan' = lan \union {[from |-> ip, payload |-> build_poll_request(MAC)]}
        /\ polled' = polled /\ poller' = poller
    BY <1>11 DEF StrangerPolls
  <2>3. lan' \in SUBSET [from : Addresses, payload : Payloads] /\ Echoes(lan')
    BY <1>1, <2>1, <2>2, OnTheWay
  <2>. QED BY <1>1, <2>2, <2>3 DEF DInv, DiscoveryType, Replied, Echoes
<1>12. CASE Tick
  <2>1. /\ poller' = [poller EXCEPT !.left = @ - 1, !.next = IF @ = 0 THEN 0 ELSE @ - 1]
        /\ UNCHANGED <<lan, polled>>
    BY <1>12 DEF Tick
  <2> DEFINE left == poller.left - 1
             next == IF poller.next = 0 THEN 0 ELSE poller.next - 1
  <2>2. left \in Int /\ next \in Int
    BY <1>1 DEF Pollers
  <2>3. poller' = [poller EXCEPT !.left = left, !.next = next]
    BY <2>1
  <2> HIDE DEF left, next
  <2>4. poller' \in Pollers /\ poller'.replies = poller.replies
    BY <1>1, <2>2, <2>3 DEF Pollers
  <2>. QED BY <1>1, <2>1, <2>4 DEF DInv, DiscoveryType, Replied, Echoes
<1>13. CASE poller' = Poller("idle") /\ UNCHANGED <<lan, polled>>
  BY <1>2, <1>13
<1>14. CASE UNCHANGED discovery
  BY <1>1, <1>14 DEF DInv, DiscoveryType, Replied, Echoes, discovery
<1>. QED BY <1>3, <1>5, <1>6, <1>7, <1>8, <1>9, <1>10, <1>11, <1>12, <1>13, <1>14 DEF Discover

LEMMA FoundAreDevices == ASSUME DInv, NEW ip \in Found PROVE ip \in Devices
<1>1. DOMAIN poller.replies = Addresses
  BY DEF DInv, DiscoveryType, Pollers
<1>. QED BY <1>1 DEF DInv, Replied, Found

-----------------------------------------------------------------------------
(***************************************************************************)
(* Opening: the lines of a greeting, and what follows an acknowledgement.   *)
(***************************************************************************)

\* A name of a protocol has no line end.
Line(s) == s \in Seq(Byte) /\ \A i \in 1 .. Len(s) : s[i] # 13 /\ s[i] # 10

LEMMA GreetingBytes ==
  ASSUME NEW o \in Offers
  PROVE  /\ Greeting(o) \in Seq(Byte) /\ Len(Greeting(o)) >= 3 /\ Len(Greeting(o)) < MaxRead
         /\ Greeting(o)[Len(Greeting(o)) - 1] = 13 /\ Greeting(o)[Len(Greeting(o))] = 10
<1> DEFINE lines == [i \in DOMAIN o |-> o[i] \o CRLF]
           names == Concat(lines)
           most  == names \o HANDSHAKE_LIST_END
           all   == most \o CRLF
<1>1. CRLF \in Seq(Byte) /\ Len(CRLF) = 2 /\ CRLF[1] = 13 /\ CRLF[2] = 10
  BY DEF CRLF, Byte
<1>2. HANDSHAKE_LIST_END \in Seq(Byte) /\ Len(HANDSHAKE_LIST_END) = 1
  BY DEF HANDSHAKE_LIST_END, Byte
<1>3. o \in Seq(Seq(Byte))
  BY GreetingAssumption
<1>4. Len(lines) = Len(o) /\ Len(o) \in Nat
  BY <1>3
<1>5. ASSUME NEW i \in 1 .. Len(lines) PROVE lines[i] \in Seq(Byte)
  <2>1. i \in DOMAIN o /\ o[i] \in Seq(Byte)
    BY <1>3, <1>4
  <2>2. o[i] \o CRLF \in Seq(Byte)
    BY <1>1, <2>1, Joined
  <2>. QED BY <2>1, <2>2
<1> HIDE DEF lines
<1>6. names \in Seq(Byte)
  BY <1>4, <1>5, ConcatOfBytes
<1> HIDE DEF names
<1>7. most \in Seq(Byte) /\ Len(most) = Len(names) + 1
  <2>1. most \in Seq(Byte) /\ Len(most) = Len(names) + Len(HANDSHAKE_LIST_END)
    BY <1>2, <1>6, Joined
  <2>. QED BY <1>2, <2>1
<1> HIDE DEF most
<1>8. /\ all \in Seq(Byte) /\ Len(all) = Len(most) + Len(CRLF)
      /\ \A i \in 1 .. Len(CRLF) : all[Len(most) + i] = CRLF[i]
  <2>1. most \in Seq(Byte) /\ CRLF \in Seq(Byte)
    BY <1>1, <1>7
  <2>. QED BY <2>1, Joined
<1>9. Greeting(o) = all
  BY DEF Greeting, all, most, names, lines
<1> HIDE DEF all
<1>10. Len(all) = Len(most) + 2 /\ all[Len(most) + 1] = 13 /\ all[Len(most) + 2] = 10
  BY <1>1, <1>8
<1>11. Len(names) \in Nat /\ Len(most) + 1 = Len(all) - 1 /\ Len(all) >= 3
  BY <1>6, <1>7, <1>10
<1>12. Len(Greeting(o)) < MaxRead
  BY GreetingAssumption
<1>. QED BY <1>8, <1>9, <1>10, <1>11, <1>12

\* The names parsed are runs of the bytes, without a line end.
LEMMA Parsed ==
  ASSUME NEW bytes \in Seq(Byte)
  PROVE  LET p == parse_protocol_list(bytes)
         IN  /\ p \in Seq(Seq(Byte))
             /\ \A n \in 1 .. Len(p) :
                  \E i \in 1 .. Len(bytes) : \E e \in i .. Len(bytes) :
                    p[n] = SubSeq(bytes, i, e) /\ \A k \in i .. e : bytes[k] \notin {13, 10}
<1> DEFINE ending(i) == i \notin DOMAIN bytes \/ bytes[i] \in {13, 10}
           ends(i)   == {e \in i .. Len(bytes) : ending(e + 1)}
           line(i)   == SubSeq(bytes, i, Min(ends(i)))
           starts    == {i \in DOMAIN bytes : ~ending(i) /\ ending(i - 1)}
           names     == {i \in starts : \A j \in starts : j <= i => line(j) # HANDSHAKE_LIST_END}
           rank(i)   == Cardinality({j \in names : j <= i})
           nth(n)    == CHOOSE i \in names : rank(i) = n
           c         == Cardinality(names)
           p         == [n \in 1 .. c |-> line(nth(n))]
           Run(s)    == \E i \in 1 .. Len(bytes) : \E e \in i .. Len(bytes) :
                          s = SubSeq(bytes, i, e) /\ \A k \in i .. e : bytes[k] \notin {13, 10}
<1>1. parse_protocol_list(bytes) = p
  BY DEF parse_protocol_list
<1>2. DOMAIN bytes = 1 .. Len(bytes) /\ Len(bytes) \in Nat
  OBVIOUS
<1>3. ASSUME NEW i \in starts PROVE line(i) \in Seq(Byte) /\ Run(line(i))
  <2>1. i \in 1 .. Len(bytes) /\ ~ending(i)
    BY <1>2
  <2>2. ends(i) \in SUBSET Nat /\ Len(bytes) \in ends(i)
    BY <1>2, <2>1
  <2> DEFINE e == Min(ends(i))
  <2>3. e \in ends(i) /\ \A y \in ends(i) : e <= y
    BY <2>2, Least
  <2>4. e \in i .. Len(bytes) /\ \A y \in i .. Len(bytes) : ending(y + 1) => e <= y
    BY <2>3
  <2> HIDE DEF e
  <2>5. ASSUME NEW k \in i .. e PROVE bytes[k] \notin {13, 10}
    <3>1. CASE k = i
      BY <2>1, <3>1
    <3>2. CASE k # i
      <4>1. k - 1 \in i .. Len(bytes) /\ ~ (e <= k - 1) /\ (k - 1) + 1 = k
        BY <2>1, <2>4, <3>2
      <4>2. ~ending(k)
        BY <2>4, <4>1
      <4>. QED BY <4>2
    <3>. QED BY <3>1, <3>2
  <2>6. SubSeq(bytes, i, e) \in Seq(Byte)
    <3>1. i \in Nat /\ e \in Nat /\ 1 <= i /\ i <= e + 1 /\ e <= Len(bytes)
      BY <2>1, <2>4, <1>2
    <3>. QED BY <3>1, Cut
  <2>7. line(i) = SubSeq(bytes, i, e)
    BY DEF e
  <2> HIDE DEF line
  <2>. QED BY <2>1, <2>4, <2>5, <2>6, <2>7
<1>4. names \subseteq 1 .. Len(bytes) /\ names \subseteq starts
  BY <1>2
<1>5. c \in Nat
  <2>1. IsFiniteSet(1 .. Len(bytes))
    BY <1>2, FS_Interval
  <2>2. IsFiniteSet(names)
    BY <1>4, <2>1, FS_Subset
  <2> HIDE DEF names
  <2>. QED BY <2>2, FS_CardinalityType
<1> HIDE DEF names, starts, line
<1>6. ASSUME NEW n \in 1 .. c PROVE nth(n) \in names
  <2>1. \E i \in names : rank(i) = n
    BY <1>2, <1>4, RankTaken
  <2>. QED BY <2>1
<1> HIDE DEF nth
<1>7. \A n \in 1 .. c : line(nth(n)) \in Seq(Byte) /\ Run(line(nth(n)))
  BY <1>3, <1>4, <1>6
<1> HIDE DEF Run
<1>8. p \in Seq(Seq(Byte)) /\ Len(p) = c /\ \A n \in 1 .. c : p[n] = line(nth(n))
  BY <1>5, <1>7
<1> HIDE DEF p
<1>9. \A n \in 1 .. Len(p) : Run(p[n])
  BY <1>7, <1>8
<1>. QED BY <1>1, <1>8, <1>9 DEF Run

\* What is chosen of bytes is one of their names; and for a control link its own.
LEMMA ChosenOfBytes ==
  ASSUME NEW kind, NEW bytes \in Seq(Byte), Chosen(kind, parse_protocol_list(bytes)) # None
  PROVE  LET chosen == Chosen(kind, parse_protocol_list(bytes))
         IN  /\ chosen \in Seq(Byte)
             /\ kind = "control" => chosen = PROTOCOL_CBOR_CONTROL
             /\ \E i \in 1 .. Len(bytes) : \E e \in i .. Len(bytes) :
                  chosen = SubSeq(bytes, i, e) /\ \A k \in i .. e : bytes[k] \notin {13, 10}
<1> DEFINE p      == parse_protocol_list(bytes)
           want   == IF kind = "stream" THEN PROTOCOL_MIDI3_STREAM ELSE PROTOCOL_CBOR_CONTROL
           chosen == Chosen(kind, p)
           Run(s) == \E i \in 1 .. Len(bytes) : \E e \in i .. Len(bytes) :
                       s = SubSeq(bytes, i, e) /\ \A k \in i .. e : bytes[k] \notin {13, 10}
<1>1. p \in Seq(Seq(Byte)) /\ \A n \in 1 .. Len(p) : Run(p[n])
  BY Parsed
<1> HIDE DEF Run, p
<1>2. chosen = IF \E i \in DOMAIN p : p[i] = want THEN want
               ELSE IF kind = "control" \/ p = <<>> THEN None ELSE Head(p)
  BY DEF Chosen
<1>3. chosen # None
  BY DEF p
<1> HIDE DEF chosen
<1>4. \E n \in 1 .. Len(p) : chosen = p[n]
  <2>1. CASE \E i \in DOMAIN p : p[i] = want
    BY <1>1, <1>2, <2>1
  <2>2. CASE ~ \E i \in DOMAIN p : p[i] = want
    <3>1. p # <<>> /\ chosen = Head(p)
      BY <1>2, <1>3, <2>2
    <3>2. 1 \in 1 .. Len(p) /\ Head(p) = p[1]
      BY <1>1, <3>1
    <3>. QED BY <3>1, <3>2
  <2>. QED BY <2>1, <2>2
<1>5. chosen \in Seq(Byte) /\ Run(chosen)
  BY <1>1, <1>4
<1>6. kind = "control" => chosen = PROTOCOL_CBOR_CONTROL
  <2>1. kind = "control" => kind # "stream"
    OBVIOUS
  <2>. QED BY <1>2, <1>3, <2>1
<1>. QED BY <1>5, <1>6 DEF chosen, p, Run

\* Of a whole greeting it is a name, short enough for its acknowledgement to be
\* read at once.
LEMMA ChosenIsLine ==
  ASSUME NEW kind, NEW o \in Offers, Chosen(kind, parse_protocol_list(Greeting(o))) # None
  PROVE  LET chosen == Chosen(kind, parse_protocol_list(Greeting(o)))
         IN  Line(chosen) /\ Len(chosen) + 3 <= MaxRead
<1> DEFINE g == Greeting(o)
           chosen == Chosen(kind, parse_protocol_list(g))
<1>1. /\ g \in Seq(Byte) /\ Len(g) >= 3 /\ Len(g) < MaxRead
      /\ g[Len(g) - 1] = 13 /\ g[Len(g)] = 10
  BY GreetingBytes
<1>2. /\ chosen \in Seq(Byte)
      /\ \E i \in 1 .. Len(g) : \E e \in i .. Len(g) :
           chosen = SubSeq(g, i, e) /\ \A k \in i .. e : g[k] \notin {13, 10}
  <2> HIDE DEF g
  <2>1. Chosen(kind, parse_protocol_list(g)) # None
    BY DEF g
  <2>. QED BY <1>1, <2>1, ChosenOfBytes
<1> HIDE DEF g, chosen
<1>0. PICK i \in 1 .. Len(g) : \E e \in i .. Len(g) :
        chosen = SubSeq(g, i, e) /\ \A k \in i .. e : g[k] \notin {13, 10}
  BY <1>2
<1>3. PICK e \in i .. Len(g) :
        chosen = SubSeq(g, i, e) /\ \A k \in i .. e : g[k] \notin {13, 10}
  BY <1>0
<1>4. Len(g) \in Nat /\ i \in Nat /\ e \in Nat /\ 1 <= i /\ i <= e /\ e <= Len(g)
  BY <1>1
<1>5. e # Len(g) /\ e # Len(g) - 1
  <2>1. e \in i .. e
    BY <1>4
  <2>2. g[e] # 13 /\ g[e] # 10
    BY <1>3, <2>1
  <2>. QED BY <1>1, <2>2
<1>6. e + 2 <= Len(g)
  BY <1>4, <1>5
<1>7. /\ Len(chosen) = (e - i) + 1
      /\ \A k \in 1 .. (e - i) + 1 : chosen[k] = g[(i + k) - 1]
  <2>1. i <= e + 1
    BY <1>4
  <2>2. /\ Len(SubSeq(g, i, e)) = (e - i) + 1
        /\ \A k \in 1 .. (e - i) + 1 : SubSeq(g, i, e)[k] = g[(i + k) - 1]
    BY <1>1, <1>4, <2>1, Cut
  <2>. QED BY <1>3, <2>2
<1>8. ASSUME NEW k \in 1 .. Len(chosen) PROVE chosen[k] # 13 /\ chosen[k] # 10
  <2>1. (i + k) - 1 \in i .. e
    BY <1>4, <1>7
  <2>. QED BY <1>3, <1>7, <2>1
<1>9. Len(chosen) + 3 <= MaxRead
  <2>1. MaxRead \in Nat
    BY OpeningAssumption
  <2>. QED BY <1>1, <1>4, <1>6, <1>7, <2>1
<1>. QED BY <1>2, <1>8, <1>9 DEF Line, chosen, g

-----------------------------------------------------------------------------
\* What has been read and what is on its way spell a word, a function of the
\* positions.
Spells(read, coming, word) ==
  /\ \A i \in 1 .. Len(read) : read[i] = word[i]
  /\ \A i \in 1 .. Len(coming) : coming[i] = word[Len(read) + i]

\* The word a device answers a choice with: a sign, the name, the line end, and
\* then what it streams.
Answer(sign, asked) ==
  [i \in Nat |-> IF i = 1 THEN sign
                 ELSE IF i <= Len(asked) + 1 THEN asked[i - 1]
                 ELSE IF i = Len(asked) + 2 THEN 13
                 ELSE IF i = Len(asked) + 3 THEN 10
                 ELSE Data(i - Len(asked) - 4)]

\* A read moves bytes from what is coming to what is read.
LEMMA ReadMoves ==
  ASSUME NEW read \in Seq(Byte), NEW coming \in Seq(Byte), NEW n \in 1 .. Len(coming)
  PROVE  LET took == SubSeq(coming, 1, n)
             rest == SubSeq(coming, n + 1, Len(coming))
             more == read \o took
         IN  /\ more \in Seq(Byte) /\ rest \in Seq(Byte)
             /\ Len(more) = Len(read) + n /\ Len(rest) = Len(coming) - n
             /\ \A word : Spells(read, coming, word) => Spells(more, rest, word)
<1> DEFINE took == SubSeq(coming, 1, n)
           rest == SubSeq(coming, n + 1, Len(coming))
           more == read \o took
<1>1. n \in Nat /\ Len(coming) \in Nat /\ 1 <= n /\ n <= Len(coming) /\ Len(read) \in Nat
  OBVIOUS
<1>2. took \in Seq(Byte) /\ Len(took) = n /\ \A i \in 1 .. n : took[i] = coming[i]
  <2>1. 1 \in Nat /\ 1 <= 1 /\ 1 <= n + 1 /\ (n - 1) + 1 = n /\ \A i \in 1 .. n : (1 + i) - 1 = i
    BY <1>1
  <2>2. /\ took \in Seq(Byte) /\ Len(took) = (n - 1) + 1
        /\ \A i \in 1 .. (n - 1) + 1 : took[i] = coming[(1 + i) - 1]
    <3>1. coming \in Seq(Byte) /\ n \in Nat /\ 1 \in Nat /\ 1 <= 1 /\ 1 <= n + 1 /\ n <= Len(coming)
      BY <1>1, <2>1
    <3>. QED BY <3>1, Cut
  <2>. QED BY <2>1, <2>2
<1>3. /\ rest \in Seq(Byte) /\ Len(rest) = Len(coming) - n
      /\ \A i \in 1 .. Len(rest) : rest[i] = coming[n + i]
  <2>1. /\ n + 1 \in Nat /\ 1 <= n + 1 /\ n + 1 <= Len(coming) + 1
        /\ (Len(coming) - (n + 1)) + 1 = Len(coming) - n
        /\ \A i \in 1 .. Len(coming) - n : ((n + 1) + i) - 1 = n + i
    BY <1>1
  <2>2. /\ rest \in Seq(Byte) /\ Len(rest) = (Len(coming) - (n + 1)) + 1
        /\ \A i \in 1 .. (Len(coming) - (n + 1)) + 1 : rest[i] = coming[((n + 1) + i) - 1]
    <3>1. /\ coming \in Seq(Byte) /\ n + 1 \in Nat /\ Len(coming) \in Nat /\ 1 <= n + 1
          /\ n + 1 <= Len(coming) + 1 /\ Len(coming) <= Len(coming)
      BY <1>1, <2>1
    <3>. QED BY <3>1, Cut
  <2>. QED BY <2>1, <2>2
<1> HIDE DEF took, rest
<1>4. /\ more \in Seq(Byte) /\ Len(more) = Len(read) + Len(took)
      /\ \A i \in 1 .. Len(read) : more[i] = read[i]
      /\ \A i \in 1 .. Len(took) : more[Len(read) + i] = took[i]
  <2>1. read \in Seq(Byte) /\ took \in Seq(Byte)
    BY <1>2
  <2>. QED BY <2>1, Joined
<1> HIDE DEF more
<1>5. ASSUME NEW word, Spells(read, coming, word) PROVE Spells(more, rest, word)
  <2>1. ASSUME NEW i \in 1 .. Len(more) PROVE more[i] = word[i]
    <3>1. CASE i <= Len(read)
      BY <1>1, <1>4, <1>5, <3>1 DEF Spells
    <3>2. CASE i > Len(read)
      <4>1. i - Len(read) \in 1 .. n /\ Len(read) + (i - Len(read)) = i
        BY <1>1, <1>2, <1>4, <3>2
      <4>2. more[Len(read) + (i - Len(read))] = took[i - Len(read)]
        BY <1>2, <1>4, <4>1
      <4>3. took[i - Len(read)] = coming[i - Len(read)] /\ i - Len(read) \in 1 .. Len(coming)
        BY <1>1, <1>2, <4>1
      <4>4. coming[i - Len(read)] = word[Len(read) + (i - Len(read))]
        BY <1>5, <4>3 DEF Spells
      <4>. QED BY <4>1, <4>2, <4>3, <4>4
    <3>. QED BY <1>1, <1>4, <3>1, <3>2
  <2>2. ASSUME NEW i \in 1 .. Len(rest) PROVE rest[i] = word[Len(more) + i]
    <3>1. n + i \in 1 .. Len(coming) /\ Len(read) + (n + i) = Len(more) + i
      BY <1>1, <1>2, <1>3, <1>4
    <3>2. rest[i] = coming[n + i]
      BY <1>3
    <3>3. coming[n + i] = word[Len(read) + (n + i)]
      BY <1>5, <3>1 DEF Spells
    <3>. QED BY <3>1, <3>2, <3>3
  <2>. QED BY <2>1, <2>2 DEF Spells
<1>. QED BY <1>2, <1>3, <1>4, <1>5 DEF more, took, rest

\* What arrives goes after what is coming.
LEMMA ArrivalAdds ==
  ASSUME NEW read \in Seq(Byte), NEW coming \in Seq(Byte), NEW x \in Seq(Byte),
         NEW word, Spells(read, coming, word),
         \A i \in 1 .. Len(x) : x[i] = word[(Len(read) + Len(coming)) + i]
  PROVE  /\ coming \o x \in Seq(Byte) /\ Len(coming \o x) = Len(coming) + Len(x)
         /\ Spells(read, coming \o x, word)
<1> DEFINE all == coming \o x
<1>1. /\ all \in Seq(Byte) /\ Len(all) = Len(coming) + Len(x)
      /\ \A i \in 1 .. Len(coming) : all[i] = coming[i]
      /\ \A i \in 1 .. Len(x) : all[Len(coming) + i] = x[i]
  BY Joined
<1>2. Len(coming) \in Nat /\ Len(read) \in Nat /\ Len(x) \in Nat
  OBVIOUS
<1> HIDE DEF all
<1>3. ASSUME NEW i \in 1 .. Len(all) PROVE all[i] = word[Len(read) + i]
  <2>1. CASE i <= Len(coming)
    BY <1>1, <1>2, <2>1 DEF Spells
  <2>2. CASE i > Len(coming)
    <3>1. /\ i - Len(coming) \in 1 .. Len(x) /\ Len(coming) + (i - Len(coming)) = i
          /\ (Len(read) + Len(coming)) + (i - Len(coming)) = Len(read) + i
      BY <1>1, <1>2, <2>2
    <3>2. all[Len(coming) + (i - Len(coming))] = x[i - Len(coming)]
      BY <1>1, <3>1
    <3>3. x[i - Len(coming)] = word[(Len(read) + Len(coming)) + (i - Len(coming))]
      BY <3>1
    <3>. QED BY <3>1, <3>2, <3>3
  <2>. QED BY <1>1, <1>2, <2>1, <2>2
<1>. QED BY <1>1, <1>3 DEF Spells, all

LEMMA DataTurns == ASSUME NEW i \in Nat PROVE Data(i % 3) = Data(i) /\ Data(i) \in Byte
<1>1. i % 3 \in 0 .. 2 /\ (i % 3) % 3 = i % 3
  OBVIOUS
<1>2. (i % 3) + 1 = 1 \/ (i % 3) + 1 = 2 \/ (i % 3) + 1 = 3
  BY <1>1
<1>3. <<13, 10, 7>>[(i % 3) + 1] \in Byte
  BY <1>2 DEF Byte
<1>. QED BY <1>1, <1>3 DEF Data

\* Where the line of an acknowledgement ends, and what response_tail leaves.
LEMMA AnswerTail ==
  ASSUME NEW sign, NEW asked, Line(asked), sign # 13,
         NEW read \in Seq(Byte), NEW coming, Spells(read, coming, Answer(sign, asked))
  PROVE  /\ (\E i \in 1 .. Len(read) - 1 : SubSeq(read, i, i + 1) = CRLF)
              => Len(asked) + 3 <= Len(read)
         /\ Len(asked) + 3 <= Len(read) =>
              LET tail == response_tail(read)
              IN  /\ tail \in Seq(Byte) /\ Len(tail) = (Len(read) - Len(asked)) - 3
                  /\ \A i \in 1 .. Len(tail) : tail[i] = Data(i - 1)
<1> DEFINE m == Len(asked)
           word == Answer(sign, asked)
           at == {i \in 1 .. Len(read) - 1 : SubSeq(read, i, i + 1) = CRLF}
<1>1. m \in Nat /\ Len(read) \in Nat /\ \A i \in 1 .. m : asked[i] # 13
  BY DEF Line
<1>2. /\ \A i \in Nat : word[i] = IF i = 1 THEN sign
                 ELSE IF i <= m + 1 THEN asked[i - 1]
                 ELSE IF i = m + 2 THEN 13
                 ELSE IF i = m + 3 THEN 10
                 ELSE Data(i - m - 4)
  BY DEF Answer
<1>3. \A i \in 1 .. Len(read) : read[i] = word[i]
  BY DEF Spells
<1> HIDE DEF m, word
<1>4. \A i \in 1 .. Len(read) - 1 : i \in at <=> read[i] = 13 /\ read[i + 1] = 10
  BY PairAt
<1> HIDE DEF at
<1>5. at \subseteq 1 .. Len(read) - 1
  BY DEF at
<1>6. ASSUME NEW i \in at PROVE m + 2 <= i /\ i + 1 <= Len(read)
  <2>1. i \in 1 .. Len(read) - 1 /\ i \in 1 .. Len(read) /\ i \in Nat
    BY <1>1, <1>5
  <2>2. read[i] = 13 /\ read[i] = word[i]
    BY <1>3, <1>4, <2>1
  <2>3. CASE i = 1
    BY <1>2, <2>1, <2>2, <2>3
  <2>4. CASE i # 1 /\ i <= m + 1
    <3>1. i - 1 \in 1 .. m
      BY <1>1, <2>1, <2>4
    <3>2. word[i] = asked[i - 1]
      BY <1>2, <2>1, <2>4
    <3>. QED BY <1>1, <2>2, <3>1, <3>2
  <2>. QED BY <1>1, <2>1, <2>3, <2>4
<1>7. ASSUME at # {} PROVE m + 3 <= Len(read)
  <2>1. PICK i \in at : TRUE
    BY <1>7
  <2>2. m + 2 <= i /\ i + 1 <= Len(read) /\ i \in Int
    BY <1>5, <1>6, <2>1
  <2>. QED BY <1>1, <2>2
<1>8. ASSUME m + 3 <= Len(read)
      PROVE  LET tail == response_tail(read)
             IN  /\ tail \in Seq(Byte) /\ Len(tail) = (Len(read) - m) - 3
                 /\ \A i \in 1 .. Len(tail) : tail[i] = Data(i - 1)
  <2>1. m + 2 \in 1 .. Len(read) - 1 /\ m + 2 \in 1 .. Len(read) /\ m + 3 \in 1 .. Len(read)
        /\ (m + 2) + 1 = m + 3
    BY <1>1, <1>8
  <2>2. word[m + 2] = 13 /\ word[m + 3] = 10
    BY <1>1, <1>2
  <2>3. read[m + 2] = 13 /\ read[(m + 2) + 1] = 10
    BY <1>3, <2>1, <2>2
  <2>4. m + 2 \in at
    BY <1>4, <2>1, <2>3
  <2>5. at \in SUBSET Nat /\ at # {}
    BY <1>1, <1>5, <2>4
  <2>6. Min(at) \in at /\ \A y \in at : Min(at) <= y
    BY <2>5, Least
  <2>7. Min(at) = m + 2
    <3>1. Min(at) <= m + 2 /\ m + 2 <= Min(at) /\ Min(at) \in Nat
      BY <1>6, <2>4, <2>5, <2>6
    <3>. QED BY <1>1, <3>1
  <2> DEFINE tail == SubSeq(read, m + 4, Len(read))
  <2>8. response_tail(read) = tail
    <3>1. Min(at) + 2 = m + 4
      BY <1>1, <2>7
    <3>. QED BY <2>5, <3>1 DEF response_tail, at
  <2>9. /\ tail \in Seq(Byte) /\ Len(tail) = (Len(read) - (m + 4)) + 1
        /\ \A i \in 1 .. (Len(read) - (m + 4)) + 1 : tail[i] = read[((m + 4) + i) - 1]
    <3>1. /\ m + 4 \in Nat /\ 1 <= m + 4 /\ m + 4 <= Len(read) + 1
          /\ Len(read) <= Len(read) /\ Len(read) \in Nat /\ read \in Seq(Byte)
      BY <1>1, <1>8
    <3>. QED BY <3>1, Cut
  <2> HIDE DEF tail
  <2>10. Len(tail) = (Len(read) - m) - 3
    BY <1>1, <2>9
  <2>11. ASSUME NEW i \in 1 .. Len(tail) PROVE tail[i] = Data(i - 1)
    <3> DEFINE j == ((m + 4) + i) - 1
    <3>1. /\ j \in 1 .. Len(read) /\ j \in Nat /\ i \in 1 .. (Len(read) - (m + 4)) + 1
          /\ j # 1 /\ ~ (j <= m + 1) /\ j # m + 2 /\ j # m + 3 /\ j - m - 4 = i - 1
      BY <1>1, <2>10
    <3>2. tail[i] = read[j] /\ read[j] = word[j]
      BY <1>3, <2>9, <3>1
    <3> HIDE DEF j
    <3>3. word[j] = Data(j - m - 4)
      BY <1>2, <3>1
    <3>. QED BY <3>1, <3>2, <3>3
  <2>. QED BY <2>8, <2>9, <2>10, <2>11
<1>9. (\E i \in 1 .. Len(read) - 1 : SubSeq(read, i, i + 1) = CRLF) => at # {}
  BY DEF at
<1>. QED BY <1>7, <1>8, <1>9 DEF m

-----------------------------------------------------------------------------
(***************************************************************************)
(* Opening: what has come of a line, and what is coming.                    *)
(***************************************************************************)

Clients == [at : {"idle", "dial", "greeting", "reply", "open", "failed", "handed"},
            kind : {None, "stream", "control"}, ip : Devices \union {None},
            waits : {"first", "idle"}, buf : Seq(Byte),
            selected : Seq(Byte) \union {None}, tail : Seq(Byte)]
Peers == [at : {"none", "quiet", "greeted", "serving"}, offers : Offers \union {<<>>},
          asked : Seq(Byte) \union {None}, protocol : Seq(Byte) \union {None},
          next : 0 .. 2, gone : BOOLEAN]

OpeningType ==
  client \in Clients /\ peer \in Peers /\ inbox \in Seq(Byte) /\ paused \in BOOLEAN

\* The greeting, whole, once it is sent; and nothing before.
GreetingComes(p, read, coming) ==
  /\ p.asked = None /\ p.protocol = None /\ p.next = 0 /\ p.offers \in Offers
  /\ \/ p.at = "quiet" /\ read = <<>> /\ coming = <<>>
     \/ /\ p.at = "greeted"
        /\ Len(read) + Len(coming) = Len(Greeting(p.offers))
        /\ Spells(read, coming, Greeting(p.offers))

\* The acknowledgement of what was asked for, or the refusal, and what is
\* streamed after it.
AnswerComes(p, asked, read, coming) ==
  /\ p.asked = asked /\ asked # None /\ Line(asked) /\ Len(asked) + 3 <= MaxRead
  /\ \/ /\ p.at = "greeted" /\ p.protocol = None /\ p.next = 0
        /\ read = <<>> /\ coming = <<>>
     \/ /\ p.at = "serving" /\ p.protocol \in {asked, None}
        /\ Len(asked) + 3 <= Len(read) + Len(coming)
        /\ Spells(read, coming, Answer(IF p.protocol = None THEN 45 ELSE 43, asked))
        /\ p.protocol # None =>
             (((Len(read) + Len(coming)) - Len(asked)) - 3) % 3 = p.next

\* The protocol is the device's, and the tail what it streamed first.
Serves(p, selected, tail, coming) ==
  /\ p.protocol = selected
  /\ \A i \in 1 .. Len(tail) : tail[i] = Data(i - 1)
  /\ (Len(tail) + Len(coming)) % 3 = p.next

Arrives(c, p, coming) ==
  /\ c.at \in {"idle", "dial"} => c.buf = <<>> /\ coming = <<>>
  /\ c.at = "greeting" => GreetingComes(p, c.buf, coming)
  /\ c.at = "reply"    => AnswerComes(p, c.selected, c.buf, coming)
  /\ c.at = "open"     => Serves(p, c.selected, c.tail, coming)

OInv ==
  /\ OpeningType
  /\ peer.at # "none" => peer.offers \in Offers
  /\ client.at \in {"reply", "open"} /\ client.kind = "control" =>
       client.selected = PROTOCOL_CBOR_CONTROL
  /\ ~paused => Arrives(client, peer, inbox)

\* A client that has no opening in progress.
LEMMA IdleOK ==
  /\ Idle \in Clients /\ Idle.at = "idle" /\ Idle.buf = <<>>
  /\ \A c, p, coming : c.at \in {"failed", "handed"} => Arrives(c, p, coming)
BY EmptyBytes DEF Idle, Clients, Arrives

LEMMA FailsKeeps ==
  ASSUME OInv, Fails, peer' = peer, inbox' \in Seq(Byte), paused' \in BOOLEAN
  PROVE  OInv'
<1>1. client.kind \in {None, "stream", "control"}
  BY DEF OInv, OpeningType, Clients
<1>2. client' = [Idle EXCEPT !.at = "failed", !.kind = client.kind]
  BY DEF Fails
<1>3. client' \in Clients /\ client'.at = "failed"
  BY <1>1, <1>2, IdleOK DEF Clients
<1>. QED BY <1>3, IdleOK DEF OInv, OpeningType

\* What a finished read makes of the client.
LEMMA GreetingReadKeeps ==
  ASSUME OInv, client.at = "greeting", NEW buf \in Seq(Byte), GreetingRead(buf),
         inbox' \in Seq(Byte), paused' \in BOOLEAN,
         ~paused' => /\ GreetingComes(peer, buf, inbox')
                     /\ buf = <<>> \/ buf = Greeting(peer.offers)
  PROVE  OInv'
<1> DEFINE chosen == Chosen(client.kind, parse_protocol_list(buf))
<1>1. CASE Fails /\ UNCHANGED peer
  BY <1>1, FailsKeeps
<1>2. CASE /\ chosen # None
           /\ client' = [client EXCEPT !.at = "reply", !.waits = "first", !.buf = <<>>,
                                       !.selected = chosen]
           /\ peer' = [peer EXCEPT !.asked = chosen]
  <2>1. /\ chosen \in Seq(Byte)
        /\ client.kind = "control" => chosen = PROTOCOL_CBOR_CONTROL
        /\ buf # <<>>
    <3>1. /\ chosen \in Seq(Byte)
          /\ client.kind = "control" => chosen = PROTOCOL_CBOR_CONTROL
          /\ \E i \in 1 .. Len(buf) : \E e \in i .. Len(buf) :
               chosen = SubSeq(buf, i, e) /\ \A k \in i .. e : buf[k] \notin {13, 10}
      BY <1>2, ChosenOfBytes
    <3>. QED BY <3>1
  <2>2. ~paused' => Line(chosen) /\ Len(chosen) + 3 <= MaxRead /\ peer.offers \in Offers
    <3>1. ASSUME ~paused'
          PROVE  peer.offers \in Offers /\ buf = Greeting(peer.offers)
      BY <2>1, <3>1 DEF GreetingComes
    <3>. QED BY <1>2, <3>1, ChosenIsLine
  <2> HIDE DEF chosen
  <2>3. /\ client' \in Clients /\ client'.at = "reply" /\ client'.buf = <<>>
        /\ client'.selected = chosen /\ client'.kind = client.kind
    BY <1>2, <2>1, EmptyBytes DEF OInv, OpeningType, Clients
  <2>4. /\ peer' \in Peers /\ peer'.asked = chosen /\ peer'.at = peer.at
        /\ peer'.protocol = peer.protocol /\ peer'.offers = peer.offers
        /\ peer'.next = peer.next
    BY <1>2, <2>1 DEF OInv, OpeningType, Peers
  <2>5. ASSUME ~paused' PROVE Arrives(client', peer', inbox')
    <3>1. /\ GreetingComes(peer, buf, inbox') /\ buf = Greeting(peer.offers)
          /\ peer.offers \in Offers
      BY <2>1, <2>2, <2>5
    <3>2. /\ peer.at = "greeted" /\ peer.protocol = None /\ peer.next = 0
          /\ Len(buf) + Len(inbox') = Len(buf)
      BY <2>1, <3>1 DEF GreetingComes
    <3>3. inbox' = <<>>
      <4>1. Len(inbox') \in Nat /\ Len(buf) \in Nat
        OBVIOUS
      <4>2. Len(inbox') = 0
        BY <3>2, <4>1
      <4>. QED BY <4>2
    <3>4. AnswerComes(peer', chosen, <<>>, <<>>)
      BY <1>2, <2>2, <2>4, <2>5, <3>2 DEF AnswerComes
    <3>. QED BY <2>3, <3>3, <3>4 DEF Arrives
  <2>. QED BY <2>1, <2>3, <2>4, <2>5 DEF OInv, OpeningType
<1>. QED BY <1>1, <1>2 DEF GreetingRead

LEMMA ReplyReadKeeps ==
  ASSUME OInv, client.at = "reply", NEW buf \in Seq(Byte), ReplyRead(buf),
         inbox' \in Seq(Byte), paused' \in BOOLEAN,
         ~paused' => /\ AnswerComes(peer, client.selected, buf, inbox')
                     /\ buf = <<>> \/ Len(client.selected) + 3 <= Len(buf)
  PROVE  OInv'
<1>0. peer' = peer
  BY DEF ReplyRead
<1>1. CASE Fails
  BY <1>0, <1>1, FailsKeeps
<1>2. CASE /\ buf # <<>> /\ Head(buf) # HANDSHAKE_REJECT_PREFIX
           /\ client' = [client EXCEPT !.at = "open", !.buf = <<>>,
                                       !.tail = response_tail(buf)]
  <2>1. response_tail(buf) \in Seq(Byte)
    <3> DEFINE at == {i \in 1 .. Len(buf) - 1 : SubSeq(buf, i, i + 1) = CRLF}
    <3>1. CASE at = {}
      BY <3>1, EmptyBytes DEF response_tail
    <3>2. CASE at # {}
      <4>1. at \in SUBSET Nat /\ at \subseteq 1 .. Len(buf) - 1
        OBVIOUS
      <4> HIDE DEF at
      <4>2. Min(at) \in at
        BY <3>2, <4>1, Least
      <4>3. /\ Min(at) + 2 \in Nat /\ 1 <= Min(at) + 2 /\ Min(at) + 2 <= Len(buf) + 1
            /\ Len(buf) \in Nat /\ Len(buf) <= Len(buf)
        <5> DEFINE m == Min(at)
        <5>0. Len(buf) \in Nat
          OBVIOUS
        <5>1. m \in 1 .. Len(buf) - 1
          BY <4>1, <4>2
        <5> HIDE DEF m
        <5>2. m + 2 \in Nat /\ 1 <= m + 2 /\ m + 2 <= Len(buf) + 1
          BY <5>0, <5>1
        <5>. QED BY <5>0, <5>2 DEF m
      <4>4. SubSeq(buf, Min(at) + 2, Len(buf)) \in Seq(Byte)
        BY <4>3, Cut
      <4>. QED BY <3>2, <4>4 DEF response_tail, at
    <3>. QED BY <3>1, <3>2
  <2> DEFINE tail == response_tail(buf)
  <2> HIDE DEF tail
  <2>2. /\ client' \in Clients /\ client'.at = "open" /\ client'.selected = client.selected
        /\ client'.kind = client.kind /\ client'.tail = tail
    <3>1. client' = [client EXCEPT !.at = "open", !.buf = <<>>, !.tail = tail] /\ tail \in Seq(Byte)
      BY <1>2, <2>1 DEF tail
    <3>. QED BY <3>1, EmptyBytes DEF OInv, OpeningType, Clients
  <2>3. ASSUME ~paused' PROVE Serves(peer, client.selected, tail, inbox')
    <3> DEFINE asked == client.selected
    <3>1. AnswerComes(peer, asked, buf, inbox') /\ Len(asked) + 3 <= Len(buf)
      BY <1>2, <2>3
    <3>2. 1 \in 1 .. Len(buf) /\ Head(buf) = buf[1] /\ Len(buf) \in Nat
      BY <1>2
    <3>3. buf[1] # 45
      BY <1>2, <3>2 DEF HANDSHAKE_REJECT_PREFIX
    <3> HIDE DEF asked
    <3>4. peer.protocol = asked /\ peer.protocol # None
      <4>1. CASE peer.protocol = None
        <5>1. Spells(buf, inbox', Answer(45, asked))
          BY <1>2, <3>1, <4>1 DEF AnswerComes
        <5>2. buf[1] = Answer(45, asked)[1]
          BY <3>2, <5>1 DEF Spells
        <5>3. Answer(45, asked)[1] = 45
          BY DEF Answer
        <5>. QED BY <3>3, <5>2, <5>3
      <4>. QED BY <1>2, <3>1, <4>1 DEF AnswerComes
    <3>5. /\ Line(asked) /\ Spells(buf, inbox', Answer(43, asked))
          /\ (((Len(buf) + Len(inbox')) - Len(asked)) - 3) % 3 = peer.next
      BY <1>2, <3>1, <3>4 DEF AnswerComes
    <3>6. /\ Len(tail) = (Len(buf) - Len(asked)) - 3
          /\ \A i \in 1 .. Len(tail) : tail[i] = Data(i - 1)
      BY <3>1, <3>5, AnswerTail DEF tail
    <3>7. Len(asked) \in Nat /\ Len(inbox') \in Nat
      BY <3>5 DEF Line
    <3>8. Len(tail) + Len(inbox') = ((Len(buf) + Len(inbox')) - Len(asked)) - 3
      BY <3>2, <3>6, <3>7
    <3>. QED BY <3>4, <3>5, <3>6, <3>8 DEF Serves, asked
  <2>4. ~paused' => Arrives(client', peer', inbox')
    BY <1>0, <2>2, <2>3 DEF Arrives
  <2>5. client.kind = "control" => client.selected = PROTOCOL_CBOR_CONTROL
    BY DEF OInv
  <2>. QED BY <1>0, <2>2, <2>4, <2>5 DEF OInv, OpeningType
<1>. QED BY <1>1, <1>2 DEF ReplyRead

LEMMA HasReadKeeps ==
  ASSUME OInv, Open, NEW buf \in Seq(Byte), HasRead(buf),
         inbox' \in Seq(Byte), paused' \in BOOLEAN,
         ~paused' =>
           /\ client.at = "greeting" =>
                GreetingComes(peer, buf, inbox') /\ (buf = <<>> \/ buf = Greeting(peer.offers))
           /\ client.at = "reply" =>
                /\ AnswerComes(peer, client.selected, buf, inbox')
                /\ buf = <<>> \/ Len(client.selected) + 3 <= Len(buf)
  PROVE  OInv'
<1>1. CASE client.at = "greeting"
  <2>1. GreetingRead(buf)
    BY <1>1 DEF HasRead
  <2>. QED BY <1>1, <2>1, GreetingReadKeeps
<1>2. CASE client.at = "reply"
  <2>1. ReplyRead(buf)
    BY <1>2 DEF HasRead
  <2>. QED BY <1>2, <2>1, ReplyReadKeeps
<1>. QED BY <1>1, <1>2 DEF Open

LEMMA ReadsKeeps ==
  ASSUME OInv, NEW n \in 1 .. Len(inbox), Reads(n) PROVE OInv'
<1> DEFINE took == SubSeq(inbox, 1, n)
           buf  == client.buf \o took
           rest == SubSeq(inbox, n + 1, Len(inbox))
<1>1. client \in Clients /\ peer \in Peers /\ inbox \in Seq(Byte) /\ client.buf \in Seq(Byte)
  BY DEF OInv, OpeningType, Clients
<1>2. /\ buf \in Seq(Byte) /\ rest \in Seq(Byte)
      /\ Len(buf) = Len(client.buf) + n /\ Len(rest) = Len(inbox) - n
      /\ \A word : Spells(client.buf, inbox, word) => Spells(buf, rest, word)
  BY <1>1, ReadMoves
<1>3. Open /\ inbox' = rest /\ paused' = paused
  BY DEF Reads
<1>4. IF Len(buf) >= MaxRead THEN HasRead(buf)
      ELSE client' = [client EXCEPT !.buf = buf, !.waits = "idle"] /\ peer' = peer
  BY DEF Reads
<1> HIDE DEF buf, rest
<1>5. /\ Len(client.buf) \in Nat /\ Len(inbox) \in Nat /\ inbox # <<>>
      /\ Len(buf) + Len(rest) = Len(client.buf) + Len(inbox)
  BY <1>1, <1>2
<1>6. ASSUME ~paused, client.at = "greeting"
      PROVE  GreetingComes(peer, buf, rest) /\ Len(buf) < MaxRead
  <2>1. GreetingComes(peer, client.buf, inbox)
    BY <1>6 DEF OInv, Arrives
  <2>2. GreetingComes(peer, buf, rest)
    BY <1>2, <1>5, <2>1 DEF GreetingComes
  <2>3. Len(buf) + Len(rest) = Len(Greeting(peer.offers)) /\ peer.offers \in Offers
    BY <1>5, <2>1 DEF GreetingComes
  <2>4. Len(buf) < MaxRead
    <3>1. Len(Greeting(peer.offers)) < MaxRead /\ MaxRead \in Nat
      BY <2>3, GreetingBytes, OpeningAssumption
    <3>2. Len(buf) \in Nat /\ Len(rest) \in Nat
      BY <1>2
    <3>. QED BY <2>3, <3>1, <3>2
  <2>. QED BY <2>2, <2>4
<1>7. ASSUME ~paused, client.at = "reply"
      PROVE  /\ AnswerComes(peer, client.selected, buf, rest)
             /\ Len(client.selected) + 3 <= MaxRead /\ Len(client.selected) \in Nat
  <2>1. AnswerComes(peer, client.selected, client.buf, inbox)
    BY <1>7 DEF OInv, Arrives
  <2>2. AnswerComes(peer, client.selected, buf, rest)
    BY <1>2, <1>5, <2>1 DEF AnswerComes
  <2>3. Line(client.selected) /\ Len(client.selected) + 3 <= MaxRead
    BY <2>1 DEF AnswerComes
  <2>4. Len(client.selected) \in Nat
    BY <2>3 DEF Line
  <2>. QED BY <2>2, <2>3, <2>4
<1>8. CASE Len(buf) >= MaxRead
  <2>1. HasRead(buf)
    BY <1>4, <1>8
  <2>2. MaxRead \in Nat /\ Len(buf) \in Nat
    BY <1>2, OpeningAssumption
  <2>3. ~paused /\ client.at = "greeting" => FALSE
    BY <1>6, <1>8, <2>2
  <2>4. ~paused /\ client.at = "reply" =>
          /\ AnswerComes(peer, client.selected, buf, rest)
          /\ Len(client.selected) + 3 <= Len(buf)
    BY <1>7, <1>8, <2>2
  <2>5. paused \in BOOLEAN
    BY DEF OInv, OpeningType
  <2>. QED BY <1>2, <1>3, <2>1, <2>3, <2>4, <2>5, HasReadKeeps
<1>9. CASE ~ (Len(buf) >= MaxRead)
  <2>1. client' = [client EXCEPT !.buf = buf, !.waits = "idle"] /\ peer' = peer
    BY <1>4, <1>9
  <2>2. /\ client' \in Clients /\ client'.at = client.at /\ client'.kind = client.kind
        /\ client'.selected = client.selected /\ client'.buf = buf
    BY <1>1, <1>2, <2>1 DEF Clients
  <2>3. ~paused => Arrives(client', peer, rest)
    BY <1>3, <1>6, <1>7, <2>2 DEF Arrives, Open
  <2>. QED BY <1>2, <1>3, <2>1, <2>2, <2>3 DEF OInv, OpeningType
<1>. QED BY <1>8, <1>9

\* A whole greeting has been read when as many bytes have.
LEMMA SpeltOut ==
  ASSUME NEW read \in Seq(Byte), NEW coming \in Seq(Byte), NEW g \in Seq(Byte),
         Spells(read, coming, g), Len(read) = Len(g)
  PROVE  read = g
<1>1. \A i \in 1 .. Len(read) : read[i] = g[i]
  BY DEF Spells
<1>. QED BY <1>1

LEMMA ElapsesKeeps == ASSUME OInv, Elapses PROVE OInv'
<1> DEFINE b == client.buf
<1>1. /\ Open /\ paused' = (paused \/ ~WholeLine) /\ HasRead(b) /\ inbox' = inbox
  BY DEF Elapses
<1>2. b \in Seq(Byte) /\ inbox \in Seq(Byte) /\ paused \in BOOLEAN
  BY DEF OInv, OpeningType, Clients
<1>3. paused' \in BOOLEAN /\ (~paused' => ~paused /\ WholeLine)
  BY <1>1, <1>2
<1>4. ASSUME ~paused', client.at = "greeting"
      PROVE  GreetingComes(peer, b, inbox) /\ (b = <<>> \/ b = Greeting(peer.offers))
  BY <1>3, <1>4 DEF OInv, Arrives, WholeLine
<1>5. ASSUME ~paused', client.at = "reply"
      PROVE  /\ AnswerComes(peer, client.selected, b, inbox)
             /\ b = <<>> \/ Len(client.selected) + 3 <= Len(b)
  <2>1. AnswerComes(peer, client.selected, b, inbox)
    BY <1>3, <1>5 DEF OInv, Arrives
  <2>2. b = <<>> \/ \E i \in 1 .. Len(b) - 1 : SubSeq(b, i, i + 1) = CRLF
    BY <1>3, <1>5 DEF WholeLine
  <2>3. CASE b # <<>>
    <3> DEFINE sign == IF peer.protocol = None THEN 45 ELSE 43
    <3>0. sign # 13
      OBVIOUS
    <3>1. Line(client.selected) /\ Spells(b, inbox, Answer(sign, client.selected))
      <4> HIDE DEF b
      <4>. QED BY <2>1, <2>3 DEF AnswerComes
    <3>2. \E i \in 1 .. Len(b) - 1 : SubSeq(b, i, i + 1) = CRLF
      BY <2>2, <2>3
    <3> HIDE DEF b, sign
    <3>3. Len(client.selected) + 3 <= Len(b)
      BY <1>2, <3>0, <3>1, <3>2, AnswerTail
    <3>. QED BY <2>1, <3>3 DEF b
  <2>. QED BY <2>1, <2>3
<1> HIDE DEF b
<1>. QED BY <1>1, <1>2, <1>3, <1>4, <1>5, HasReadKeeps

LEMMA EofKeeps == ASSUME OInv, Eof PROVE OInv'
<1> DEFINE b == client.buf
<1>1. Open /\ inbox = <<>> /\ inbox' = inbox /\ paused' = paused
  BY DEF Eof
<1>2. b \in Seq(Byte) /\ inbox \in Seq(Byte) /\ paused \in BOOLEAN
  BY DEF OInv, OpeningType, Clients
<1>3. CASE Fails /\ peer' = peer
  BY <1>1, <1>2, <1>3, FailsKeeps
<1>4. CASE b # <<>> /\ HasRead(b)
  <2>0. Len(inbox) = 0 /\ Len(b) \in Nat
    BY <1>1, <1>2
  <2>1. ASSUME ~paused, client.at = "greeting"
        PROVE  GreetingComes(peer, b, inbox) /\ b = Greeting(peer.offers)
    <3>1. GreetingComes(peer, b, inbox)
      BY <2>1 DEF OInv, Arrives
    <3>2. /\ Len(b) + Len(inbox) = Len(Greeting(peer.offers))
          /\ Spells(b, inbox, Greeting(peer.offers)) /\ peer.offers \in Offers
      BY <1>4, <3>1 DEF GreetingComes
    <3>3. Greeting(peer.offers) \in Seq(Byte)
      BY <3>2, GreetingBytes
    <3>4. Len(b) = Len(Greeting(peer.offers))
      BY <2>0, <3>2
    <3>. QED BY <1>2, <3>1, <3>2, <3>3, <3>4, SpeltOut
  <2>2. ASSUME ~paused, client.at = "reply"
        PROVE  /\ AnswerComes(peer, client.selected, b, inbox)
               /\ Len(client.selected) + 3 <= Len(b)
    <3>1. AnswerComes(peer, client.selected, b, inbox)
      BY <2>2 DEF OInv, Arrives
    <3>2. Len(client.selected) + 3 <= Len(b) + Len(inbox)
      BY <1>4, <3>1 DEF AnswerComes
    <3>. QED BY <2>0, <3>1, <3>2
  <2> HIDE DEF b
  <2>. QED BY <1>1, <1>2, <1>4, <2>1, <2>2, HasReadKeeps
<1>. QED BY <1>3, <1>4 DEF Eof

LEMMA DialEndsKeeps == ASSUME OInv, DialEnds PROVE OInv'
<1>1. client \in Clients /\ inbox \in Seq(Byte) /\ paused \in BOOLEAN
  BY DEF OInv, OpeningType
<1>2. inbox' = inbox /\ paused' = paused /\ client.at = "dial"
  BY DEF DialEnds
<1>3. CASE Fails /\ UNCHANGED peer
  BY <1>1, <1>2, <1>3, FailsKeeps
<1>4. ASSUME NEW o \in Offers, peer' = [NoPeer EXCEPT !.at = "quiet", !.offers = o],
             client' = [client EXCEPT !.at = "greeting"]
      PROVE  OInv'
  <2>1. NoPeer \in Peers /\ NoPeer.asked = None /\ NoPeer.protocol = None /\ NoPeer.next = 0
    BY DEF NoPeer, Peers
  <2>2. /\ peer' \in Peers /\ peer'.at = "quiet" /\ peer'.offers = o
        /\ peer'.asked = None /\ peer'.protocol = None /\ peer'.next = 0
    BY <1>4, <2>1 DEF Peers
  <2>3. client' \in Clients /\ client'.at = "greeting" /\ client'.buf = client.buf
    BY <1>1, <1>4 DEF Clients
  <2>4. ~paused => client.buf = <<>> /\ inbox = <<>>
    BY <1>2 DEF OInv, Arrives
  <2>5. ~paused => Arrives(client', peer', inbox')
    BY <1>2, <2>2, <2>3, <2>4 DEF Arrives, GreetingComes
  <2>. QED BY <1>1, <1>2, <2>2, <2>3, <2>5 DEF OInv, OpeningType
<1>. QED BY <1>3, <1>4 DEF DialEnds

LEMMA GreetsKeeps == ASSUME OInv, Greets PROVE OInv'
<1>1. /\ Open /\ peer.at = "quiet" /\ peer' = [peer EXCEPT !.at = "greeted"]
      /\ inbox' = inbox \o Greeting(peer.offers) /\ client' = client /\ paused' = paused
  BY DEF Greets
<1>2. client \in Clients /\ peer \in Peers /\ inbox \in Seq(Byte) /\ paused \in BOOLEAN
  BY DEF OInv, OpeningType
<1>3. peer.offers \in Offers
  BY <1>1 DEF OInv
<1> DEFINE g == Greeting(peer.offers)
<1>4. g \in Seq(Byte)
  BY <1>3, GreetingBytes
<1> HIDE DEF g
<1>5. inbox' \in Seq(Byte)
  BY <1>1, <1>2, <1>4, Joined DEF g
<1>6. /\ peer' \in Peers /\ peer'.at = "greeted" /\ peer'.offers = peer.offers
      /\ peer'.asked = peer.asked /\ peer'.protocol = peer.protocol /\ peer'.next = peer.next
  BY <1>1, <1>2 DEF Peers
<1>7. ASSUME ~paused, client.at = "greeting" PROVE GreetingComes(peer', client.buf, inbox')
  <2>1. /\ client.buf = <<>> /\ inbox = <<>> /\ peer.asked = None /\ peer.protocol = None
        /\ peer.next = 0
    BY <1>1, <1>7 DEF OInv, Arrives, GreetingComes
  <2>2. inbox' = g
    BY <1>1, <1>4, <2>1 DEF g
  <2>3. Len(<<>>) = 0 /\ Len(g) \in Nat
    BY <1>4
  <2>4. Spells(<<>>, g, g)
    BY <2>3 DEF Spells
  <2>5. /\ peer'.asked = None /\ peer'.protocol = None /\ peer'.offers \in Offers
        /\ peer'.at = "greeted" /\ peer'.next = 0
    BY <1>3, <1>6, <2>1
  <2>6. Greeting(peer'.offers) = g
    BY <1>6 DEF g
  <2>. QED BY <2>1, <2>2, <2>3, <2>4, <2>5, <2>6 DEF GreetingComes
<1>8. ~ (~paused /\ client.at = "reply")
  BY <1>1 DEF OInv, Arrives, AnswerComes
<1>9. client.at = "greeting" \/ client.at = "reply"
  BY <1>1 DEF Open
<1>10. ~paused => Arrives(client', peer', inbox')
  BY <1>1, <1>7, <1>8, <1>9 DEF Arrives
<1>. QED BY <1>1, <1>2, <1>3, <1>5, <1>6, <1>10 DEF OInv, OpeningType

LEMMA AnswersKeeps == ASSUME OInv, Answers PROVE OInv'
<1> DEFINE offered == \E i \in DOMAIN peer.offers : peer.offers[i] = peer.asked
           asked   == peer.asked
           to      == IF offered THEN asked ELSE None
           sign    == IF offered THEN 43 ELSE 45
           ack     == <<sign>> \o asked
           line    == ack \o CRLF
<1>1. /\ Open /\ peer.at = "greeted" /\ asked # None
      /\ peer' = [peer EXCEPT !.at = "serving", !.protocol = to]
      /\ client' = client /\ paused' = paused
  BY DEF Answers
<1>2. client \in Clients /\ peer \in Peers /\ inbox \in Seq(Byte) /\ paused \in BOOLEAN
  BY DEF OInv, OpeningType
<1>3. asked \in Seq(Byte)
  BY <1>1, <1>2 DEF Peers
<1>4. sign \in Byte /\ sign = IF to = None THEN 45 ELSE 43
  BY <1>1 DEF Byte
<1>5. inbox' = (((inbox \o <<sign>>) \o asked) \o CRLF)
  BY DEF Answers, HANDSHAKE_ACCEPT_PREFIX, HANDSHAKE_REJECT_PREFIX
<1> HIDE DEF offered, to, sign, asked
<1> DEFINE one == <<sign>>
<1>6. one \in Seq(Byte) /\ Len(one) = 1 /\ one[1] = sign
  BY <1>4
<1>7. CRLF \in Seq(Byte) /\ Len(CRLF) = 2 /\ CRLF[1] = 13 /\ CRLF[2] = 10
  BY DEF CRLF, Byte
<1> HIDE DEF one
<1>8. /\ inbox \o one \in Seq(Byte) /\ Len(inbox \o one) = Len(inbox) + Len(one)
      /\ \A i \in 1 .. Len(one) : (inbox \o one)[Len(inbox) + i] = one[i]
  <2>1. inbox \in Seq(Byte) /\ one \in Seq(Byte)
    BY <1>2, <1>6
  <2>. QED BY <2>1, Joined
<1> DEFINE a == inbox \o one
<1> HIDE DEF a
<1>9. a \in Seq(Byte) /\ Len(a) = Len(inbox) + 1 /\ a[Len(inbox) + 1] = sign
  BY <1>6, <1>8 DEF a
<1> DEFINE b == a \o asked
<1>10. /\ b \in Seq(Byte) /\ Len(b) = Len(a) + Len(asked)
       /\ \A i \in 1 .. Len(a) : b[i] = a[i]
       /\ \A i \in 1 .. Len(asked) : b[Len(a) + i] = asked[i]
  <2>1. a \in Seq(Byte) /\ asked \in Seq(Byte)
    BY <1>3, <1>9
  <2>. QED BY <2>1, Joined
<1> HIDE DEF b
<1> DEFINE c == b \o CRLF
<1>11. /\ c \in Seq(Byte) /\ Len(c) = Len(b) + Len(CRLF)
       /\ \A i \in 1 .. Len(b) : c[i] = b[i]
       /\ \A i \in 1 .. Len(CRLF) : c[Len(b) + i] = CRLF[i]
  <2>1. b \in Seq(Byte) /\ CRLF \in Seq(Byte)
    BY <1>7, <1>10
  <2>. QED BY <2>1, Joined
<1> HIDE DEF c
<1>12. inbox' = c
  BY <1>5 DEF a, b, c, one
<1>13. to \in Seq(Byte) \union {None}
  BY <1>3 DEF to
<1>14. /\ peer' \in Peers /\ peer'.at = "serving" /\ peer'.protocol = to
       /\ peer'.asked = asked /\ peer'.next = peer.next /\ peer'.offers = peer.offers
  BY <1>1, <1>2, <1>13 DEF Peers, asked
<1>15. ~ (~paused /\ client.at = "greeting")
  BY <1>1 DEF OInv, Arrives, GreetingComes, asked
<1>16. ASSUME ~paused, client.at = "reply"
       PROVE  AnswerComes(peer', client.selected, client.buf, inbox')
  <2>1. /\ asked = client.selected /\ Line(asked) /\ Len(asked) + 3 <= MaxRead
        /\ client.buf = <<>> /\ inbox = <<>> /\ peer.next = 0
    BY <1>1, <1>16 DEF OInv, Arrives, AnswerComes, asked
  <2>2. /\ Len(asked) \in Nat /\ Len(c) = Len(asked) + 3 /\ Len(a) = 1 /\ Len(b) = Len(asked) + 1
        /\ c \in Seq(Byte)
    BY <1>3, <1>7, <1>9, <1>10, <1>11, <2>1, EmptyBytes
  <2> DEFINE word == Answer(sign, asked)
             m    == Len(asked)
  <2>3. \A i \in Nat : word[i] = IF i = 1 THEN sign
                 ELSE IF i <= m + 1 THEN asked[i - 1]
                 ELSE IF i = m + 2 THEN 13
                 ELSE IF i = m + 3 THEN 10
                 ELSE Data(i - m - 4)
    BY DEF Answer
  <2> HIDE DEF word, m
  <2>4. m \in Nat /\ m = Len(asked)
    BY <2>2 DEF m
  <2>5. ASSUME NEW i \in 1 .. Len(c) PROVE c[i] = word[i]
    <3>1. CASE i = 1
      <4>1. 1 \in 1 .. Len(a) /\ 1 \in 1 .. Len(b)
        BY <2>2
      <4>2. c[1] = a[1] /\ a[1] = sign
        BY <1>9, <1>10, <1>11, <2>1, <4>1, EmptyBytes
      <4>. QED BY <2>3, <3>1, <4>2
    <3>2. CASE i # 1 /\ i <= m + 1
      <4>1. i \in 1 .. Len(b) /\ i - 1 \in 1 .. Len(asked) /\ Len(a) + (i - 1) = i /\ i \in Nat
        BY <2>2, <2>4, <3>2
      <4>2. c[i] = b[i] /\ b[Len(a) + (i - 1)] = asked[i - 1]
        BY <1>10, <1>11, <4>1
      <4>. QED BY <2>3, <3>2, <4>1, <4>2
    <3>3. CASE i = m + 2
      <4>1. Len(b) + 1 = m + 2 /\ 1 \in 1 .. Len(CRLF) /\ m + 2 # 1 /\ ~ (m + 2 <= m + 1)
            /\ m + 2 \in Nat
        BY <1>7, <2>2, <2>4
      <4>2. c[Len(b) + 1] = 13
        BY <1>7, <1>11, <4>1
      <4>. QED BY <2>3, <3>3, <4>1, <4>2
    <3>4. CASE i = m + 3
      <4>1. Len(b) + 2 = m + 3 /\ 2 \in 1 .. Len(CRLF) /\ m + 3 # 1 /\ ~ (m + 3 <= m + 1)
            /\ m + 3 \in Nat /\ m + 3 # m + 2
        BY <1>7, <2>2, <2>4
      <4>2. c[Len(b) + 2] = 10
        BY <1>7, <1>11, <4>1
      <4>. QED BY <2>3, <3>4, <4>1, <4>2
    <3>. QED BY <2>2, <2>4, <3>1, <3>2, <3>3, <3>4
  <2>6. Spells(<<>>, c, word)
    BY <2>2, <2>5, EmptyBytes DEF Spells
  <2>7. (((Len(<<>>) + Len(c)) - Len(asked)) - 3) % 3 = peer'.next
    BY <1>14, <2>1, <2>2, EmptyBytes
  <2>8. word = Answer(IF to = None THEN 45 ELSE 43, asked)
    BY <1>4 DEF word
  <2>9. to \in {asked, None}
    BY DEF to
  <2>10. Len(asked) + 3 <= Len(<<>>) + Len(c)
    BY <2>2, EmptyBytes
  <2>11. AnswerComes(peer', asked, <<>>, c)
    BY <1>1, <1>14, <2>1, <2>6, <2>7, <2>8, <2>9, <2>10 DEF AnswerComes
  <2>. QED BY <1>12, <2>1, <2>11
<1>17. client.at = "greeting" \/ client.at = "reply"
  BY <1>1 DEF Open
<1>18. ~paused => Arrives(client', peer', inbox')
  BY <1>1, <1>15, <1>16, <1>17 DEF Arrives
<1>19. inbox' \in Seq(Byte)
  BY <1>11, <1>12
<1>20. peer'.at # "none" => peer'.offers \in Offers
  BY <1>1, <1>14 DEF OInv
<1>. QED BY <1>1, <1>2, <1>14, <1>18, <1>19, <1>20 DEF OInv, OpeningType

LEMMA StreamsKeeps == ASSUME OInv, Streams PROVE OInv'
<1> DEFINE to == (peer.next + 1) % 3
           d  == Data(peer.next)
<1>1. /\ Open /\ peer.protocol # None /\ peer' = [peer EXCEPT !.next = to]
      /\ inbox' = Append(inbox, d) /\ client' = client /\ paused' = paused
  BY DEF Streams
<1>2. client \in Clients /\ peer \in Peers /\ inbox \in Seq(Byte) /\ paused \in BOOLEAN
  BY DEF OInv, OpeningType
<1>3. peer.next \in 0 .. 2 /\ peer.next \in Nat /\ to \in 0 .. 2
  BY <1>2 DEF Peers
<1>4. d \in Byte
  BY <1>3, DataTurns
<1> HIDE DEF d, to
<1>5. /\ inbox' \in Seq(Byte) /\ Len(inbox') = Len(inbox) + 1 /\ inbox' = inbox \o <<d>>
  BY <1>1, <1>2, <1>4
<1>6. /\ peer' \in Peers /\ peer'.next = to /\ peer'.at = peer.at /\ peer'.offers = peer.offers
      /\ peer'.asked = peer.asked /\ peer'.protocol = peer.protocol
  BY <1>1, <1>2, <1>3 DEF Peers
<1>7. ~ (~paused /\ client.at = "greeting")
  BY <1>1 DEF OInv, Arrives, GreetingComes
<1>8. ASSUME ~paused, client.at = "reply"
      PROVE  AnswerComes(peer', client.selected, client.buf, inbox')
  <2> DEFINE asked == client.selected
             word  == Answer(43, asked)
             read  == client.buf
  <2>1. AnswerComes(peer, asked, read, inbox)
    BY <1>8 DEF OInv, Arrives
  <2> HIDE DEF asked, word, read
  <2>2. /\ peer.asked = asked /\ asked # None /\ Line(asked) /\ Len(asked) + 3 <= MaxRead
        /\ peer.at = "serving" /\ peer.protocol \in {asked, None}
        /\ Len(asked) + 3 <= Len(read) + Len(inbox)
        /\ (((Len(read) + Len(inbox)) - Len(asked)) - 3) % 3 = peer.next
    BY <1>1, <2>1 DEF AnswerComes
  <2>3. Spells(read, inbox, word)
    BY <1>1, <2>1 DEF AnswerComes, word
  <2>4. Len(asked) \in Nat /\ Len(inbox) \in Nat /\ read \in Seq(Byte) /\ Len(read) \in Nat
    BY <1>2, <2>2 DEF Line, Clients, read
  <2> DEFINE n == Len(read) + Len(inbox)
             m == Len(asked)
             k == (n - m) - 3
  <2>5. n \in Nat /\ m \in Nat /\ k \in Nat /\ (n + 1) - m - 4 = k /\ ((n + 1) - m) - 3 = k + 1
    BY <2>2, <2>4
  <2>6. word[n + 1] = d
    <3>1. n + 1 \in Nat /\ n + 1 # 1 /\ ~ (n + 1 <= m + 1) /\ n + 1 # m + 2 /\ n + 1 # m + 3
      BY <2>2, <2>4, <2>5
    <3>2. word[n + 1] = Data((n + 1) - m - 4)
      BY <3>1 DEF word, Answer
    <3>3. Data(k) = Data(k % 3) /\ k % 3 = peer.next
      BY <2>2, <2>5, DataTurns
    <3>. QED BY <2>5, <3>2, <3>3 DEF d
  <2> DEFINE x == <<d>>
  <2>7. x \in Seq(Byte) /\ Len(x) = 1 /\ x[1] = d
    BY <1>4
  <2>8. \A i \in 1 .. Len(x) : x[i] = word[n + i]
    BY <2>6, <2>7
  <2> HIDE DEF x
  <2>9. Spells(read, inbox \o x, word)
    BY <1>2, <2>3, <2>4, <2>7, <2>8, ArrivalAdds
  <2>10. Spells(read, inbox', word)
    BY <1>5, <2>9 DEF x
  <2>11. Len(read) + Len(inbox') = n + 1 /\ Len(asked) + 3 <= n + 1
    BY <1>5, <2>2, <2>4
  <2>12. ((n + 1) - m) - 3 = k + 1 /\ (k + 1) % 3 = to
    <3>1. k % 3 = peer.next /\ k \in Nat
      BY <2>2, <2>5
    <3>2. (k + 1) % 3 = ((k % 3) + 1) % 3
      BY <3>1
    <3>. QED BY <2>5, <3>1, <3>2 DEF to
  <2> HIDE DEF n, k
  <2>13. ((n + 1) - Len(asked)) - 3 = k + 1
    BY <2>12
  <2>14. AnswerComes(peer', asked, read, inbox')
    BY <1>1, <1>6, <2>2, <2>10, <2>11, <2>12, <2>13 DEF AnswerComes, word
  <2>. QED BY <2>14 DEF asked, read
<1>9. client.at = "greeting" \/ client.at = "reply"
  BY <1>1 DEF Open
<1>10. ~paused => Arrives(client', peer', inbox')
  BY <1>1, <1>7, <1>8, <1>9 DEF Arrives
<1>. QED BY <1>1, <1>2, <1>5, <1>6, <1>10 DEF OInv, OpeningType

LEMMA HangsUpKeeps == ASSUME OInv, HangsUp PROVE OInv'
<1>1. /\ Open /\ peer' = [peer EXCEPT !.gone = TRUE]
      /\ client' = client /\ inbox' = inbox /\ paused' = paused
  BY DEF HangsUp
<1>2. peer \in Peers
  BY DEF OInv, OpeningType
<1>3. /\ peer' \in Peers /\ peer'.at = peer.at /\ peer'.offers = peer.offers
      /\ peer'.asked = peer.asked /\ peer'.protocol = peer.protocol /\ peer'.next = peer.next
  BY <1>1, <1>2 DEF Peers
<1>4. ~paused => Arrives(client', peer', inbox')
  BY <1>1, <1>3 DEF OInv, Arrives, GreetingComes, AnswerComes, Open
<1>. QED BY <1>1, <1>3, <1>4 DEF OInv, OpeningType

-----------------------------------------------------------------------------
(***************************************************************************)
(* The session opens right.                                                 *)
(***************************************************************************)

LEMMA OInvInit == OpeningInit => OInv
<1> SUFFICES ASSUME OpeningInit PROVE OInv
  OBVIOUS
<1>1. client = Idle /\ inbox = <<>> /\ peer = NoPeer /\ paused = FALSE
  BY DEF OpeningInit
<1>2. NoPeer \in Peers /\ NoPeer.at = "none"
  BY DEF NoPeer, Peers
<1>3. Arrives(Idle, NoPeer, <<>>)
  BY IdleOK DEF Arrives
<1>. QED BY <1>1, <1>2, <1>3, IdleOK, EmptyBytes DEF OInv, OpeningType

LEMMA OInvStep ==
  ASSUME OInv, DInv, [Next]_vars
  PROVE  OInv'
<1>1. CASE OpenStep
  <2>1. ASSUME NEW n \in Sizes, Reads(IF n < Len(inbox) THEN n ELSE Len(inbox)) PROVE OInv'
    <3> DEFINE k == IF n < Len(inbox) THEN n ELSE Len(inbox)
    <3>1. k \in 1 .. Len(inbox)
      BY <2>1 DEF Reads
    <3> HIDE DEF k
    <3>. QED BY <2>1, <3>1, ReadsKeeps DEF k
  <2>. QED BY <1>1, <2>1, DialEndsKeeps, ElapsesKeeps, EofKeeps DEF OpenStep
<1>2. CASE PeerStep
  BY <1>2, GreetsKeeps, AnswersKeeps, StreamsKeeps, HangsUpKeeps DEF PeerStep
<1>3. ASSUME NEW ip \in Found, NEW kind \in {"stream", "control"}, Connect(ip, kind) PROVE OInv'
  <2>1. /\ client.at = "idle" /\ client' = [Idle EXCEPT !.at = "dial", !.kind = kind, !.ip = ip]
        /\ inbox' = inbox /\ peer' = peer /\ paused' = paused
    BY <1>3 DEF Connect, Dial
  <2>2. ip \in Devices
    BY <1>3, FoundAreDevices
  <2>3. client' \in Clients /\ client'.at = "dial" /\ client'.buf = <<>>
    BY <2>1, <2>2, IdleOK DEF Clients
  <2>4. ~paused => inbox = <<>>
    BY <2>1 DEF OInv, Arrives
  <2>5. ~paused => Arrives(client', peer', inbox')
    BY <2>1, <2>3, <2>4 DEF Arrives
  <2>. QED BY <2>1, <2>3, <2>5 DEF OInv, OpeningType
<1>4. CASE Opened
  <2>1. /\ client' = [Idle EXCEPT !.at = "handed"] /\ inbox' = <<>> /\ peer' = NoPeer
        /\ paused' = paused
    BY <1>4 DEF Opened
  <2>2. client' \in Clients /\ client'.at = "handed"
    BY <2>1, IdleOK DEF Clients
  <2>3. NoPeer \in Peers /\ NoPeer.at = "none"
    BY DEF NoPeer, Peers
  <2>4. Arrives(client', peer', inbox')
    BY <2>2, IdleOK
  <2>5. inbox' \in Seq(Byte) /\ peer' \in Peers /\ peer'.at = "none" /\ paused' \in BOOLEAN
    BY <2>1, <2>3, EmptyBytes DEF OInv, OpeningType
  <2>. QED BY <2>2, <2>4, <2>5 DEF OInv, OpeningType
<1>5. CASE UNCHANGED opening
  BY <1>5 DEF OInv, OpeningType, opening
<1>. QED BY <1>1, <1>2, <1>3, <1>4, <1>5 DEF Next, Finding, vars

LEMMA DInvNext ==
  ASSUME DInv, [Next]_vars
  PROVE  DInv'
<1>1. ASSUME NEW ip \in Found, NEW kind \in {"stream", "control"}, Connect(ip, kind)
      PROVE  poller' = Poller("idle") /\ UNCHANGED <<lan, polled>>
  BY <1>1 DEF Connect
<1>2. \/ Discover \/ Tick
      \/ poller' = Poller("idle") /\ UNCHANGED <<lan, polled>>
      \/ UNCHANGED discovery
  BY <1>1 DEF Next, Opens, Opened, vars
<1>. QED BY <1>2, DInvStep

\* Only a device is dialed, a control link opens on its own protocol or not at
\* all, and what has been read of a stream is what the device streamed, in
\* order, all but what is still on its way (discovery.rs is_poll; session.rs
\* select_protocol, response_tail).
THEOREM SessionOpensRight == Spec => []OpensRight
<1>1. Init => DInv /\ OInv
  BY DInvInit, OInvInit DEF Init
<1>2. DInv /\ OInv /\ [Next]_vars => DInv' /\ OInv'
  BY DInvNext, OInvStep
<1>3. DInv /\ OInv => OpensRight
  <2> SUFFICES ASSUME OInv PROVE OpensRight
    OBVIOUS
  <2>1. client \in Clients /\ client.ip \in Devices \union {None} /\ client.tail \in Seq(Byte)
    BY DEF OInv, OpeningType, Clients
  <2>2. DOMAIN client.tail = 1 .. Len(client.tail)
    BY <2>1
  <2>. QED BY <2>1, <2>2 DEF OInv, OpensRight, Arrives, Serves
<1>. QED BY <1>1, <1>2, <1>3, PTL DEF Spec

=============================================================================
