------------------------------- MODULE Folding -------------------------------
(***************************************************************************)
(* What a fold over a sequence does, whatever its step is: it begins where  *)
(* it is told to, takes one element after the other, and keeps what every   *)
(* step keeps.  An instance names the step and what is kept.                *)
(***************************************************************************)
EXTENDS Integers, Sequences, FiniteSets, FiniteSetTheorems, FunctionTheorems,
        SequenceTheorems, WellFoundedInduction, TLAPS

CONSTANTS
  step(_, _),   \* from what there is and the next element to what there is then
  Keeps(_)      \* a predicate of what there is

\* A set of naturals has a first, and a set of positions a last.
LEMMA FirstOf ==
  ASSUME NEW T \in SUBSET Nat, T # {}
  PROVE  \E x \in T : \A y \in T : x <= y
<1>1. \E x \in T : \A y \in T : ~ (<<y, x>> \in OpToRel(<, Nat))
  BY NatLessThanWellFounded, WFMin
<1>2. \A x, y \in Nat : ~ (<<y, x>> \in OpToRel(<, Nat)) => x <= y
  BY DEF OpToRel
<1>. QED BY <1>1, <1>2

LEMMA LastOf ==
  ASSUME NEW n \in Nat, NEW T \in SUBSET (1 .. n), T # {}
  PROVE  \E x \in T : \A y \in T : y <= x
<1> DEFINE U == {i \in Nat : \E t \in T : i = n - t}
<1>1. U \in SUBSET Nat /\ U # {}
  <2>1. \A t \in T : n - t \in U
    OBVIOUS
  <2>. QED BY <2>1
<1>2. PICK i \in U : \A j \in U : i <= j
  BY <1>1, FirstOf
<1>3. PICK t \in T : i = n - t
  BY <1>2
<1>4. \A y \in T : n - y \in U
  OBVIOUS
<1>. QED BY <1>2, <1>3, <1>4

\* What begins at 0 and steps up to n is all of it.
LEMMA Induction ==
  ASSUME NEW n \in Nat, NEW S, 0 \in S, \A i \in 0 .. n - 1 : i \in S => i + 1 \in S
  PROVE  0 .. n \subseteq S /\ n \in S
<1> DEFINE T == {i \in 0 .. n : i \notin S}
<1>1. ASSUME T # {} PROVE FALSE
  <2>1. T \in SUBSET Nat
    OBVIOUS
  <2>2. PICK i \in T : \A j \in T : i <= j
    BY <1>1, <2>1, FirstOf
  <2>3. i # 0 /\ i \in 0 .. n /\ i \notin S
    BY <2>2
  <2>4. i - 1 \in 0 .. n - 1 /\ (i - 1 \notin S => i - 1 \in T)
    BY <2>3
  <2>5. i - 1 \in S
    BY <2>2, <2>4
  <2>6. (i - 1) + 1 \in S
    BY <2>4, <2>5
  <2>. QED BY <2>3, <2>6
<1>. QED BY <1>1

\* The definition Through has in Wire.
Folded(x, s) ==
  LET run[i \in 0 .. Len(s)] == IF i = 0 THEN x ELSE step(run[i - 1], s[i])
  IN  run[Len(s)]

\* The recursion has a solution.
LEMMA FoldRuns ==
  ASSUME NEW x, NEW s, Len(s) \in Nat
  PROVE  \E g : /\ g[0] = x
                /\ \A i \in 1 .. Len(s) : g[i] = step(g[i - 1], s[i])
                /\ Folded(x, s) = g[Len(s)]
<1> DEFINE n == Len(s)
           Next(g, i) == IF i = 0 THEN x ELSE step(g[i - 1], s[i])
           Is(k, g) == g = [i \in 0 .. k |-> Next(g, i)]
           S == {k \in 0 .. n : \E g : Is(k, g)}
<1>1. 0 \in S
  <2>1. Is(0, [i \in 0 .. 0 |-> x])
    OBVIOUS
  <2> HIDE DEF Is
  <2>2. \E g : Is(0, g)
    BY <2>1
  <2>. QED BY <2>2
<1>2. \A k \in 0 .. n - 1 : k \in S => k + 1 \in S
  <2> SUFFICES ASSUME NEW k \in 0 .. n - 1, k \in S PROVE k + 1 \in S
    OBVIOUS
  <2>1. PICK g : Is(k, g)
    OBVIOUS
  <2> DEFINE h == [i \in 0 .. k + 1 |-> IF i <= k THEN g[i] ELSE step(g[k], s[k + 1])]
  <2>2. \A i \in 0 .. k : g[i] = Next(g, i)
    BY <2>1
  <2>3. \A i \in 0 .. k : h[i] = g[i]
    OBVIOUS
  <2>4. h[k + 1] = step(g[k], s[k + 1])
    OBVIOUS
  <2> HIDE DEF h
  <2>5. \A i \in 0 .. k + 1 : h[i] = Next(h, i)
    <3> SUFFICES ASSUME NEW i \in 0 .. k + 1 PROVE h[i] = Next(h, i)
      OBVIOUS
    <3>1. CASE i = 0
      <4>1. h[i] = x
        BY <3>1, <2>2, <2>3
      <4>. QED BY <4>1, <3>1
    <3>2. CASE i \in 1 .. k
      <4>1. i - 1 \in 0 .. k /\ i \in 0 .. k
        BY <3>2
      <4>2. h[i] = g[i] /\ h[i - 1] = g[i - 1]
        BY <4>1, <2>3
      <4>3. g[i] = Next(g, i)
        BY <4>1, <2>2
      <4>. QED BY <4>2, <4>3, <3>2
    <3>3. CASE i = k + 1
      <4>1. h[i - 1] = g[k] /\ i # 0
        BY <3>3, <2>3
      <4>. QED BY <4>1, <3>3, <2>4
    <3>. QED BY <3>1, <3>2, <3>3
  <2>6. h = [i \in 0 .. k + 1 |-> h[i]]
    BY DEF h
  <2>7. Is(k + 1, h)
    BY <2>5, <2>6
  <2>. QED BY <2>7
<1> HIDE DEF S
<1>3. n \in S
  BY <1>1, <1>2, Induction
<1>4. \E g : Is(n, g)
  BY <1>3 DEF S
<1> DEFINE r == CHOOSE g : Is(n, g)
<1>5. Is(n, r)
  BY <1>4
<1>6. Folded(x, s) = r[n]
  BY DEF Folded
<1> HIDE DEF r
<1>7. r[0] = x /\ \A i \in 1 .. n : r[i] = step(r[i - 1], s[i])
  BY <1>5
<1>. QED BY <1>6, <1>7

LEMMA FoldEmpty == ASSUME NEW x, NEW s, Len(s) = 0 PROVE Folded(x, s) = x
BY FoldRuns

LEMMA FoldKeeps ==
  ASSUME NEW x, NEW s, Len(s) \in Nat, Keeps(x),
         ASSUME NEW v, NEW i \in 1 .. Len(s), Keeps(v) PROVE Keeps(step(v, s[i]))
  PROVE  Keeps(Folded(x, s))
<1>1. PICK g : /\ g[0] = x
               /\ \A i \in 1 .. Len(s) : g[i] = step(g[i - 1], s[i])
               /\ Folded(x, s) = g[Len(s)]
  BY FoldRuns
<1> DEFINE S == {k \in 0 .. Len(s) : Keeps(g[k])}
<1>2. 0 \in S
  BY <1>1
<1>3. \A k \in 0 .. Len(s) - 1 : k \in S => k + 1 \in S
  <2> SUFFICES ASSUME NEW k \in 0 .. Len(s) - 1, k \in S PROVE k + 1 \in S
    OBVIOUS
  <2>1. k + 1 \in 1 .. Len(s) /\ Keeps(g[k])
    OBVIOUS
  <2>2. g[k + 1] = step(g[k], s[k + 1])
    BY <1>1, <2>1
  <2>3. Keeps(step(g[k], s[k + 1]))
    BY <2>1
  <2>. QED BY <2>1, <2>2, <2>3
<1> HIDE DEF S
<1>4. Len(s) \in S
  BY <1>2, <1>3, Induction
<1>. QED BY <1>1, <1>4 DEF S

\* One more element, one more step.
LEMMA FoldOneMore ==
  ASSUME NEW x, NEW s, NEW t, Len(s) \in Nat, Len(t) = Len(s) + 1,
         \A i \in 1 .. Len(s) : t[i] = s[i]
  PROVE  Folded(x, t) = step(Folded(x, s), t[Len(t)])
<1>1. PICK g : /\ g[0] = x
               /\ \A i \in 1 .. Len(s) : g[i] = step(g[i - 1], s[i])
               /\ Folded(x, s) = g[Len(s)]
  BY FoldRuns
<1>2. PICK h : /\ h[0] = x
               /\ \A i \in 1 .. Len(t) : h[i] = step(h[i - 1], t[i])
               /\ Folded(x, t) = h[Len(t)]
  <2>1. Len(t) \in Nat
    OBVIOUS
  <2>. QED BY ONLY <2>1, FoldRuns
<1> DEFINE S == {k \in 0 .. Len(s) : g[k] = h[k]}
<1>3. 0 \in S
  BY <1>1, <1>2
<1>4. \A k \in 0 .. Len(s) - 1 : k \in S => k + 1 \in S
  <2> SUFFICES ASSUME NEW k \in 0 .. Len(s) - 1, k \in S PROVE k + 1 \in S
    OBVIOUS
  <2>1. k + 1 \in 1 .. Len(s) /\ k + 1 \in 1 .. Len(t) /\ g[k] = h[k]
    OBVIOUS
  <2>2. g[k + 1] = step(g[k], s[k + 1]) /\ h[k + 1] = step(h[k], t[k + 1])
    BY <1>1, <1>2, <2>1
  <2>3. t[k + 1] = s[k + 1]
    BY <2>1
  <2>. QED BY <2>1, <2>2, <2>3
<1> HIDE DEF S
<1>5. Len(s) \in S
  BY <1>3, <1>4, Induction
<1>6. h[Len(t)] = step(h[Len(s)], t[Len(t)])
  BY <1>2
<1>. QED BY <1>1, <1>2, <1>5, <1>6 DEF S

\* One element, and two.
LEMMA FoldOne == ASSUME NEW x, NEW a PROVE Folded(x, <<a>>) = step(x, a)
<1> DEFINE s == <<>>
           t == <<a>>
<1>1. Len(s) = 0 /\ Len(t) = 1 /\ t[1] = a
  OBVIOUS
<1> HIDE DEF s, t
<1>2. Folded(x, s) = x
  BY <1>1, FoldEmpty
<1>3. Len(s) \in Nat /\ Len(t) = Len(s) + 1 /\ \A i \in 1 .. Len(s) : t[i] = s[i]
  BY <1>1
<1>4. Folded(x, t) = step(Folded(x, s), t[Len(t)])
  BY <1>3, FoldOneMore
<1>5. Folded(x, t) = step(x, a)
  BY <1>1, <1>2, <1>4
<1>. QED BY <1>5 DEF t

LEMMA FoldTwo ==
  ASSUME NEW x, NEW a, NEW b PROVE Folded(x, <<a, b>>) = step(step(x, a), b)
<1> DEFINE s == <<a>>
           t == <<a, b>>
<1>1. Len(s) = 1 /\ Len(t) = 2 /\ s[1] = a /\ t[1] = a /\ t[2] = b
  OBVIOUS
<1>2. Folded(x, s) = step(x, a)
  BY FoldOne
<1> HIDE DEF s, t
<1>3. Len(s) \in Nat /\ Len(t) = Len(s) + 1 /\ \A i \in 1 .. Len(s) : t[i] = s[i]
  BY <1>1
<1>4. Folded(x, t) = step(Folded(x, s), t[Len(t)])
  BY <1>3, FoldOneMore
<1>5. Folded(x, t) = step(step(x, a), b)
  BY <1>1, <1>2, <1>4
<1>. QED BY <1>5 DEF t

=============================================================================
