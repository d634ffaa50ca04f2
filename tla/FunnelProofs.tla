---------------------------- MODULE FunnelProofs -----------------------------
(***************************************************************************)
(* Proofs about the funnel, for every routing table, every dump that the    *)
(* plan's assumption allows, every number of changes and every length of    *)
(* the wires.  On one thread the latest snapshot shows the tree whenever no *)
(* task is at work; and once the marker has ended a dump the tree is the    *)
(* device's state when both wires are drained.                              *)
(***************************************************************************)
EXTENDS Funnel, FiniteSetTheorems, FunctionTheorems, SequenceTheorems,
        WellFoundedInduction, TLAPS

\* A shift of positions keeps their number.
LEMMA ShiftCounts ==
  ASSUME NEW S \in SUBSET Int, NEW T \in SUBSET Int, NEW k \in Int, IsFiniteSet(S),
         \A i \in S : i + k \in T, \A j \in T : j - k \in S
  PROVE  IsFiniteSet(T) /\ Cardinality(T) = Cardinality(S)
<1> DEFINE f == [i \in S |-> i + k]
<1>1. f \in Bijection(S, T)
  <2>1. f \in [S -> T]
    OBVIOUS
  <2>2. \A a, b \in S : f[a] = f[b] => a = b
    OBVIOUS
  <2>3. \A t \in T : \E s \in S : f[s] = t
    <3>1. \A t \in T : t - k \in S /\ f[t - k] = t
      OBVIOUS
    <3>. QED BY <3>1
  <2>. QED BY <2>1, <2>2, <2>3, Fun_IsBij
<1>2. ExistsBijection(S, T)
  BY <1>1 DEF ExistsBijection
<1>. QED BY <1>2, FS_Bijection

\* A set of naturals has a first, and a set of positions a last.
LEMMA FirstOf ==
  ASSUME NEW T \in SUBSET Nat, T # {}
  PROVE  \E x \in T : \A y \in T : x <= y
<1>1. \E x \in T : \A y \in T : ~ (<<y, x>> \in OpToRel(<, Nat))
  BY NatLessThanWellFounded, WFMin
<1>2. \A x, y \in Nat : ~ (<<y, x>> \in OpToRel(<, Nat)) => x <= y
  BY DEF OpToRel
<1>. QED BY <1>1, <1>2

LEMMA LastOf ==
  ASSUME NEW n \in Nat, NEW T \in SUBSET (1 .. n), T # {}
  PROVE  \E x \in T : \A y \in T : y <= x
<1> DEFINE U == {i \in Nat : \E t \in T : i = n - t}
<1>1. U \in SUBSET Nat /\ U # {}
  <2>1. \A t \in T : n - t \in U
    OBVIOUS
  <2>. QED BY <2>1
<1>2. PICK i \in U : \A j \in U : i <= j
  BY <1>1, FirstOf
<1>3. PICK t \in T : i = n - t
  BY <1>2
<1>4. \A y \in T : n - y \in U
  OBVIOUS
<1>. QED BY <1>2, <1>3, <1>4

-----------------------------------------------------------------------------
(***************************************************************************)
(* Snapshots.                                                               *)
(***************************************************************************)

\* What publishes look at.
LEMMA InitSInv == Init => SInv
BY FunnelAssumption DEF Init, SInv, Published, Working, Zero, Links, Clean

\* The device, and the settle time, touch none of it.
LEMMA Aside ==
  ASSUME SInv, UNCHANGED <<task, tree, snapshot, runtime>>
  PROVE  SInv'
BY DEF SInv, Published, Clean, task

\* One item of a chunk: what it changes of a slow row flags the chunk.
LEMMA FoldsKeeps ==
  ASSUME SInv, NEW l \in Links, Folds(l)
  PROVE  SInv'
<1> DEFINE i == Head(wire[l])
<1>1. /\ at[l] = "fold" /\ Runs(l) /\ Apply(l, i)
      /\ at' = [at EXCEPT ![l] = IF batch[l] = 1 THEN "finish" ELSE "fold"]
      /\ UNCHANGED <<seen, snapshot, runtime>>
  BY DEF Folds, kept
<1> HIDE DEF i
<1>2. /\ DOMAIN tree' = Addresses
      /\ slow' \in [Links -> BOOLEAN]
      /\ \A a \in Slow : tree'[a] # tree[a] => slow'[l]
      /\ \A m \in Links \ {l} : slow'[m] = slow[m]
      /\ slow[l] => slow'[l]
  BY <1>1, FunnelAssumption DEF Apply, Shows, SInv
<1>3. at' \in [Links -> {"wait"} \union Working] /\ at'[l] \in {"fold", "finish"}
      /\ \A m \in Links \ {l} : at'[m] = at[m]
  BY <1>1 DEF SInv, Working
<1>4. ASSUME runtime = "current" PROVE Published'
  <2>1. Published /\ \A m \in Links \ {l} : at[m] = "wait"
    BY <1>1, <1>4 DEF SInv, Runs
  <2>2. \A m, n \in Links : m # n => at'[m] = "wait" \/ at'[n] = "wait"
    BY <1>3, <2>1
  <2>3. \A m \in Links : at'[m] # "send"
    BY <1>3, <2>1
  <2>4. ASSUME \A m \in Links : Clean(m)', NEW a \in Slow
        PROVE  snapshot'[a] = tree'[a]
    <3>1. ~slow'[l]
      BY <1>3, <2>4 DEF Clean
    <3>2. tree'[a] = tree[a] /\ ~slow[l]
      BY <1>2, <2>4, <3>1 DEF SInv
    <3>3. \A m \in Links : Clean(m)
      BY <1>1, <2>1, <3>2 DEF Clean
    <3>. QED BY <1>1, <2>1, <2>4, <3>2, <3>3 DEF Published
  <2>. QED BY <2>2, <2>3, <2>4 DEF Published
<1>. QED BY <1>1, <1>2, <1>3, <1>4 DEF SInv

\* A task starts a chunk, with the flag down.
LEMMA ReadsKeeps ==
  ASSUME SInv, NEW l \in Links, at[l] = "wait", Runs(l),
         at' = [at EXCEPT ![l] = "fold"], slow' = [slow EXCEPT ![l] = FALSE],
         UNCHANGED <<seen, tree, snapshot, runtime>>
  PROVE  SInv'
BY DEF SInv, Published, Clean, Runs, Working

\* A task that opens or loses the control link publishes at once.
LEMMA SaysKeeps ==
  ASSUME SInv, NEW l \in Links, Runs(l),
         at' = [at EXCEPT ![l] = "publish"],
         UNCHANGED <<slow, seen, tree, snapshot, runtime>>
  PROVE  SInv'
BY DEF SInv, Published, Clean, Runs, Working

\* A chunk is done: a flagged one is on its way to be published.
LEMMA FinishesKeeps ==
  ASSUME SInv, NEW l \in Links, Finishes(l)
  PROVE  SInv'
<1>1. /\ at[l] = "finish" /\ Runs(l)
      /\ at' = [at EXCEPT ![l] = IF slow[l] THEN "publish" ELSE "wait"]
      /\ UNCHANGED <<slow, seen, tree, snapshot, runtime>>
  BY DEF Finishes
<1>. QED BY <1>1 DEF SInv, Published, Clean, Runs, Working

LEMMA ClonesKeeps ==
  ASSUME SInv, NEW l \in Links, Clones(l)
  PROVE  SInv'
<1>1. /\ at[l] = "publish" /\ Runs(l)
      /\ seen' = [seen EXCEPT ![l] = tree] /\ at' = [at EXCEPT ![l] = "send"]
      /\ UNCHANGED <<slow, tree, snapshot, runtime>>
  BY DEF Clones, core, kept
<1>. QED BY <1>1 DEF SInv, Published, Clean, Runs, Working

LEMMA BroadcastsKeeps ==
  ASSUME SInv, NEW l \in Links, Broadcasts(l)
  PROVE  SInv'
<1>1. /\ at[l] = "send" /\ Runs(l)
      /\ snapshot' = seen[l] /\ at' = [at EXCEPT ![l] = "wait"]
      /\ UNCHANGED <<slow, seen, tree, runtime>>
  BY DEF Broadcasts, kept
<1>. QED BY <1>1 DEF SInv, Published, Clean, Runs, Working

\* SInv is inductive.
THEOREM Publishing == Spec => []SInv
<1>1. SInv /\ [Next]_vars => SInv'
  <2> SUFFICES ASSUME SInv, [Next]_vars PROVE SInv'
    OBVIOUS
  <2>1. CASE Device
    BY <2>1, Aside DEF Device, Changes, Repeats, StartsDump, WritesDump, task,
                       core, kept
  <2>2. CASE ReadsStream
    BY <2>2, ReadsKeeps DEF ReadsStream, core, kept, Links
  <2>3. CASE ReadsControl
    BY <2>3, ReadsKeeps DEF ReadsControl, core, kept, Links
  <2>4. CASE \E l \in Links : Folds(l) \/ Finishes(l) \/ Clones(l) \/ Broadcasts(l)
    BY <2>4, FoldsKeeps, FinishesKeeps, ClonesKeeps, BroadcastsKeeps
  <2>5. CASE Opens
    BY <2>5, SaysKeeps DEF Opens, Links
  <2>6. CASE Settles
    BY <2>6, Aside DEF Settles, task
  <2>7. CASE Loses
    BY <2>7, SaysKeeps DEF Loses, Links
  <2>8. CASE UNCHANGED vars
    BY <2>8, Aside DEF vars, core, kept
  <2>. QED BY <2>1, <2>2, <2>3, <2>4, <2>5, <2>6, <2>7, <2>8 DEF Next
<1>. QED BY <1>1, InitSInv, PTL DEF Spec

\* On one thread a subscriber's latest snapshot shows every slow row of the
\* tree whenever neither link's task is at work (publish_chunk, publish).
THEOREM SnapshotsCurrent == Spec => []SnapshotCurrent
<1>1. SInv => SnapshotCurrent
  BY DEF SInv, Published, Clean, SnapshotCurrent, Idle
<1>. QED BY <1>1, Publishing, PTL

-----------------------------------------------------------------------------
(***************************************************************************)
(* The wires: what is pushed comes last, and what is read came first.       *)
(***************************************************************************)

LEMMA WiresTyped ==
  ASSUME TypeOK
  PROVE  /\ DOMAIN wire = Links
         /\ \A l \in Links : wire[l] \in Seq(Item \union {End}) /\ Len(wire[l]) \in Nat
         /\ \A l \in Links : \A j \in 1 .. Len(wire[l]) : wire[l][j] \in Item \union {End}
<1>1. wire \in [Links -> Seq(Item \union {End})]
  BY DEF TypeOK
<1>. QED BY <1>1, ElementOfSeq

LEMMA PushedLast ==
  ASSUME TypeOK, NEW links, NEW i \in Item \union {End}, Pushes(links, i), NEW l \in Links
  PROVE  /\ wire' \in [Links -> Seq(Item \union {End})]
         /\ l \notin links => wire'[l] = wire[l]
         /\ l \in links => Len(wire'[l]) = Len(wire[l]) + 1 /\ wire'[l][Len(wire[l]) + 1] = i
         /\ \A j \in 1 .. Len(wire[l]) : wire'[l][j] = wire[l][j]
         /\ Len(wire'[l]) >= Len(wire[l])
<1>1. \A m \in Links : /\ wire[m] \in Seq(Item \union {End})
                      /\ wire'[m] = IF m \in links THEN Append(wire[m], i) ELSE wire[m]
  BY WiresTyped DEF Pushes
<1>2. \A m \in Links : Append(wire[m], i) \in Seq(Item \union {End})
  BY <1>1, AppendProperties
<1>3. wire' \in [Links -> Seq(Item \union {End})]
  BY <1>1, <1>2 DEF Pushes
<1>4. /\ Len(Append(wire[l], i)) = Len(wire[l]) + 1
      /\ Append(wire[l], i)[Len(wire[l]) + 1] = i
      /\ \A j \in 1 .. Len(wire[l]) : Append(wire[l], i)[j] = wire[l][j]
      /\ Len(wire[l]) \in Nat
  BY <1>1, AppendProperties
<1>5. CASE l \in links
  BY <1>1, <1>3, <1>4, <1>5
<1>6. CASE l \notin links
  BY <1>1, <1>3, <1>4, <1>6
<1>. QED BY <1>5, <1>6

\* A push of a is the last word on it.
LEMMA PushedTold ==
  ASSUME TypeOK, NEW links, NEW i \in Item \union {End}, Pushes(links, i), NEW l \in Links,
         NEW a
  PROVE  LET n == Len(wire[l]) + 1
             here == l \in links /\ i.addr = a
         IN  /\ Told(l, a)' = IF here THEN Told(l, a) \union {n} ELSE Told(l, a)
             /\ Pushed(l, a)' = IF here /\ ~i.copy THEN Pushed(l, a) \union {n}
                                                   ELSE Pushed(l, a)
<1> DEFINE n == Len(wire[l]) + 1
           here == l \in links /\ i.addr = a
<1>1. /\ l \notin links => wire'[l] = wire[l]
      /\ l \in links => Len(wire'[l]) = n /\ wire'[l][n] = i
      /\ \A j \in 1 .. Len(wire[l]) : wire'[l][j] = wire[l][j]
      /\ Len(wire[l]) \in Nat
  BY PushedLast, WiresTyped
<1>2. Told(l, a)' = IF here THEN Told(l, a) \union {n} ELSE Told(l, a)
  <2>1. CASE l \notin links
    BY <1>1, <2>1 DEF Told
  <2>2. CASE l \in links
    BY <1>1, <2>2 DEF Told
  <2>. QED BY <2>1, <2>2
<1>3. Pushed(l, a)' = IF here /\ ~i.copy THEN Pushed(l, a) \union {n} ELSE Pushed(l, a)
  BY <1>1, <1>2 DEF Pushed, Told
<1>. QED BY <1>2, <1>3

LEMMA PushFollows ==
  ASSUME TypeOK, NEW links, NEW i \in Item \union {End}, Pushes(links, i), NEW l \in Links,
         NEW a
  PROVE  /\ l \in links /\ i.addr = a /\ i.ver = dev'[a] =>
              /\ Followed(l, a, Told(l, a))' /\ Told(l, a)' # {}
              /\ ~i.copy => Followed(l, a, Pushed(l, a))'
         /\ ~(l \in links /\ i.addr = a) /\ dev'[a] = dev[a] =>
              /\ Followed(l, a, Told(l, a)) => Followed(l, a, Told(l, a))'
              /\ Followed(l, a, Pushed(l, a)) => Followed(l, a, Pushed(l, a))'
         /\ i.copy /\ dev'[a] = dev[a] =>
              (Followed(l, a, Pushed(l, a)) => Followed(l, a, Pushed(l, a))')
<1> DEFINE n == Len(wire[l]) + 1
           here == l \in links /\ i.addr = a
<1>1. /\ Told(l, a)' = IF here THEN Told(l, a) \union {n} ELSE Told(l, a)
      /\ Pushed(l, a)' = IF here /\ ~i.copy THEN Pushed(l, a) \union {n} ELSE Pushed(l, a)
  BY PushedTold
<1>2. /\ l \in links => wire'[l][n] = i
      /\ \A j \in 1 .. Len(wire[l]) : wire'[l][j] = wire[l][j]
      /\ Len(wire[l]) \in Nat
  BY PushedLast, WiresTyped
<1>3. Told(l, a) \subseteq 1 .. Len(wire[l]) /\ Pushed(l, a) \subseteq Told(l, a)
  BY DEF Told, Pushed
<1>4. ASSUME here, i.ver = dev'[a] PROVE Followed(l, a, Told(l, a))' /\ Told(l, a)' # {}
  <2>1. n \in Told(l, a)' /\ wire'[l][n].ver = dev'[a] /\ \A j \in Told(l, a)' : n >= j
    BY <1>1, <1>2, <1>3, <1>4
  <2>. QED BY <2>1 DEF Followed
<1>5. ASSUME here, i.ver = dev'[a], ~i.copy PROVE Followed(l, a, Pushed(l, a))'
  <2>1. n \in Pushed(l, a)' /\ wire'[l][n].ver = dev'[a] /\ \A j \in Pushed(l, a)' : n >= j
    BY <1>1, <1>2, <1>3, <1>5
  <2>. QED BY <2>1 DEF Followed
<1>6. ASSUME ~here, dev'[a] = dev[a], Followed(l, a, Told(l, a))
      PROVE  Followed(l, a, Told(l, a))'
  <2>1. Told(l, a)' = Told(l, a) /\ \A j \in Told(l, a) : wire'[l][j] = wire[l][j]
    BY <1>1, <1>2, <1>3, <1>6
  <2>. QED BY <1>6, <2>1 DEF Followed
<1>7. ASSUME ~(here /\ ~i.copy), dev'[a] = dev[a], Followed(l, a, Pushed(l, a))
      PROVE  Followed(l, a, Pushed(l, a))'
  <2>1. Pushed(l, a)' = Pushed(l, a) /\ \A j \in Pushed(l, a) : wire'[l][j] = wire[l][j]
    BY <1>1, <1>2, <1>3, <1>7
  <2>. QED BY <1>7, <2>1 DEF Followed
<1>. QED BY <1>4, <1>5, <1>6, <1>7

\* One item off a wire: the others move up.
Reads(l) == wire[l] # <<>> /\ wire' = [wire EXCEPT ![l] = Tail(@)]

LEMMA ReadFirst ==
  ASSUME TypeOK, NEW l \in Links, Reads(l)
  PROVE  /\ wire' \in [Links -> Seq(Item \union {End})]
         /\ \A m \in Links \ {l} : wire'[m] = wire[m]
         /\ Len(wire[l]) \in Nat \ {0} /\ Len(wire'[l]) = Len(wire[l]) - 1
         /\ Head(wire[l]) = wire[l][1] /\ Head(wire[l]) \in Item \union {End}
         /\ \A j \in 1 .. Len(wire[l]) - 1 : wire'[l][j] = wire[l][j + 1]
<1>1. wire \in [Links -> Seq(Item \union {End})]
  BY DEF TypeOK
<1>2. wire'[l] = Tail(wire[l]) /\ wire[l] # <<>> /\ \A m \in Links \ {l} : wire'[m] = wire[m]
  BY <1>1 DEF Reads
<1>3. /\ Head(wire[l]) \in Item \union {End} /\ Tail(wire[l]) \in Seq(Item \union {End})
      /\ Len(Tail(wire[l])) = Len(wire[l]) - 1
      /\ \A j \in 1 .. Len(Tail(wire[l])) : Tail(wire[l])[j] = wire[l][j + 1]
      /\ Len(wire[l]) \in Nat \ {0} /\ Head(wire[l]) = wire[l][1]
  BY <1>1, <1>2, HeadTailProperties
<1>4. wire' \in [Links -> Seq(Item \union {End})]
  BY <1>1, <1>3 DEF Reads
<1>. QED BY <1>2, <1>3, <1>4

LEMMA ReadTold ==
  ASSUME TypeOK, NEW l \in Links, Reads(l), NEW a
  PROVE  /\ \A j \in Told(l, a)' : j >= 1 /\ j + 1 \in Told(l, a)
         /\ \A j \in Told(l, a) : j # 1 => j - 1 \in Told(l, a)'
         /\ \A j \in Pushed(l, a)' : j >= 1 /\ j + 1 \in Pushed(l, a)
         /\ \A j \in Pushed(l, a) : j # 1 => j - 1 \in Pushed(l, a)'
         /\ 1 \in Told(l, a) <=> Head(wire[l]).addr = a
         /\ 1 \in Pushed(l, a) <=> Head(wire[l]).addr = a /\ ~Head(wire[l]).copy
         /\ \A j \in Told(l, a) : j \in Nat \ {0}
         /\ \A j \in Told(l, a)' : wire'[l][j] = wire[l][j + 1]
         /\ Pushed(l, a) \subseteq Told(l, a)
<1>1. /\ Len(wire[l]) \in Nat \ {0} /\ Len(wire'[l]) = Len(wire[l]) - 1
      /\ Head(wire[l]) = wire[l][1]
      /\ \A j \in 1 .. Len(wire[l]) - 1 : wire'[l][j] = wire[l][j + 1]
  BY ReadFirst
<1>2. /\ Told(l, a)' = {j \in 1 .. Len(wire[l]) - 1 : wire[l][j + 1].addr = a}
      /\ Told(l, a) = {j \in 1 .. Len(wire[l]) : wire[l][j].addr = a}
  BY <1>1 DEF Told
<1>3. /\ Pushed(l, a)' = {j \in Told(l, a)' : ~wire[l][j + 1].copy}
      /\ Pushed(l, a) = {j \in Told(l, a) : ~wire[l][j].copy}
  BY <1>1, <1>2 DEF Pushed
<1>4. Pushed(l, a) \subseteq Told(l, a)
  BY <1>3
<1>5. /\ \A j \in Told(l, a)' : j >= 1 /\ j + 1 \in Told(l, a)
      /\ \A j \in Told(l, a) : j # 1 => j - 1 \in Told(l, a)'
      /\ \A j \in Told(l, a) : j \in Nat \ {0}
      /\ \A j \in Told(l, a)' : wire'[l][j] = wire[l][j + 1]
      /\ 1 \in Told(l, a) <=> Head(wire[l]).addr = a
  BY <1>1, <1>2
<1>6. \A j \in Pushed(l, a)' : j >= 1 /\ j + 1 \in Pushed(l, a)
  BY <1>3, <1>5
<1>7. \A j \in Pushed(l, a) : j # 1 => j - 1 \in Pushed(l, a)'
  <2>1. ASSUME NEW j \in Pushed(l, a), j # 1 PROVE j - 1 \in Pushed(l, a)'
    <3>1. j - 1 \in Told(l, a)' /\ (j - 1) + 1 = j
      BY <1>4, <1>5, <2>1
    <3>. QED BY <1>3, <2>1, <3>1
  <2>. QED BY <2>1
<1>8. 1 \in Pushed(l, a) <=> Head(wire[l]).addr = a /\ ~Head(wire[l]).copy
  BY <1>1, <1>3, <1>5
<1>. QED BY <1>4, <1>5, <1>6, <1>7, <1>8

LEMMA ReadFollows ==
  ASSUME TypeOK, NEW l \in Links, Reads(l), NEW a, dev'[a] = dev[a]
  PROVE  /\ Followed(l, a, Told(l, a)) => Followed(l, a, Told(l, a))'
         /\ Followed(l, a, Pushed(l, a)) => Followed(l, a, Pushed(l, a))'
         /\ Followed(l, a, Told(l, a)) /\ Head(wire[l]).addr = a /\ Told(l, a)' = {} =>
              Head(wire[l]).ver = dev[a]
         /\ Followed(l, a, Pushed(l, a)) /\ 1 \in Pushed(l, a) /\ Pushed(l, a)' = {} =>
              Head(wire[l]).ver = dev[a]
<1>1. /\ \A j \in Told(l, a)' : j >= 1 /\ j + 1 \in Told(l, a) /\ wire'[l][j] = wire[l][j + 1]
      /\ \A j \in Told(l, a) : j \in Nat \ {0} /\ (j # 1 => j - 1 \in Told(l, a)')
      /\ \A j \in Pushed(l, a)' : j \in Told(l, a)' /\ j + 1 \in Pushed(l, a)
      /\ \A j \in Pushed(l, a) : j \in Told(l, a) /\ (j # 1 => j - 1 \in Pushed(l, a)')
      /\ 1 \in Told(l, a) <=> Head(wire[l]).addr = a
      /\ Head(wire[l]) = wire[l][1]
  BY ReadTold, ReadFirst DEF Pushed
<1>3. \A j \in Told(l, a)' : j \in Nat \ {0}
  BY <1>1 DEF Told
<1>4. ASSUME Followed(l, a, Told(l, a)) PROVE Followed(l, a, Told(l, a))'
  <2>1. ASSUME NEW j \in Told(l, a)'
        PROVE  \E m \in Told(l, a)' : m >= j /\ wire'[l][m].ver = dev'[a]
    <3>1. PICK m \in Told(l, a) : m >= j + 1 /\ wire[l][m].ver = dev[a]
      BY <1>1, <1>4, <2>1 DEF Followed
    <3>2. m - 1 \in Told(l, a)' /\ m - 1 >= j /\ wire'[l][m - 1] = wire[l][(m - 1) + 1]
      BY <1>1, <1>3, <2>1, <3>1
    <3>3. wire'[l][m - 1] = wire[l][m]
      BY <1>1, <3>2
    <3>. QED BY <3>1, <3>2, <3>3
  <2>. QED BY <2>1 DEF Followed
<1>5. ASSUME Followed(l, a, Pushed(l, a)) PROVE Followed(l, a, Pushed(l, a))'
  <2>1. ASSUME NEW j \in Pushed(l, a)'
        PROVE  \E m \in Pushed(l, a)' : m >= j /\ wire'[l][m].ver = dev'[a]
    <3>1. PICK m \in Pushed(l, a) : m >= j + 1 /\ wire[l][m].ver = dev[a]
      BY <1>1, <1>5, <2>1 DEF Followed
    <3>2. m - 1 \in Pushed(l, a)' /\ m - 1 >= j /\ wire'[l][m - 1] = wire[l][(m - 1) + 1]
      BY <1>1, <1>3, <2>1, <3>1
    <3>3. wire'[l][m - 1] = wire[l][m]
      BY <1>1, <3>1, <3>2
    <3>. QED BY <3>1, <3>2, <3>3
  <2>. QED BY <2>1 DEF Followed
<1>6. ASSUME Followed(l, a, Told(l, a)), 1 \in Told(l, a), Told(l, a)' = {}
      PROVE  Head(wire[l]).ver = dev[a]
  <2>1. PICK m \in Told(l, a) : wire[l][m].ver = dev[a]
    BY <1>6 DEF Followed
  <2>. QED BY <1>1, <1>6, <2>1
<1>7. ASSUME Followed(l, a, Pushed(l, a)), 1 \in Pushed(l, a), Pushed(l, a)' = {}
      PROVE  Head(wire[l]).ver = dev[a]
  <2>1. PICK m \in Pushed(l, a) : wire[l][m].ver = dev[a]
    BY <1>7 DEF Followed
  <2>. QED BY <1>1, <1>7, <2>1
<1>. QED BY <1>1, <1>4, <1>5, <1>6, <1>7

-----------------------------------------------------------------------------
(***************************************************************************)
(* The runs that close the sections of a dump.                              *)
(***************************************************************************)

RunsOfPlan(n) == {i \in 1 .. n : Plan[i] = EndRun}

\* All of them are written only with the whole dump.
LEMMA AllRunsWithAll ==
  ASSUME NEW n \in 0 .. Len(Plan)
  PROVE  /\ Cardinality(RunsOfPlan(n)) \in 0 .. DumpEndRuns
         /\ Cardinality(RunsOfPlan(n)) = DumpEndRuns => n = Len(Plan)
         /\ n < Len(Plan) => Cardinality(RunsOfPlan(n + 1)) =
              Cardinality(RunsOfPlan(n)) + IF Plan[n + 1] = EndRun THEN 1 ELSE 0
         /\ Len(Plan) \in Nat \ {0} /\ Cardinality(RunsOfPlan(0)) = 0
<1>1. Len(Plan) \in Nat \ {0} /\ Plan[Len(Plan)] = EndRun
  BY FunnelAssumption, PlanAssumption, EmptySeq, LenProperties
<1>2. IsFiniteSet(RunsOfPlan(Len(Plan))) /\ Cardinality(RunsOfPlan(Len(Plan))) = DumpEndRuns
  <2>1. IsFiniteSet(1 .. Len(Plan))
    BY <1>1, FS_Interval
  <2>. QED BY <2>1, FS_Subset, PlanAssumption DEF RunsOfPlan
<1>3. RunsOfPlan(n) \in SUBSET RunsOfPlan(Len(Plan))
  BY <1>1 DEF RunsOfPlan
<1>4. /\ IsFiniteSet(RunsOfPlan(n))
      /\ Cardinality(RunsOfPlan(n)) <= DumpEndRuns
      /\ Cardinality(RunsOfPlan(n)) = DumpEndRuns => RunsOfPlan(n) = RunsOfPlan(Len(Plan))
  BY <1>2, <1>3, FS_Subset
<1>5. Cardinality(RunsOfPlan(n)) \in Nat
  BY <1>4, FS_CardinalityType
<1>6. RunsOfPlan(n) = RunsOfPlan(Len(Plan)) => n = Len(Plan)
  BY <1>1 DEF RunsOfPlan
<1>7. ASSUME n < Len(Plan)
      PROVE  Cardinality(RunsOfPlan(n + 1)) =
               Cardinality(RunsOfPlan(n)) + IF Plan[n + 1] = EndRun THEN 1 ELSE 0
  <2>1. RunsOfPlan(n + 1) =
          IF Plan[n + 1] = EndRun THEN RunsOfPlan(n) \union {n + 1} ELSE RunsOfPlan(n)
    BY DEF RunsOfPlan
  <2>2. n + 1 \notin RunsOfPlan(n)
    BY DEF RunsOfPlan
  <2>3. Cardinality(RunsOfPlan(n) \union {n + 1}) = Cardinality(RunsOfPlan(n)) + 1
    BY <1>4, <2>2, FS_AddElement
  <2>. QED BY <1>5, <2>1, <2>3
<1>8. Cardinality(RunsOfPlan(0)) = 0
  <2>1. RunsOfPlan(0) = {}
    BY DEF RunsOfPlan
  <2>. QED BY <2>1, FS_EmptySet
<1>9. DumpEndRuns \in Nat
  BY FunnelAssumption
<1>10. Cardinality(RunsOfPlan(n)) \in 0 .. DumpEndRuns
  BY <1>4, <1>5, <1>9
<1>11. Cardinality(RunsOfPlan(n)) = DumpEndRuns => n = Len(Plan)
  BY <1>4, <1>6
<1>. QED BY <1>1, <1>7, <1>8, <1>10, <1>11

\* The runs on the control wire: those among the first k, and those after.
RunsAfter(k) == {j \in k + 1 .. Len(wire["control"]) : wire["control"][j] = End}

LEMMA RunsFinite ==
  ASSUME TypeOK, NEW k \in Nat
  PROVE  /\ IsFiniteSet(EndRunsIn(k)) /\ IsFiniteSet(RunsAfter(k))
         /\ Cardinality(EndRunsIn(k)) \in Nat /\ Cardinality(RunsAfter(k)) \in Nat
         /\ k <= Len(wire["control"]) =>
              Cardinality(RunsAfter(0)) = Cardinality(EndRunsIn(k)) + Cardinality(RunsAfter(k))
<1>1. Len(wire["control"]) \in Nat
  BY WiresTyped DEF Links
<1>2. IsFiniteSet(EndRunsIn(k)) /\ IsFiniteSet(RunsAfter(k))
  <2>1. IsFiniteSet(1 .. k) /\ IsFiniteSet(k + 1 .. Len(wire["control"]))
    BY <1>1, FS_Interval
  <2>. QED BY <2>1, FS_Subset DEF EndRunsIn, RunsAfter
<1>3. Cardinality(EndRunsIn(k)) \in Nat /\ Cardinality(RunsAfter(k)) \in Nat
  BY <1>2, FS_CardinalityType
<1>4. ASSUME k <= Len(wire["control"])
      PROVE  Cardinality(RunsAfter(0)) = Cardinality(EndRunsIn(k)) + Cardinality(RunsAfter(k))
  <2>1. RunsAfter(0) = EndRunsIn(k) \union RunsAfter(k)
    BY <1>1, <1>4 DEF RunsAfter, EndRunsIn
  <2>2. EndRunsIn(k) \intersect RunsAfter(k) = {}
    BY <1>1 DEF RunsAfter, EndRunsIn
  <2>3. Cardinality(EndRunsIn(k) \union RunsAfter(k)) =
          Cardinality(EndRunsIn(k)) + Cardinality(RunsAfter(k))
            - Cardinality(EndRunsIn(k) \intersect RunsAfter(k))
    BY <1>2, FS_Union
  <2>4. Cardinality(EndRunsIn(k) \intersect RunsAfter(k)) = 0
    BY <2>2, FS_EmptySet
  <2> DEFINE x == Cardinality(EndRunsIn(k))
             y == Cardinality(RunsAfter(k))
             z == Cardinality(EndRunsIn(k) \intersect RunsAfter(k))
  <2>5. Cardinality(RunsAfter(0)) = x + y - z /\ x \in Nat /\ y \in Nat /\ z = 0
    BY <1>3, <2>1, <2>3, <2>4
  <2> HIDE DEF x, y, z
  <2>6. Cardinality(RunsAfter(0)) = x + y
    BY <2>5
  <2>. QED BY <2>6 DEF x, y
<1>. QED BY <1>2, <1>3, <1>4

\* What run_control makes of the chunk that it reads: without the closing run
\* it is the dump's, and counted; with it, nothing of the dump comes after.
LEMMA SplitsWhereItCloses ==
  ASSUME TypeOK, Phases, Counts, dump.on, at["control"] = "wait",
         NEW k \in 1 .. Len(wire["control"])
  PROVE  /\ Cut(k) \in 1 .. k /\ Counted(k) \in 0 .. DumpEndRuns
         /\ Splits(k) = {} =>
              /\ Cut(k) = k /\ Counted(k) < DumpEndRuns
              /\ Counted(k) + Cardinality(RunsAfter(k)) = EndsWritten
         /\ Splits(k) # {} =>
              /\ ~asked /\ ~Writing
              /\ \A j \in 1 .. Len(wire["control"]) :
                   j > Cut(k) => ~wire["control"][j].copy
<1> DEFINE c == wire["control"]
           D == DumpEndRuns
<1>t. /\ Len(c) \in Nat /\ dump.runs \in 0 .. D /\ D \in Nat \ {0}
      /\ sent \in 0 .. Len(Plan) /\ asked \in BOOLEAN
  BY WiresTyped, FunnelAssumption DEF Links, TypeOK
<1>1. ~dump.ends /\ batch["control"] = 0
  BY DEF Phases, Links
<1>2. dump.runs < D /\ dump.runs + Cardinality(RunsAfter(0)) = EndsWritten
  <2>1. EndsAhead = Cardinality(RunsAfter(0))
    BY <1>1 DEF EndsAhead, RunsAfter
  <2>. QED BY <1>1, <2>1 DEF Counts
<1>3. /\ EndsWritten = IF asked THEN 0 ELSE Cardinality(RunsOfPlan(sent))
      /\ Cardinality(RunsOfPlan(sent)) \in 0 .. D
      /\ Cardinality(RunsOfPlan(sent)) = D => sent = Len(Plan)
  BY <1>t, AllRunsWithAll DEF EndsWritten, RunsOfPlan
<1>4. \A n \in 0 .. Len(c) :
        /\ IsFiniteSet(EndRunsIn(n)) /\ Cardinality(EndRunsIn(n)) \in Nat
        /\ Cardinality(RunsAfter(n)) \in Nat
        /\ Cardinality(RunsAfter(0)) = Cardinality(EndRunsIn(n)) + Cardinality(RunsAfter(n))
  <2> SUFFICES ASSUME NEW n \in 0 .. Len(c)
               PROVE  /\ IsFiniteSet(EndRunsIn(n)) /\ Cardinality(EndRunsIn(n)) \in Nat
                      /\ Cardinality(RunsAfter(n)) \in Nat
                      /\ Cardinality(RunsAfter(0)) =
                           Cardinality(EndRunsIn(n)) + Cardinality(RunsAfter(n))
    OBVIOUS
  <2>1. n \in Nat /\ n <= Len(c)
    BY <1>t
  <2>. QED BY <2>1, RunsFinite
<1>k. /\ Cardinality(EndRunsIn(k)) \in Nat /\ Cardinality(RunsAfter(k)) \in Nat
      /\ Cardinality(RunsAfter(0)) = Cardinality(EndRunsIn(k)) + Cardinality(RunsAfter(k))
  BY <1>t, <1>4
<1>5. \A j \in 1 .. k : {i \in EndRunsIn(k) : i <= j} = EndRunsIn(j)
  BY <1>t DEF EndRunsIn
<1>6. Splits(k) = {j \in EndRunsIn(k) : dump.runs + Cardinality(EndRunsIn(j)) >= D}
  BY <1>5 DEF Splits, EndRunsIn
<1>7. EndRunsIn(k) \in SUBSET (1 .. k)
  BY DEF EndRunsIn
<1>8. ASSUME Splits(k) = {}
      PROVE  /\ Cut(k) = k /\ Counted(k) < D /\ Counted(k) \in Nat
             /\ Counted(k) + Cardinality(RunsAfter(k)) = EndsWritten
  <2>1. Cut(k) = k /\ Counted(k) = dump.runs + Cardinality(EndRunsIn(k))
    BY <1>8 DEF Cut, Counted
  <2>2. CASE EndRunsIn(k) = {}
    <3>1. Cardinality(EndRunsIn(k)) = 0
      BY <2>2, FS_EmptySet
    <3>. QED BY <1>t, <1>2, <1>k, <2>1, <3>1
  <2>3. CASE EndRunsIn(k) # {}
    <3>1. PICK j \in EndRunsIn(k) : \A i \in EndRunsIn(k) : i <= j
      <4>1. k \in Nat /\ EndRunsIn(k) \in SUBSET (1 .. k)
        BY <1>t, <1>7
      <4>. QED BY <2>3, <4>1, LastOf
    <3>2. EndRunsIn(j) = EndRunsIn(k)
      BY <1>5, <1>7, <3>1
    <3>3. ~(dump.runs + Cardinality(EndRunsIn(k)) >= D)
      BY <1>6, <1>8, <3>1, <3>2
    <3>. QED BY <1>t, <1>2, <1>k, <2>1, <3>3
  <2>. QED BY <2>2, <2>3
<1>9. ASSUME Splits(k) # {}
      PROVE  /\ Cut(k) \in 1 .. k /\ Counted(k) \in 0 .. D /\ ~asked /\ ~Writing
             /\ \A j \in 1 .. Len(c) : j > Cut(k) => ~c[j].copy
  <2>1. Splits(k) \in SUBSET (1 .. k)
    BY <1>6, <1>7
  <2>2. \E j \in Splits(k) : \A i \in Splits(k) : j <= i
    <3>1. Splits(k) \in SUBSET Nat
      BY <2>1
    <3>. QED BY <1>9, <3>1, FirstOf
  <2>3. Cut(k) \in Splits(k)
    BY <1>9, <2>2 DEF Cut
  <2>c. Cut(k) \in 1 .. k
    BY <2>1, <2>3
  <2>4. /\ dump.runs + Cardinality(EndRunsIn(Cut(k))) >= D
        /\ Counted(k) = dump.runs + Cardinality(EndRunsIn(Cut(k)))
    BY <1>6, <2>3 DEF Counted
  <2>5. /\ Cardinality(EndRunsIn(Cut(k))) \in Nat
        /\ Cardinality(RunsAfter(Cut(k))) \in Nat
        /\ Cardinality(RunsAfter(0)) =
             Cardinality(EndRunsIn(Cut(k))) + Cardinality(RunsAfter(Cut(k)))
    BY <1>t, <1>4, <2>c
  <2>6. /\ ~asked /\ sent = Len(Plan) /\ Counted(k) = D
        /\ Cardinality(RunsAfter(Cut(k))) = 0
    BY <1>t, <1>2, <1>3, <2>4, <2>5
  <2>7. RunsAfter(Cut(k)) = {}
    BY <1>t, <2>c, <2>6, RunsFinite, FS_EmptySet
  <2>8. ~Writing
    BY <1>t, <2>6 DEF Writing
  <2>9. ASSUME NEW j \in 1 .. Len(c), j > Cut(k), c[j].copy PROVE FALSE
    <3>1. PICK m \in 1 .. Len(c) : m >= j /\ c[m] = End
      BY <2>6, <2>8, <2>9 DEF Counts
    <3>2. m \in RunsAfter(Cut(k))
      BY <1>t, <2>c, <2>9, <3>1 DEF RunsAfter
    <3>. QED BY <2>7, <3>2
  <2>. QED BY <1>t, <2>c, <2>6, <2>8, <2>9
<1>. QED BY <1>t, <1>8, <1>9

-----------------------------------------------------------------------------
(***************************************************************************)
(* The types and the phases.                                                *)
(***************************************************************************)

\* What each step pushes.
LEMMA LivePush ==
  ASSUME TypeOK, NEW a \in Addresses, dev' \in Tree
  PROVE  Live(a) \in Item /\ Live(a).addr = a /\ Live(a).ver = dev'[a] /\ ~Live(a).copy
<1>1. dev'[a] \in Versions
  BY DEF Tree
<1>2. Live(a) = [addr |-> a, ver |-> dev'[a], copy |-> FALSE]
  BY DEF Live
<1>3. FALSE \in BOOLEAN
  OBVIOUS
<1>. QED BY <1>1, <1>2, <1>3 DEF Item

LEMMA ChangeIsPushed ==
  ASSUME TypeOK, Phases, NEW a \in Addresses, Changes(a)
  PROVE  /\ dev' \in Tree /\ changes' \in Versions /\ \A b \in Addresses : dev'[b] <= changes'
         /\ \A b \in Addresses \ {a} : dev'[b] = dev[b]
         /\ \E links \in SUBSET Links :
              /\ Pushes(links, Live(a))
              /\ Wire[a] # "control" => "stream" \in links
              /\ Wire[a] = "control" => "stream" \notin links
              /\ Wire[a] # "stream" => ("control" \in links <=> link = "open")
              /\ link = "down" => "control" \notin links
<1>1. /\ \A b \in Addresses : dev[b] \in 0 .. MaxChanges /\ dev[b] <= changes
      /\ changes \in 0 .. MaxChanges /\ MaxChanges \in Nat /\ DOMAIN dev = Addresses
      /\ link \in {"down", "open"} /\ Wire[a] \in {"stream", "control", "both"}
  BY FunnelAssumption DEF TypeOK, Tree, Versions, Phases
<1>2. /\ changes < MaxChanges /\ changes' = changes + 1 /\ dev' = [dev EXCEPT ![a] = @ + 1]
      /\ \E links \in Carriers(a) : Pushes(links, Live(a))
  BY DEF Changes
<1>3. dev' \in Tree /\ changes' \in Versions /\ \A b \in Addresses : dev'[b] <= changes'
  <2>1. dev[a] + 1 \in Versions /\ dev[a] + 1 <= changes' /\ changes' \in Versions
    BY <1>1, <1>2 DEF Versions
  <2>2. dev \in [Addresses -> Versions]
    BY DEF TypeOK, Tree
  <2>3. \A b \in Addresses : dev'[b] = IF b = a THEN dev[a] + 1 ELSE dev[b]
    BY <1>2, <2>2
  <2>4. \A b \in Addresses : dev'[b] <= changes'
    BY <1>1, <1>2, <2>1, <2>3
  <2>5. dev' \in [Addresses -> Versions]
    BY <1>2, <2>1, <2>2
  <2>. QED BY <2>1, <2>4, <2>5 DEF Tree
<1>4. PICK links \in Carriers(a) : Pushes(links, Live(a))
  BY <1>2
<1>5. /\ links \in SUBSET Links
      /\ Wire[a] # "control" => "stream" \in links
      /\ Wire[a] = "control" => "stream" \notin links
      /\ Wire[a] # "stream" => ("control" \in links <=> link = "open")
      /\ link = "down" => "control" \notin links
  <2>1. CASE Wire[a] = "both"
    BY <1>1, <1>4, <2>1 DEF Carriers, Links
  <2>2. CASE Wire[a] = "control"
    BY <1>1, <1>4, <2>2 DEF Carriers, Links
  <2>3. CASE Wire[a] = "stream"
    BY <1>1, <1>4, <2>3 DEF Carriers, Links
  <2>. QED BY <1>1, <2>1, <2>2, <2>3
<1>. QED BY <1>1, <1>2, <1>3, <1>4, <1>5

LEMMA DumpIsPushed ==
  ASSUME TypeOK, WritesDump
  PROVE  /\ sent + 1 \in 1 .. Len(Plan) /\ sent' = sent + 1 /\ ~asked /\ sent < Len(Plan)
         /\ \E i \in Item \union {End} :
              /\ Pushes({"control"}, i) /\ i.copy /\ i.addr = Plan[sent + 1]
              /\ i.addr = EndRun <=> i = End
              /\ i # End => /\ i.addr \in Addresses
                            /\ i.ver \in asOf[i.addr] .. dev[i.addr]
<1>1. /\ sent \in 0 .. Len(Plan) /\ Len(Plan) \in Nat /\ sent < Len(Plan) /\ ~asked
      /\ sent' = sent + 1
  BY FunnelAssumption, LenProperties DEF TypeOK, WritesDump, Writing
<1>2. Plan[sent + 1] \in Addresses \union {EndRun} /\ EndRun \notin Addresses
  BY <1>1, FunnelAssumption, ElementOfSeq
<1>3. CASE Plan[sent + 1] = EndRun
  <2>1. Pushes({"control"}, End)
    BY <1>3 DEF WritesDump
  <2>. QED BY <1>1, <1>3, <2>1 DEF End
<1>4. CASE Plan[sent + 1] # EndRun
  <2> DEFINE a == Plan[sent + 1]
  <2>1. PICK v \in asOf[a] .. dev[a] :
               Pushes({"control"}, [addr |-> a, ver |-> v, copy |-> TRUE])
    BY <1>4 DEF WritesDump
  <2>2. a \in Addresses
    BY <1>2, <1>4
  <2>3. asOf[a] \in 0 .. MaxChanges /\ dev[a] \in 0 .. MaxChanges /\ MaxChanges \in Nat
    BY <2>2, FunnelAssumption DEF TypeOK, Tree, Versions
  <2>4. v \in Versions
    BY <2>1, <2>3 DEF Versions
  <2> DEFINE i == [addr |-> a, ver |-> v, copy |-> TRUE]
  <2>5. i \in Item /\ i.copy /\ i.addr = a /\ i.ver = v /\ i # End
    BY <1>4, <2>2, <2>4 DEF Item, End
  <2>6. Pushes({"control"}, i)
    BY <2>1
  <2> HIDE DEF i
  <2>. QED BY <1>1, <1>4, <2>1, <2>2, <2>5, <2>6
<1>. QED BY <1>3, <1>4

LEMMA FoldsReads ==
  ASSUME TypeOK, Phases, NEW l \in Links, Folds(l)
  PROVE  /\ Reads(l) /\ batch[l] \in Nat \ {0}
         /\ batch[l] <= Len(wire[l]) /\ Len(wire[l]) \in Nat
<1>1. at[l] = "fold" /\ wire' = [wire EXCEPT ![l] = Tail(@)]
  BY DEF Folds
<1>2. batch[l] \in Nat \ {0} /\ batch[l] <= Len(wire[l]) /\ Len(wire[l]) \in Nat
  BY <1>1, WiresTyped DEF TypeOK, Phases
<1>. QED BY <1>1, <1>2 DEF Reads

\* The types, part by part.
DeviceTyped ==
  /\ dev \in Tree /\ asOf \in Tree /\ changes \in Versions
  /\ asked \in BOOLEAN /\ sent \in 0 .. Len(Plan)
WireTyped ==
  /\ wire \in [Links -> Seq(Item \union {End})]
  /\ batch \in [Links -> Nat] /\ \A l \in Links : batch[l] <= Len(wire[l])
PlaceTyped == at \in [Links -> {"wait", "fold", "finish", "publish", "send"}]
TaskTyped == slow \in [Links -> BOOLEAN] /\ seen \in [Links -> Tree]
DumpTyped ==
  /\ dump \in [on : BOOLEAN, runs : 0 .. DumpEndRuns, cut : Nat, ends : BOOLEAN]
  /\ dump.cut <= batch["control"]
TreeTyped == tree \in Tree /\ snapshot \in Tree
GuardTyped ==
  /\ guard \in [active : BOOLEAN, touched : SUBSET Addresses]
  /\ link \in {"down", "open"} /\ over \in {"running", "marker", "settle", "loss"}
KeptTyped ==
  runtime \in {"current", "multi"} /\ opens \in 0 .. MaxOpens /\ ramped \subseteq Addresses

LEMMA TypeParts ==
  TypeOK <=> /\ DeviceTyped /\ WireTyped /\ PlaceTyped /\ TaskTyped
             /\ DumpTyped /\ TreeTyped /\ GuardTyped /\ KeptTyped
BY DEF TypeOK, DeviceTyped, WireTyped, PlaceTyped, TaskTyped, DumpTyped, TreeTyped, GuardTyped,
       KeptTyped

LEMMA TypesFrame ==
  ASSUME TypeOK
  PROVE  /\ UNCHANGED device => DeviceTyped'
         /\ UNCHANGED <<wire, batch>> => WireTyped'
         /\ UNCHANGED at => PlaceTyped'
         /\ UNCHANGED <<slow, seen>> => TaskTyped'
         /\ UNCHANGED <<dump, batch>> => DumpTyped'
         /\ UNCHANGED <<tree, snapshot>> => TreeTyped'
         /\ UNCHANGED <<guard, link, over>> => GuardTyped'
         /\ UNCHANGED <<runtime, opens, ramped>> => KeptTyped'
BY TypeParts
   DEF DeviceTyped, WireTyped, PlaceTyped, TaskTyped, DumpTyped, TreeTyped, GuardTyped, KeptTyped,
       device

LEMMA TypesKept ==
  ASSUME TypeOK, Phases, Counts, [Next]_vars
  PROVE  TypeOK'
<1>q. TypeOK' <=> /\ DeviceTyped' /\ WireTyped' /\ PlaceTyped' /\ TaskTyped'
                  /\ DumpTyped' /\ TreeTyped' /\ GuardTyped' /\ KeptTyped'
  BY DEF TypeOK, DeviceTyped, WireTyped, PlaceTyped, TaskTyped, DumpTyped, TreeTyped, GuardTyped,
         KeptTyped
<1>t. /\ DeviceTyped /\ WireTyped /\ PlaceTyped /\ TaskTyped
      /\ DumpTyped /\ TreeTyped /\ GuardTyped /\ KeptTyped
  BY TypeParts
<1>w. /\ wire \in [Links -> Seq(Item \union {End})]
      /\ \A l \in Links : Len(wire[l]) \in Nat
      /\ batch \in [Links -> Nat] /\ \A l \in Links : batch[l] <= Len(wire[l])
      /\ "stream" \in Links /\ "control" \in Links
  BY WiresTyped DEF TypeOK, Links
<1>p. ASSUME NEW links, NEW i \in Item \union {End}, Pushes(links, i), UNCHANGED batch
      PROVE  WireTyped'
  <2>1. wire' \in [Links -> Seq(Item \union {End})]
    BY <1>p, <1>w, PushedLast
  <2>2. \A l \in Links : Len(wire'[l]) >= Len(wire[l]) /\ Len(wire'[l]) \in Nat
    BY <1>p, <2>1, PushedLast, LenProperties
  <2>3. \A l \in Links : batch[l] <= Len(wire'[l])
    BY <1>w, <2>2
  <2>. QED BY <1>p, <1>w, <2>1, <2>3 DEF WireTyped
<1>1. ASSUME NEW a \in Addresses, Changes(a) PROVE TypeOK'
  <2>1. dev' \in Tree /\ changes' \in Versions /\ \E links : Pushes(links, Live(a))
    BY <1>1, ChangeIsPushed
  <2>2. Live(a) \in Item
    BY <2>1, LivePush
  <2>3. ramped' \subseteq Addresses
    BY <1>1 DEF Changes, TypeOK
  <2>4. UNCHANGED <<asked, asOf, sent, at, batch, slow, seen, dump, tree, guard, link, snapshot,
                    runtime, opens, over>>
    BY <1>1 DEF Changes, task, core
  <2>5. WireTyped'
    BY <1>p, <2>1, <2>2, <2>4
  <2>6. DeviceTyped' /\ KeptTyped'
    BY <1>t, <2>1, <2>3, <2>4 DEF DeviceTyped, KeptTyped
  <2>. QED BY <1>q, <2>4, <2>5, <2>6, TypesFrame
<1>2. ASSUME NEW a \in Addresses, Repeats(a) PROVE TypeOK'
  <2>1. dev' \in Tree /\ Pushes({"stream"}, Live(a))
    BY <1>2 DEF Repeats, device, TypeOK
  <2>2. Live(a) \in Item
    BY <2>1, LivePush
  <2>3. UNCHANGED <<device, at, batch, slow, seen, dump, tree, guard, link, snapshot,
                    runtime, opens, over, ramped>>
    BY <1>2 DEF Repeats, task, core, kept
  <2>4. WireTyped'
    BY <1>p, <2>1, <2>2, <2>3
  <2>. QED BY <1>q, <2>3, <2>4, TypesFrame
<1>3. CASE StartsDump
  <2>1. Len(Plan) \in Nat
    BY FunnelAssumption, LenProperties
  <2>2. asked' = FALSE /\ asOf' = dev /\ sent' = 0 /\ UNCHANGED <<dev, changes>>
    BY <1>3 DEF StartsDump
  <2>a. asked' \in BOOLEAN
    BY <2>2
  <2>b. sent' \in 0 .. Len(Plan)
    BY <2>1, <2>2
  <2>3. DeviceTyped'
    BY <1>t, <2>2, <2>a, <2>b DEF DeviceTyped
  <2>4. UNCHANGED <<wire, at, batch, slow, seen, dump, tree, guard, link, snapshot,
                    runtime, opens, over, ramped>>
    BY <1>3 DEF StartsDump, task, core, kept
  <2>. QED BY <1>q, <2>3, <2>4, TypesFrame
<1>4. CASE WritesDump
  <2>1. /\ sent + 1 \in 1 .. Len(Plan) /\ sent' = sent + 1
        /\ \E i \in Item \union {End} : Pushes({"control"}, i)
    BY <1>4, DumpIsPushed
  <2>2. UNCHANGED <<dev, changes, asked, asOf, at, batch, slow, seen, dump, tree, guard, link,
                    snapshot, runtime, opens, over, ramped>>
    BY <1>4 DEF WritesDump, task, core, kept
  <2>3. WireTyped'
    BY <1>p, <2>1, <2>2
  <2>4. DeviceTyped'
    BY <1>t, <2>1, <2>2 DEF DeviceTyped
  <2>. QED BY <1>q, <2>2, <2>3, <2>4, TypesFrame
<1>5. CASE ReadsStream
  <2>1. PICK k \in 1 .. Len(wire["stream"]) : batch' = [batch EXCEPT !.stream = k]
    BY <1>5 DEF ReadsStream
  <2>2. /\ at' = [at EXCEPT !.stream = "fold"] /\ slow' = [slow EXCEPT !.stream = FALSE]
        /\ UNCHANGED <<device, wire, seen, dump, tree, guard, link, snapshot,
                       runtime, opens, over, ramped>>
    BY <1>5 DEF ReadsStream, core, kept
  <2>3. /\ batch' \in [Links -> Nat] /\ \A l \in Links : batch'[l] <= Len(wire[l])
        /\ batch'["control"] = batch["control"]
    <3>1. k \in Nat /\ k <= Len(wire["stream"])
      BY <1>w
    <3>2. \A l \in Links : batch'[l] = IF l = "stream" THEN k ELSE batch[l]
      BY <1>w, <2>1
    <3>3. batch' \in [Links -> Nat]
      BY <1>w, <2>1, <3>1
    <3>. QED BY <1>w, <3>1, <3>2, <3>3
  <2>4. WireTyped' /\ DumpTyped'
    BY <1>t, <1>w, <2>2, <2>3 DEF WireTyped, DumpTyped
  <2>5. PlaceTyped' /\ TaskTyped'
    BY <1>t, <2>2 DEF PlaceTyped, TaskTyped
  <2>. QED BY <1>q, <2>2, <2>4, <2>5, TypesFrame
<1>6. CASE ReadsControl
  <2>1. PICK k \in 1 .. Len(wire["control"]) :
          /\ batch' = [batch EXCEPT !.control = k]
          /\ dump' = IF dump.on
                     THEN [dump EXCEPT !.cut = Cut(k), !.ends = Splits(k) # {},
                                       !.runs = Counted(k)]
                     ELSE dump
    BY <1>6 DEF ReadsControl
  <2>2. /\ at["control"] = "wait"
        /\ at' = [at EXCEPT !.control = "fold"] /\ slow' = [slow EXCEPT !.control = FALSE]
        /\ UNCHANGED <<device, wire, seen, tree, guard, link, snapshot,
                       runtime, opens, over, ramped>>
    BY <1>6 DEF ReadsControl, core, kept
  <2>3. /\ batch' \in [Links -> Nat] /\ \A l \in Links : batch'[l] <= Len(wire[l])
        /\ batch'["control"] = k
    <3>1. k \in Nat /\ k <= Len(wire["control"])
      BY <1>w
    <3>2. \A l \in Links : batch'[l] = IF l = "control" THEN k ELSE batch[l]
      BY <1>w, <2>1
    <3>3. batch' \in [Links -> Nat]
      BY <1>w, <2>1, <3>1
    <3>. QED BY <1>w, <3>1, <3>2, <3>3
  <2>4. DumpTyped'
    <3>1. CASE dump.on
      <4>1. Cut(k) \in Nat /\ Cut(k) <= k /\ Counted(k) \in 0 .. DumpEndRuns
        BY <2>2, <3>1, SplitsWhereItCloses
      <4>2. (Splits(k) # {}) \in BOOLEAN
        OBVIOUS
      <4> DEFINE ends == Splits(k) # {}
                 cut  == Cut(k)
                 runs == Counted(k)
      <4>3. dump' = [dump EXCEPT !.cut = cut, !.ends = ends, !.runs = runs]
        BY <2>1, <3>1
      <4>4. cut \in Nat /\ cut <= k /\ runs \in 0 .. DumpEndRuns /\ ends \in BOOLEAN
        BY <4>1, <4>2
      <4> HIDE DEF ends, cut, runs
      <4>. QED BY <1>t, <2>3, <4>3, <4>4 DEF DumpTyped
    <3>2. CASE ~dump.on
      <4>1. dump' = dump /\ dump.cut = 0
        BY <2>1, <3>2 DEF Phases
      <4>. QED BY <1>t, <1>w, <2>3, <4>1 DEF DumpTyped
    <3>. QED BY <3>1, <3>2
  <2>5. WireTyped'
    BY <1>t, <1>w, <2>2, <2>3 DEF WireTyped
  <2>6. PlaceTyped' /\ TaskTyped'
    BY <1>t, <2>2 DEF PlaceTyped, TaskTyped
  <2>. QED BY <1>q, <2>2, <2>4, <2>5, <2>6, TypesFrame
<1>7. ASSUME NEW l \in Links, Folds(l) PROVE TypeOK'
  <2>r. Reads(l) /\ batch[l] \in Nat \ {0} /\ batch[l] <= Len(wire[l])
    BY <1>7, FoldsReads
  <2>1. /\ wire' \in [Links -> Seq(Item \union {End})] /\ Len(wire'[l]) = Len(wire[l]) - 1
        /\ \A m \in Links \ {l} : wire'[m] = wire[m]
        /\ Head(wire[l]) \in Item \union {End}
    BY <2>r, ReadFirst
  <2>2. /\ batch' = [batch EXCEPT ![l] = @ - 1]
        /\ dump' = IF l = "control" /\ dump.cut > 0 THEN [dump EXCEPT !.cut = @ - 1] ELSE dump
        /\ at' = [at EXCEPT ![l] = IF batch[l] = 1 THEN "finish" ELSE "fold"]
        /\ Apply(l, Head(wire[l]))
        /\ UNCHANGED <<device, seen, link, snapshot, runtime, opens, over, ramped>>
    BY <1>7 DEF Folds, kept
  <2>3. WireTyped'
    <3>1. batch' \in [Links -> Nat] /\ \A m \in Links : batch'[m] <= Len(wire'[m])
      BY <1>w, <2>r, <2>1, <2>2
    <3>. QED BY <2>1, <3>1 DEF WireTyped
  <2>4. DumpTyped'
    <3>1. l \in {"stream", "control"} /\ dump.cut \in Nat /\ dump.cut <= batch["control"]
      BY <1>t DEF DumpTyped, Links
    <3>2. CASE l = "control" /\ dump.cut > 0
      <4>1. dump' = [dump EXCEPT !.cut = dump.cut - 1] /\ batch'["control"] = batch["control"] - 1
        BY <1>w, <2>2, <3>2
      <4>2. /\ dump.cut - 1 \in Nat /\ dump.cut - 1 <= batch["control"] - 1
            /\ batch["control"] \in Nat
        BY <1>w, <3>1, <3>2
      <4>3. dump' \in [on : BOOLEAN, runs : 0 .. DumpEndRuns, cut : Nat, ends : BOOLEAN]
            /\ dump'.cut = dump.cut - 1
        BY <1>t, <4>1, <4>2 DEF DumpTyped
      <4>. QED BY <4>1, <4>2, <4>3 DEF DumpTyped
    <3>3. CASE l = "control" /\ dump.cut = 0
      BY <1>t, <1>w, <2>r, <2>2, <3>1, <3>3 DEF DumpTyped
    <3>4. CASE l = "stream"
      BY <1>t, <1>w, <2>2, <3>4 DEF DumpTyped
    <3>. QED BY <3>1, <3>2, <3>3, <3>4
  <2>5. TreeTyped' /\ TaskTyped' /\ GuardTyped'
    <3> DEFINE i == Head(wire[l])
    <3>1. i.addr \in Addresses => i.ver \in Versions
      BY <2>1, FunnelAssumption DEF Item, End
    <3>2. Apply(l, i) /\ UNCHANGED <<seen, link, snapshot, over>>
      BY <2>2
    <3> HIDE DEF i
    <3>3. TreeTyped'
      BY <1>t, <3>1, <3>2 DEF Apply, TreeTyped, Tree
    <3>4. TaskTyped'
      BY <1>t, <3>2 DEF Apply, TaskTyped
    <3>5. GuardTyped'
      BY <1>t, <3>2 DEF Apply, GuardTyped
    <3>. QED BY <3>3, <3>4, <3>5
  <2>6. PlaceTyped'
    BY <1>t, <2>2 DEF PlaceTyped
  <2>. QED BY <1>q, <2>2, <2>3, <2>4, <2>5, <2>6, TypesFrame
<1>8. ASSUME NEW l \in Links, Finishes(l) PROVE TypeOK'
  <2>1. UNCHANGED <<device, wire, batch, slow, seen, tree, link, snapshot, runtime, opens, ramped>>
    BY <1>8 DEF Finishes
  <2>2. PlaceTyped'
    BY <1>8, <1>t DEF Finishes, PlaceTyped
  <2>3. GuardTyped' /\ DumpTyped'
    <3>1. \/ UNCHANGED <<guard, dump, over>>
          \/ /\ guard' = [active |-> FALSE, touched |-> {}] /\ over' = "marker"
             /\ dump' = [dump EXCEPT !.on = FALSE, !.ends = FALSE]
      BY <1>8 DEF Finishes, ClearGuard
    <3>2. CASE UNCHANGED <<guard, dump, over>>
      BY <2>1, <3>2, TypesFrame
    <3>3. CASE /\ guard' = [active |-> FALSE, touched |-> {}] /\ over' = "marker"
               /\ dump' = [dump EXCEPT !.on = FALSE, !.ends = FALSE]
      BY <1>t, <2>1, <3>3 DEF GuardTyped, DumpTyped
    <3>. QED BY <3>1, <3>2, <3>3
  <2>. QED BY <1>q, <2>1, <2>2, <2>3, TypesFrame
<1>9. ASSUME NEW l \in Links, Clones(l) \/ Broadcasts(l) PROVE TypeOK'
  <2>1. UNCHANGED <<device, wire, batch, slow, dump, tree, guard, link, runtime, opens, over,
                    ramped>>
    BY <1>9 DEF Clones, Broadcasts, core, kept
  <2>2. PlaceTyped' /\ TaskTyped' /\ TreeTyped'
    BY <1>9, <1>t DEF Clones, Broadcasts, core, PlaceTyped, TaskTyped, TreeTyped
  <2>. QED BY <1>q, <2>1, <2>2, TypesFrame
<1>10. CASE Opens
  <2>1. /\ opens' \in 0 .. MaxOpens /\ asked' = TRUE /\ guard' = [active |-> TRUE, touched |-> {}]
        /\ dump' = [on |-> TRUE, runs |-> 0, cut |-> 0, ends |-> FALSE]
        /\ link' = "open" /\ over' = "running" /\ ramped' = {}
        /\ at' = [at EXCEPT !.control = "publish"]
        /\ UNCHANGED <<dev, changes, asOf, sent, wire, batch, slow, seen, tree, snapshot, runtime>>
    BY <1>10, FunnelAssumption DEF Opens, ClearGuard, TypeOK
  <2>2. DeviceTyped' /\ PlaceTyped' /\ GuardTyped' /\ KeptTyped'
    BY <1>t, <2>1 DEF DeviceTyped, PlaceTyped, GuardTyped, KeptTyped
  <2>3. DumpTyped'
    BY <1>w, <2>1, FunnelAssumption DEF DumpTyped
  <2>. QED BY <1>q, <2>1, <2>2, <2>3, TypesFrame
<1>11. CASE Settles
  <2>1. /\ guard' = [active |-> FALSE, touched |-> {}] /\ over' = "settle"
        /\ dump' = [dump EXCEPT !.on = FALSE]
        /\ UNCHANGED <<device, wire, at, batch, slow, seen, tree, link, snapshot, runtime, opens,
                       ramped>>
    BY <1>11 DEF Settles, ClearGuard, task
  <2>2. GuardTyped' /\ DumpTyped'
    BY <1>t, <2>1 DEF GuardTyped, DumpTyped
  <2>. QED BY <1>q, <2>1, <2>2, TypesFrame
<1>12. CASE Loses
  <2>1. Len(Plan) \in Nat
    BY FunnelAssumption, LenProperties
  <2>2. /\ link' = "down" /\ wire' = [wire EXCEPT !.control = <<>>]
        /\ asked' = FALSE /\ sent' = Len(Plan)
        /\ \/ UNCHANGED <<guard, dump, over>>
           \/ /\ guard' = [active |-> FALSE, touched |-> {}] /\ over' = "loss"
              /\ dump' = [dump EXCEPT !.on = FALSE]
        /\ at' = [at EXCEPT !.control = "publish"] /\ at["control"] = "wait"
        /\ UNCHANGED <<dev, changes, asOf, batch, slow, seen, tree, snapshot, runtime, opens,
                       ramped>>
    BY <1>12 DEF Loses, ClearGuard
  <2>3. WireTyped'
    <3>1. <<>> \in Seq(Item \union {End}) /\ Len(<<>>) = 0
      BY EmptySeq
    <3>2. batch["control"] = 0
      BY <1>w, <2>2 DEF Phases
    <3>3. wire' \in [Links -> Seq(Item \union {End})]
      BY <1>w, <2>2, <3>1
    <3>4. \A l \in Links : wire'[l] = IF l = "control" THEN <<>> ELSE wire[l]
      BY <1>w, <2>2
    <3>5. \A l \in Links : batch[l] <= Len(wire'[l])
      BY <1>w, <3>1, <3>2, <3>4
    <3>. QED BY <1>w, <2>2, <3>3, <3>5 DEF WireTyped
  <2>a. asked' \in BOOLEAN
    BY <2>2
  <2>b. sent' \in 0 .. Len(Plan)
    BY <2>1, <2>2
  <2>d. dev' = dev /\ asOf' = asOf /\ changes' = changes
    BY <2>2
  <2>c. DeviceTyped'
    BY <1>t, <2>a, <2>b, <2>d DEF DeviceTyped
  <2>4. DeviceTyped' /\ PlaceTyped'
    BY <1>t, <2>2, <2>c DEF PlaceTyped
  <2>5. GuardTyped' /\ DumpTyped'
    <3>1. CASE UNCHANGED <<guard, dump, over>>
      BY <1>t, <2>2, <3>1 DEF GuardTyped, DumpTyped
    <3>2. CASE /\ guard' = [active |-> FALSE, touched |-> {}] /\ over' = "loss"
               /\ dump' = [dump EXCEPT !.on = FALSE]
      BY <1>t, <2>2, <3>2 DEF GuardTyped, DumpTyped
    <3>. QED BY <2>2, <3>1, <3>2
  <2>. QED BY <1>q, <2>2, <2>3, <2>4, <2>5, TypesFrame
<1>13. CASE UNCHANGED vars
  <2>1. UNCHANGED <<device, wire, at, batch, slow, seen, dump, tree, guard, link, snapshot,
                    runtime, opens, over, ramped>>
    BY <1>13 DEF vars, task, core, kept
  <2>. QED BY <1>q, <2>1, TypesFrame
<1>. QED BY <1>1, <1>2, <1>3, <1>4, <1>5, <1>6, <1>7, <1>8, <1>9, <1>10, <1>11, <1>12, <1>13
         DEF Next, Device

LEMMA PhasesKept ==
  ASSUME TypeOK, Phases, [Next]_vars
  PROVE  Phases'
<1>w. /\ "stream" \in Links /\ "control" \in Links /\ Links = {"stream", "control"}
      /\ DOMAIN at = Links /\ DOMAIN wire = Links /\ batch \in [Links -> Nat]
      /\ asked \in BOOLEAN /\ link \in {"down", "open"}
      /\ dump \in [on : BOOLEAN, runs : 0 .. DumpEndRuns, cut : Nat, ends : BOOLEAN]
      /\ guard \in [active : BOOLEAN, touched : SUBSET Addresses]
      /\ dump.cut <= batch["control"]
  BY DEF TypeOK, Links
<1>1. ASSUME NEW a \in Addresses, Changes(a) PROVE Phases'
  <2>1. UNCHANGED <<dump, over, guard, link, asked, sent, at, batch>>
    BY <1>1 DEF Changes, task, core
  <2>2. \A b \in Addresses : dev'[b] <= changes'
    BY <1>1, ChangeIsPushed
  <2>3. link = "down" => wire'["control"] = wire["control"]
    BY <1>1, <1>w, ChangeIsPushed, LivePush, PushedLast
  <2>. QED BY <2>1, <2>2, <2>3 DEF Phases, Writing
<1>2. ASSUME NEW a \in Addresses, Repeats(a) PROVE Phases'
  <2>1. UNCHANGED <<dump, over, guard, link, dev, changes, asked, sent, at, batch>>
    BY <1>2 DEF Repeats, task, core, device, kept
  <2>2. wire'["control"] = wire["control"]
    BY <1>2, <1>w DEF Repeats, Pushes
  <2>. QED BY <2>1, <2>2 DEF Phases, Writing
<1>3. CASE StartsDump
  <2>1. UNCHANGED <<dump, over, guard, link, dev, changes, wire, at, batch>> /\ link # "down"
    BY <1>3 DEF StartsDump, task, core, kept, Phases
  <2>. QED BY <2>1 DEF Phases
<1>4. CASE WritesDump
  <2>1. UNCHANGED <<dump, over, guard, link, dev, changes, at, batch>> /\ link # "down"
    BY <1>4 DEF WritesDump, task, core, kept, Phases
  <2>. QED BY <2>1 DEF Phases
<1>5. CASE ReadsStream
  <2>1. /\ UNCHANGED <<dump, over, guard, link, dev, changes, asked, sent, wire>>
        /\ at' = [at EXCEPT !.stream = "fold"]
        /\ \E k \in 1 .. Len(wire["stream"]) : batch' = [batch EXCEPT !.stream = k]
    BY <1>5 DEF ReadsStream, core, kept, device
  <2>2. (\A l \in Links : at[l] = "fold" <=> batch[l] # 0)'
    BY <1>w, <2>1 DEF Phases
  <2>3. batch'["control"] = batch["control"] /\ at'["control"] = at["control"]
    BY <1>w, <2>1
  <2>. QED BY <2>1, <2>2, <2>3 DEF Phases, Writing
<1>6. CASE ReadsControl
  <2>1. /\ UNCHANGED <<over, guard, link, dev, changes, asked, sent, wire>>
        /\ at' = [at EXCEPT !.control = "fold"] /\ link = "open" /\ at["control"] = "wait"
        /\ \E k \in 1 .. Len(wire["control"]) : /\ batch' = [batch EXCEPT !.control = k]
             /\ dump' = IF dump.on
                  THEN [dump EXCEPT !.cut = Cut(k), !.ends = Splits(k) # {},
                                    !.runs = Counted(k)]
                  ELSE dump
    BY <1>6 DEF ReadsControl, core, kept, device
  <2>2. (\A l \in Links : at[l] = "fold" <=> batch[l] # 0)'
    BY <1>w, <2>1 DEF Phases
  <2>3. at'["control"] = "fold" /\ ~dump.ends
    BY <1>w, <2>1 DEF Phases
  <2>4. CASE dump.on
    <3>1. PICK k \in 1 .. Len(wire["control"]) : /\ batch' = [batch EXCEPT !.control = k]
             /\ dump' = [dump EXCEPT !.cut = Cut(k), !.ends = Splits(k) # {},
                                    !.runs = Counted(k)]
      BY <2>1, <2>4
    <3>2. dump'.on = dump.on /\ dump'.cut = Cut(k) /\ dump'.ends = (Splits(k) # {})
      BY <1>w, <3>1
    <3>3. ~dump'.ends => dump'.cut = batch'["control"]
      BY <1>w, <3>1, <3>2 DEF Cut
    <3>. QED BY <2>1, <2>2, <2>3, <2>4, <3>2, <3>3 DEF Phases, Writing
  <2>5. CASE ~dump.on
    <3>1. dump' = dump
      BY <2>1, <2>5
    <3>. QED BY <2>1, <2>2, <2>3, <2>5, <3>1 DEF Phases, Writing
  <2>. QED BY <2>4, <2>5
<1>7. ASSUME NEW l \in Links, Folds(l) PROVE Phases'
  <2>r. Reads(l) /\ batch[l] \in Nat \ {0}
    BY <1>7, FoldsReads
  <2>1. /\ UNCHANGED <<over, link, dev, changes, asked, sent>>
        /\ batch' = [batch EXCEPT ![l] = @ - 1]
        /\ dump' = IF l = "control" /\ dump.cut > 0 THEN [dump EXCEPT !.cut = @ - 1] ELSE dump
        /\ at' = [at EXCEPT ![l] = IF batch[l] = 1 THEN "finish" ELSE "fold"]
        /\ at[l] = "fold" /\ Apply(l, Head(wire[l]))
    BY <1>7 DEF Folds, kept, device
  <2>2. guard'.active = guard.active /\ (~guard.active => guard'.touched = guard.touched)
    BY <1>w, <2>1 DEF Apply, Marks
  <2>3. (\A m \in Links : at[m] = "fold" <=> batch[m] # 0)'
    <3>1. \A m \in Links \ {l} : at'[m] = at[m] /\ batch'[m] = batch[m]
      BY <1>w, <2>1
    <3>2. at'[l] = "fold" <=> batch'[l] # 0
      BY <1>w, <2>r, <2>1
    <3>. QED BY <3>1, <3>2 DEF Phases
  <2>4. dump'.on = dump.on /\ dump'.ends = dump.ends
    BY <1>w, <2>1
  <2>5. CASE l = "stream"
    <3>1. wire'["control"] = wire["control"] /\ batch'["control"] = batch["control"]
          /\ dump' = dump /\ at'["control"] = at["control"]
      BY <1>w, <2>r, <2>1, <2>5 DEF Reads
    <3>. QED BY <2>1, <2>2, <2>3, <3>1 DEF Phases, Writing
  <2>6. CASE l = "control"
    <3>1. link # "down" /\ at'["control"] \in {"fold", "finish"}
      BY <1>w, <2>r, <2>1, <2>6 DEF Reads, Phases
    <3>2. batch'["control"] = batch["control"] - 1
      BY <1>w, <2>1, <2>6
    <3>3. dump'.cut = IF dump.cut > 0 THEN dump.cut - 1 ELSE dump.cut
      BY <1>w, <2>1, <2>6
    <3>4. dump.on /\ ~dump.ends => dump'.cut = batch'["control"]
      BY <1>w, <2>r, <2>6, <3>2, <3>3 DEF Phases
    <3>5. ~dump.on => dump'.cut = 0
      BY <3>3 DEF Phases
    <3>. QED BY <2>1, <2>2, <2>3, <2>4, <3>1, <3>4, <3>5 DEF Phases
  <2>. QED BY <1>w, <2>5, <2>6
<1>8. ASSUME NEW l \in Links, Finishes(l) PROVE Phases'
  <2>1. /\ UNCHANGED <<link, dev, changes, asked, sent, wire, batch>>
        /\ at[l] = "finish" /\ at' = [at EXCEPT ![l] = IF slow[l] THEN "publish" ELSE "wait"]
    BY <1>8 DEF Finishes, device
  <2>2. (\A m \in Links : at[m] = "fold" <=> batch[m] # 0)'
    BY <1>w, <2>1 DEF Phases
  <2>3. CASE l = "control" /\ dump.ends
    <3>1. /\ guard' = [active |-> FALSE, touched |-> {}] /\ over' = "marker"
          /\ dump' = [dump EXCEPT !.on = FALSE, !.ends = FALSE]
      BY <1>8, <2>3 DEF Finishes, ClearGuard
    <3>2. batch["control"] = 0 /\ dump.cut = 0
      BY <1>w, <2>1, <2>3 DEF Phases
    <3>3. ~dump'.on /\ ~dump'.ends /\ dump'.cut = 0 /\ ~guard'.active /\ guard'.touched = {}
      BY <1>w, <3>1, <3>2
    <3>4. dump'.on = (over' = "running") /\ guard'.active = (over' = "running")
      BY <1>w, <3>1
    <3>. QED BY <2>1, <2>2, <3>1, <3>3, <3>4 DEF Phases, Writing
  <2>4. CASE ~(l = "control" /\ dump.ends)
    <3>1. UNCHANGED <<guard, dump, over>>
      BY <1>8, <2>4 DEF Finishes
    <3>2. dump.ends => at'["control"] = at["control"]
      BY <1>w, <2>1, <2>4
    <3>. QED BY <2>1, <2>2, <3>1, <3>2 DEF Phases, Writing
  <2>. QED BY <2>3, <2>4
<1>9. ASSUME NEW l \in Links, Clones(l) \/ Broadcasts(l) PROVE Phases'
  <2>1. /\ UNCHANGED <<dump, over, guard, link, dev, changes, asked, sent, wire, batch>>
        /\ at[l] \in {"publish", "send"} /\ \E to \in {"send", "wait"} : at' = [at EXCEPT ![l] = to]
    BY <1>9 DEF Clones, Broadcasts, core, kept, device
  <2>2. (\A m \in Links : at[m] = "fold" <=> batch[m] # 0)'
    BY <1>w, <2>1 DEF Phases
  <2>3. dump.ends => at'["control"] = at["control"]
    BY <1>w, <2>1 DEF Phases
  <2>. QED BY <2>1, <2>2, <2>3 DEF Phases, Writing
<1>10. CASE Opens
  <2>1. /\ guard' = [active |-> TRUE, touched |-> {}] /\ at["control"] = "wait"
        /\ dump' = [on |-> TRUE, runs |-> 0, cut |-> 0, ends |-> FALSE]
        /\ link' = "open" /\ over' = "running"
        /\ at' = [at EXCEPT !.control = "publish"]
        /\ UNCHANGED <<dev, changes, batch>>
    BY <1>10 DEF Opens, ClearGuard
  <2>2. (\A m \in Links : at[m] = "fold" <=> batch[m] # 0)'
    BY <1>w, <2>1 DEF Phases
  <2>3. batch["control"] = 0
    BY <1>w, <2>1 DEF Phases
  <2>4. /\ dump'.on /\ ~dump'.ends /\ dump'.cut = 0 /\ guard'.active
        /\ dump'.on = (over' = "running") /\ guard'.active = (over' = "running")
    BY <2>1
  <2>. QED BY <2>1, <2>2, <2>3, <2>4 DEF Phases
<1>11. CASE Settles
  <2>1. /\ guard' = [active |-> FALSE, touched |-> {}] /\ over' = "settle"
        /\ dump' = [dump EXCEPT !.on = FALSE] /\ at["control"] = "wait"
        /\ UNCHANGED <<link, dev, changes, asked, sent, wire, at, batch>>
    BY <1>11 DEF Settles, ClearGuard, task, device
  <2>2. batch["control"] = 0 /\ dump.cut = 0 /\ ~dump.ends
    BY <1>w, <2>1 DEF Phases
  <2>3. /\ ~dump'.on /\ ~dump'.ends /\ dump'.cut = 0 /\ ~guard'.active /\ guard'.touched = {}
        /\ dump'.on = (over' = "running") /\ guard'.active = (over' = "running")
    BY <1>w, <2>1, <2>2
  <2>. QED BY <2>1, <2>3 DEF Phases, Writing
<1>12. CASE Loses
  <2>1. /\ link' = "down" /\ wire' = [wire EXCEPT !.control = <<>>]
        /\ asked' = FALSE /\ sent' = Len(Plan)
        /\ at' = [at EXCEPT !.control = "publish"] /\ at["control"] = "wait"
        /\ UNCHANGED <<dev, changes, batch>>
    BY <1>12 DEF Loses
  <2>2. (\A m \in Links : at[m] = "fold" <=> batch[m] # 0)'
    BY <1>w, <2>1 DEF Phases
  <2>3. wire'["control"] = <<>> /\ ~asked' /\ ~Writing'
    <3>1. Len(Plan) \in Nat
      BY FunnelAssumption, LenProperties
    <3>. QED BY <1>w, <2>1, <3>1 DEF Writing
  <2>4. batch["control"] = 0 /\ dump.cut = 0 /\ ~dump.ends
    BY <1>w, <2>1 DEF Phases
  <2>5. /\ ~dump'.on /\ ~dump'.ends /\ dump'.cut = 0 /\ ~guard'.active /\ guard'.touched = {}
        /\ over' # "running"
    <3>1. CASE dump.on
      <4>1. /\ guard' = [active |-> FALSE, touched |-> {}] /\ over' = "loss"
            /\ dump' = [dump EXCEPT !.on = FALSE]
        BY <1>12, <3>1 DEF Loses, ClearGuard
      <4>. QED BY <1>w, <2>4, <4>1
    <3>2. CASE ~dump.on
      <4>1. UNCHANGED <<guard, dump, over>>
        BY <1>12, <3>2 DEF Loses
      <4>. QED BY <2>4, <3>2, <4>1 DEF Phases
    <3>. QED BY <3>1, <3>2
  <2>6. dump'.on = (over' = "running") /\ guard'.active = (over' = "running")
    <3>1. CASE dump.on
      <4>1. /\ guard' = [active |-> FALSE, touched |-> {}] /\ over' = "loss"
            /\ dump' = [dump EXCEPT !.on = FALSE]
        BY <1>12, <3>1 DEF Loses, ClearGuard
      <4>. QED BY <1>w, <4>1
    <3>2. CASE ~dump.on
      BY <1>12, <3>2 DEF Loses, Phases
    <3>. QED BY <3>1, <3>2
  <2>. QED BY <2>1, <2>2, <2>3, <2>5, <2>6 DEF Phases
<1>13. CASE UNCHANGED vars
  BY <1>13 DEF vars, device, task, core, kept, Phases, Writing
<1>. QED BY <1>1, <1>2, <1>3, <1>4, <1>5, <1>6, <1>7, <1>8, <1>9, <1>10, <1>11, <1>12, <1>13
         DEF Next, Device

-----------------------------------------------------------------------------
(***************************************************************************)
(* The count of the closing runs.                                           *)
(***************************************************************************)

LEMMA CountsFrame ==
  ASSUME Counts, UNCHANGED <<asked, sent, dump, over>>,
         wire'["control"] = wire["control"], batch'["control"] = batch["control"]
  PROVE  Counts'
BY DEF Counts, CompletedMeansAll, EndsAhead, EndsWritten, Writing

\* The items of the control wire, and what its end marks.
LEMMA ControlWire ==
  ASSUME TypeOK
  PROVE  /\ Len(wire["control"]) \in Nat /\ DOMAIN wire["control"] = 1 .. Len(wire["control"])
         /\ batch["control"] \in 0 .. Len(wire["control"]) /\ "control" \in Links
         /\ End.copy /\ dump.cut \in Nat /\ sent \in 0 .. Len(Plan) /\ Len(Plan) \in Nat
         /\ dump.runs \in 0 .. DumpEndRuns /\ DumpEndRuns \in Nat \ {0}
<1>1. "control" \in Links
  BY DEF Links
<1>2. wire["control"] \in Seq(Item \union {End})
  BY <1>1, WiresTyped
<1>3. batch["control"] \in Nat /\ batch["control"] <= Len(wire["control"])
  BY <1>1 DEF TypeOK
<1>. QED BY <1>1, <1>2, <1>3, LenProperties, FunnelAssumption DEF End, TypeOK

\* A push that is no copy closes nothing and adds nothing to the dump.
LEMMA CountsPush ==
  ASSUME TypeOK, Counts, NEW links, NEW i \in Item \union {End}, Pushes(links, i), ~i.copy,
         UNCHANGED <<asked, sent, dump, batch, over>>
  PROVE  Counts'
<1> DEFINE c == wire["control"]
           d == wire'["control"]
<1>1. CASE "control" \notin links
  BY <1>1, ControlWire, PushedLast, CountsFrame
<1>2. CASE "control" \in links
  <2>1. /\ Len(d) = Len(c) + 1 /\ d[Len(c) + 1] = i /\ \A j \in 1 .. Len(c) : d[j] = c[j]
        /\ d \in Seq(Item \union {End})
    BY <1>2, ControlWire, PushedLast
  <2>2. /\ Len(c) \in Nat /\ batch["control"] \in 0 .. Len(c) /\ End.copy /\ dump.cut \in Nat
        /\ DOMAIN c = 1 .. Len(c) /\ DOMAIN d = 1 .. Len(c) + 1
    BY <2>1, ControlWire, LenProperties
  <2>3. i # End
    BY <2>2
  <2>4. EndsAhead' = EndsAhead
    <3>1. {j \in batch["control"] + 1 .. Len(d) : d[j] = End} =
            {j \in batch["control"] + 1 .. Len(c) : c[j] = End}
      BY <2>1, <2>2, <2>3
    <3>. QED BY <3>1 DEF EndsAhead
  <2>5. EndsWritten' = EndsWritten /\ Writing' = Writing
    BY DEF EndsWritten, Writing
  <2>6. \A j \in 1 .. Len(d) : d[j].copy => j \in 1 .. Len(c) /\ c[j].copy
    BY <2>1, <2>2
  <2>7. (~asked /\ ~Writing =>
          \A j \in 1 .. Len(c) : c[j].copy => \E m \in 1 .. Len(c) : m >= j /\ c[m] = End)'
    <3>1. ASSUME ~asked, ~Writing, NEW j \in 1 .. Len(d), d[j].copy
          PROVE  \E m \in 1 .. Len(d) : m >= j /\ d[m] = End
      <4>1. PICK m \in 1 .. Len(c) : m >= j /\ c[m] = End
        BY <2>6, <3>1 DEF Counts
      <4>. QED BY <2>1, <2>2, <4>1
    <3>. QED BY <2>5, <3>1
  <2>8. CompletedMeansAll'
    BY <2>2, <2>5, <2>6 DEF Counts, CompletedMeansAll
  <2>9. (dump.ends => /\ ~asked /\ ~Writing
                      /\ \A j \in 1 .. Len(c) : j > dump.cut => ~c[j].copy)'
    BY <2>5, <2>6 DEF Counts
  <2>. QED BY <2>4, <2>5, <2>7, <2>8, <2>9 DEF Counts
<1>. QED BY <1>1, <1>2

\* What the device writes of the dump is counted on both sides.
LEMMA CountsWrite ==
  ASSUME TypeOK, Counts, WritesDump
  PROVE  Counts'
<1> DEFINE c == wire["control"]
           d == wire'["control"]
           b == batch["control"]
<1>1. PICK i \in Item \union {End} :
        Pushes({"control"}, i) /\ i.copy /\ (Plan[sent + 1] = EndRun <=> i = End)
  BY DumpIsPushed
<1>2. /\ ~asked /\ sent < Len(Plan) /\ sent' = sent + 1
      /\ UNCHANGED <<asked, dump, batch, over>>
  BY DumpIsPushed DEF WritesDump, task, core, kept
<1>3. /\ Len(d) = Len(c) + 1 /\ d[Len(c) + 1] = i /\ \A j \in 1 .. Len(c) : d[j] = c[j]
  BY <1>1, ControlWire, PushedLast
<1>4. /\ Len(c) \in Nat /\ b \in 0 .. Len(c) /\ sent \in 0 .. Len(Plan) /\ Len(Plan) \in Nat
      /\ dump.runs \in Nat
  BY ControlWire
<1>5. Writing /\ ~dump.ends /\ over # "marker"
  BY <1>2 DEF Writing, Counts, CompletedMeansAll
<1>6. ASSUME ~Writing' PROVE i = End
  <2>1. sent + 1 = Len(Plan)
    BY <1>2, <1>4, <1>6 DEF Writing
  <2>. QED BY <1>1, <2>1, PlanAssumption
<1>7. (~asked /\ ~Writing =>
        \A j \in 1 .. Len(c) : c[j].copy => \E m \in 1 .. Len(c) : m >= j /\ c[m] = End)'
  BY <1>3, <1>4, <1>6
<1>8. (dump.on => dump.runs < DumpEndRuns /\ dump.runs + EndsAhead = EndsWritten)'
  <2>1. ASSUME dump.on PROVE dump.runs < DumpEndRuns /\ dump.runs + EndsAhead' = EndsWritten'
    <3>1. dump.runs < DumpEndRuns /\ dump.runs + EndsAhead = EndsWritten
      BY <1>5, <2>1 DEF Counts
    <3>2. EndsWritten' = EndsWritten + IF i = End THEN 1 ELSE 0
      <4>1. EndsWritten = Cardinality(RunsOfPlan(sent))
        BY <1>2 DEF EndsWritten, RunsOfPlan
      <4>2. EndsWritten' = Cardinality(RunsOfPlan(sent + 1))
        BY <1>2 DEF EndsWritten, RunsOfPlan
      <4>3. Cardinality(RunsOfPlan(sent + 1)) =
              Cardinality(RunsOfPlan(sent)) + IF Plan[sent + 1] = EndRun THEN 1 ELSE 0
        BY <1>2, <1>4, AllRunsWithAll
      <4>. QED BY <1>1, <4>1, <4>2, <4>3
    <3>3. EndsAhead' = EndsAhead + IF i = End THEN 1 ELSE 0
      <4> DEFINE E == {j \in b + 1 .. Len(c) : c[j] = End}
      <4>1. EndsAhead = Cardinality(E) /\ IsFiniteSet(E) /\ Cardinality(E) \in Nat
        <5>i. b + 1 \in Int /\ Len(c) \in Int
          BY <1>4
        <5>1. IsFiniteSet(b + 1 .. Len(c))
          BY <5>i, FS_Interval
        <5>2. IsFiniteSet(E)
          BY <5>1, FS_Subset
        <5>. QED BY <5>2, FS_CardinalityType DEF EndsAhead
      <4>2. {j \in b + 1 .. Len(d) : d[j] = End} =
              IF i = End THEN E \union {Len(c) + 1} ELSE E
        BY <1>3, <1>4
      <4>3. EndsAhead' = Cardinality({j \in b + 1 .. Len(d) : d[j] = End})
        BY <1>2 DEF EndsAhead
      <4>4. Len(c) + 1 \notin E
        BY <1>4
      <4> HIDE DEF E
      <4>5. Cardinality(E \union {Len(c) + 1}) = Cardinality(E) + 1
        BY <4>1, <4>4, FS_AddElement
      <4>6. CASE i = End
        <5>1. {j \in b + 1 .. Len(d) : d[j] = End} = E \union {Len(c) + 1}
          BY <4>2, <4>6
        <5>2. EndsAhead' = Cardinality(E) + 1
          BY <4>3, <4>5, <5>1
        <5>. QED BY <4>1, <4>6, <5>2
      <4>7. CASE i # End
        <5>1. {j \in b + 1 .. Len(d) : d[j] = End} = E
          BY <4>2, <4>7
        <5>2. EndsAhead' = Cardinality(E)
          BY <4>3, <5>1
        <5>. QED BY <4>1, <4>7, <5>2
      <4>. QED BY <4>6, <4>7
    <3>4. EndsAhead \in Nat /\ EndsWritten \in Nat
      <4>1. EndsWritten = Cardinality(RunsOfPlan(sent))
        BY <1>2 DEF EndsWritten, RunsOfPlan
      <4>2. EndsWritten \in Nat
        BY <1>4, <4>1, AllRunsWithAll
      <4>3. EndsAhead = Cardinality(RunsAfter(b))
        BY DEF EndsAhead, RunsAfter
      <4>4. b \in Nat
        BY <1>4
      <4>. QED BY <4>2, <4>3, <4>4, RunsFinite
    <3>. QED BY <1>4, <3>1, <3>2, <3>3, <3>4
  <2>. QED BY <1>2, <2>1
<1>9. CompletedMeansAll' /\ ~dump'.ends
  BY <1>2, <1>5 DEF CompletedMeansAll
<1>. QED BY <1>7, <1>8, <1>9 DEF Counts

\* An item of the control wire is folded: nothing is counted again.
LEMMA CountsFold ==
  ASSUME TypeOK, Phases, Counts, Folds("control")
  PROVE  Counts'
<1> DEFINE c == wire["control"]
           d == wire'["control"]
           b == batch["control"]
<1>1. Reads("control") /\ b \in Nat \ {0} /\ b <= Len(c)
  BY FoldsReads, ControlWire
<1>2. /\ Len(c) \in Nat \ {0} /\ Len(d) = Len(c) - 1
      /\ \A j \in 1 .. Len(c) - 1 : d[j] = c[j + 1]
      /\ d \in Seq(Item \union {End})
  BY <1>1, ControlWire, ReadFirst
<1>3. /\ batch' = [batch EXCEPT !["control"] = @ - 1]
      /\ dump' = IF dump.cut > 0 THEN [dump EXCEPT !.cut = @ - 1] ELSE dump
      /\ UNCHANGED <<asked, sent, over>>
  BY DEF Folds, device, kept
<1>4. /\ batch'["control"] = b - 1
      /\ dump'.on = dump.on /\ dump'.ends = dump.ends /\ dump'.runs = dump.runs
      /\ dump'.cut = IF dump.cut > 0 THEN dump.cut - 1 ELSE dump.cut
  BY <1>3 DEF TypeOK, Links
<1>5. EndsAhead' = EndsAhead
  <2> DEFINE T == {j \in b + 1 .. Len(c) : c[j] = End}
             S == {j \in (b - 1) + 1 .. Len(c) - 1 : d[j] = End}
  <2>1. S \in SUBSET Int /\ T \in SUBSET Int /\ IsFiniteSet(S)
    <3>i. (b - 1) + 1 \in Int /\ Len(c) - 1 \in Int
      BY <1>1, <1>2
    <3>1. IsFiniteSet((b - 1) + 1 .. Len(c) - 1)
      BY <3>i, FS_Interval
    <3>2. S \in SUBSET ((b - 1) + 1 .. Len(c) - 1)
      OBVIOUS
    <3>3. IsFiniteSet(S)
      BY <3>1, <3>2, FS_Subset
    <3>4. S \in SUBSET Int /\ T \in SUBSET Int
      BY <1>1, <1>2
    <3>. QED BY <3>3, <3>4
  <2>o. PICK k \in Int : k = 1
    OBVIOUS
  <2>2. \A j \in S : j + k \in T
    BY <1>1, <1>2, <2>o
  <2>3. \A j \in T : j - k \in S
    BY <1>1, <1>2, <2>o
  <2>4. EndsAhead = Cardinality(T) /\ EndsAhead' = Cardinality(S)
    <3>1. {j \in batch'["control"] + 1 .. Len(d) : d[j] = End} = S
      BY <1>2, <1>4
    <3>2. EndsAhead' = Cardinality({j \in batch'["control"] + 1 .. Len(d) : d[j] = End})
      BY DEF EndsAhead
    <3>3. EndsAhead' = Cardinality(S)
      BY <3>1, <3>2
    <3> HIDE DEF S
    <3>. QED BY <3>3 DEF EndsAhead
  <2> HIDE DEF S, T
  <2>5. Cardinality(T) = Cardinality(S)
    BY <2>1, <2>2, <2>3, ShiftCounts
  <2>. QED BY <2>4, <2>5
<1>6. EndsWritten' = EndsWritten /\ Writing' = Writing
  BY <1>3 DEF EndsWritten, Writing
<1>7. (~asked /\ ~Writing =>
        \A j \in 1 .. Len(c) : c[j].copy => \E m \in 1 .. Len(c) : m >= j /\ c[m] = End)'
  <2>1. ASSUME ~asked, ~Writing, NEW j \in 1 .. Len(d), d[j].copy
        PROVE  \E m \in 1 .. Len(d) : m >= j /\ d[m] = End
    <3>1. j + 1 \in 1 .. Len(c) /\ d[j] = c[j + 1]
      BY <1>2, <2>1
    <3>c. c[j + 1].copy
      BY <2>1, <3>1
    <3>2. PICK m \in 1 .. Len(c) : m >= j + 1 /\ c[m] = End
      BY <2>1, <3>1, <3>c DEF Counts
    <3>3. m - 1 \in 1 .. Len(d) /\ m - 1 >= j /\ (m - 1) + 1 = m
      BY <1>2, <2>1, <3>2
    <3>4. d[m - 1] = c[m]
      BY <1>2, <3>3
    <3>. QED BY <3>2, <3>3, <3>4
  <2>. QED BY <1>3, <1>6, <2>1
<1>8. CompletedMeansAll'
  <2>1. DOMAIN d = 1 .. Len(d) /\ DOMAIN c = 1 .. Len(c)
    BY <1>2, ControlWire, LenProperties
  <2>2. ASSUME over = "marker" PROVE ~asked /\ ~Writing /\ \A j \in 1 .. Len(c) : ~c[j].copy
    BY <2>1, <2>2 DEF Counts, CompletedMeansAll
  <2>3. ASSUME over = "marker" PROVE \A j \in 1 .. Len(d) : ~d[j].copy
    BY <1>2, <2>2, <2>3
  <2>. QED BY <1>3, <1>6, <2>1, <2>2, <2>3 DEF CompletedMeansAll
<1>9. ASSUME dump.ends PROVE \A j \in 1 .. Len(d) : j > dump'.cut => ~d[j].copy
  <2>1. \A j \in 1 .. Len(c) : j > dump.cut => ~c[j].copy
    BY <1>9 DEF Counts
  <2>2. dump.cut \in Nat
    BY ControlWire
  <2>. QED BY <1>2, <1>4, <2>1, <2>2
<1>. QED BY <1>3, <1>4, <1>5, <1>6, <1>7, <1>8, <1>9 DEF Counts

LEMMA CountsKept ==
  ASSUME TypeOK, Phases, Counts, [Next]_vars
  PROVE  Counts'
<1> DEFINE c == wire["control"]
<1>1. ASSUME NEW a \in Addresses, Changes(a) PROVE Counts'
  <2>1. UNCHANGED <<asked, sent, dump, batch, over>>
    BY <1>1 DEF Changes, task, core
  <2>2. dev' \in Tree /\ \E links : Pushes(links, Live(a))
    BY <1>1, ChangeIsPushed
  <2>. QED BY <2>1, <2>2, LivePush, CountsPush
<1>2. ASSUME NEW a \in Addresses, Repeats(a) PROVE Counts'
  <2>1. UNCHANGED <<asked, sent, dump, batch, over>> /\ Pushes({"stream"}, Live(a))
    BY <1>2 DEF Repeats, device, task, core, kept
  <2>2. dev' \in Tree
    BY <1>2 DEF Repeats, device, TypeOK
  <2>. QED BY <2>1, <2>2, LivePush, CountsPush
<1>3. CASE StartsDump
  <2>1. /\ asked /\ asked' = FALSE /\ sent' = 0 /\ UNCHANGED <<wire, dump, batch, over>>
    BY <1>3 DEF StartsDump, task, core, kept
  <2>2. Writing' /\ ~dump.ends /\ over # "marker"
    <3>1. Len(Plan) \in Nat \ {0}
      BY AllRunsWithAll, ControlWire
    <3>. QED BY <2>1, <3>1 DEF Writing, Counts, CompletedMeansAll
  <2>3. EndsWritten = 0 /\ EndsWritten' = 0 /\ EndsAhead' = EndsAhead
    <3>1. EndsWritten' = Cardinality(RunsOfPlan(0))
      BY <2>1 DEF EndsWritten, RunsOfPlan
    <3>2. Cardinality(RunsOfPlan(0)) = 0
      BY AllRunsWithAll, ControlWire
    <3>. QED BY <2>1, <3>1, <3>2 DEF EndsWritten, EndsAhead
  <2>. QED BY <2>1, <2>2, <2>3 DEF Counts, CompletedMeansAll
<1>4. CASE WritesDump
  BY <1>4, CountsWrite
<1>5. CASE ReadsStream
  <2>1. UNCHANGED <<asked, sent, dump, over, wire>> /\ batch'["control"] = batch["control"]
    BY <1>5, ControlWire DEF ReadsStream, core, kept, device, TypeOK
  <2>. QED BY <2>1, CountsFrame
<1>6. CASE ReadsControl
  <2>1. PICK k \in 1 .. Len(c) :
          /\ batch' = [batch EXCEPT !.control = k]
          /\ dump' = IF dump.on
                     THEN [dump EXCEPT !.cut = Cut(k), !.ends = Splits(k) # {},
                                       !.runs = Counted(k)]
                     ELSE dump
    BY <1>6 DEF ReadsControl
  <2>2. UNCHANGED <<asked, sent, over, wire>> /\ at["control"] = "wait"
    BY <1>6 DEF ReadsControl, core, kept, device
  <2>3. batch'["control"] = k /\ ~dump.ends
    BY <2>1, <2>2, ControlWire DEF TypeOK, Phases
  <2>4. CASE dump.on
    <3>1. /\ dump'.on /\ dump'.cut = Cut(k) /\ dump'.ends = (Splits(k) # {})
          /\ dump'.runs = Counted(k)
      BY <2>1, <2>4 DEF TypeOK
    <3>2. /\ Splits(k) = {} =>
               /\ Counted(k) < DumpEndRuns
               /\ Counted(k) + Cardinality(RunsAfter(k)) = EndsWritten
          /\ Splits(k) # {} =>
               /\ ~asked /\ ~Writing /\ \A j \in 1 .. Len(c) : j > Cut(k) => ~c[j].copy
      BY <2>2, <2>4, SplitsWhereItCloses
    <3>3. EndsAhead' = Cardinality(RunsAfter(k)) /\ EndsWritten' = EndsWritten /\ Writing' = Writing
      BY <2>2, <2>3 DEF EndsAhead, RunsAfter, EndsWritten, Writing
    <3>. QED BY <2>2, <3>1, <3>2, <3>3 DEF Counts, CompletedMeansAll
  <2>5. CASE ~dump.on
    BY <2>1, <2>2, <2>3, <2>5 DEF Counts, CompletedMeansAll, Writing
  <2>. QED BY <2>4, <2>5
<1>7. ASSUME NEW l \in Links, Folds(l) PROVE Counts'
  <2>1. CASE l = "control"
    BY <1>7, <2>1, CountsFold
  <2>2. CASE l = "stream"
    <3>1. Reads(l)
      BY <1>7, FoldsReads
    <3>2. UNCHANGED <<asked, sent, dump, over>> /\ batch'["control"] = batch["control"]
      BY <1>7, <2>2, ControlWire DEF Folds, device, kept, TypeOK
    <3>3. wire'["control"] = wire["control"]
      BY <2>2, <3>1, ControlWire, ReadFirst
    <3>. QED BY <3>2, <3>3, CountsFrame
  <2>. QED BY <2>1, <2>2 DEF Links
<1>8. ASSUME NEW l \in Links, Finishes(l) PROVE Counts'
  <2>1. UNCHANGED <<asked, sent, wire, batch>> /\ at[l] = "finish"
    BY <1>8 DEF Finishes, device
  <2>2. CASE l = "control" /\ dump.ends
    <3>1. over' = "marker" /\ ~dump'.on /\ ~dump'.ends
      BY <1>8, <2>2 DEF Finishes, TypeOK
    <3>2. batch["control"] = 0 /\ dump.cut = 0
      BY <2>1, <2>2, ControlWire DEF Phases, TypeOK
    <3>3. ~asked /\ ~Writing /\ \A j \in DOMAIN c : ~c[j].copy
      BY <2>2, <3>2, ControlWire DEF Counts
    <3>. QED BY <2>1, <3>1, <3>3 DEF Counts, CompletedMeansAll, Writing
  <2>3. CASE ~(l = "control" /\ dump.ends)
    <3>1. UNCHANGED <<dump, over>>
      BY <1>8, <2>3 DEF Finishes
    <3>. QED BY <2>1, <3>1, CountsFrame
  <2>. QED BY <2>2, <2>3
<1>9. ASSUME NEW l \in Links, Clones(l) \/ Broadcasts(l) PROVE Counts'
  BY <1>9, CountsFrame DEF Clones, Broadcasts, core, kept, device
<1>10. CASE Opens
  <2>1. /\ asked' = TRUE /\ over' = "running" /\ UNCHANGED <<wire, batch>>
        /\ dump' = [on |-> TRUE, runs |-> 0, cut |-> 0, ends |-> FALSE]
        /\ link = "down"
    BY <1>10 DEF Opens
  <2>2. Len(c) = 0
    BY <2>1, EmptySeq DEF Phases
  <2>3. EndsWritten' = 0
    BY <2>1 DEF EndsWritten
  <2>4. EndsAhead' = 0
    <3>1. {j \in batch["control"] + 1 .. Len(c) : c[j] = End} = {}
      BY <2>2, ControlWire
    <3>. QED BY <2>1, <3>1, FS_EmptySet DEF EndsAhead
  <2>5. dump'.runs = 0 /\ ~dump'.ends /\ 0 < DumpEndRuns
    BY <2>1, ControlWire
  <2>. QED BY <2>1, <2>3, <2>4, <2>5 DEF Counts, CompletedMeansAll
<1>11. CASE Settles
  <2>1. UNCHANGED <<asked, sent, wire>> /\ over' = "settle" /\ ~dump'.on /\ ~dump'.ends
    BY <1>11 DEF Settles, task, device, TypeOK, Phases
  <2>. QED BY <2>1 DEF Counts, CompletedMeansAll, Writing
<1>12. CASE Loses
  <2>1. /\ wire' = [wire EXCEPT !.control = <<>>] /\ asked' = FALSE /\ sent' = Len(Plan)
        /\ \/ dump.on /\ dump' = [dump EXCEPT !.on = FALSE] /\ over' = "loss"
           \/ ~dump.on /\ UNCHANGED <<dump, over>>
        /\ ~dump.ends
    BY <1>12 DEF Loses, Phases
  <2>2. ~dump'.on /\ ~dump'.ends
    BY <2>1 DEF TypeOK
  <2>3. wire'["control"] = <<>> /\ Len(<<>>) = 0 /\ DOMAIN <<>> = {}
    BY <2>1, ControlWire, WiresTyped, EmptySeq
  <2>4. ~asked' /\ ~Writing'
    BY <2>1, ControlWire DEF Writing
  <2>. QED BY <2>2, <2>3, <2>4 DEF Counts, CompletedMeansAll
<1>13. CASE UNCHANGED vars
  BY <1>13, CountsFrame DEF vars, device, task, core, kept
<1>. QED BY <1>1, <1>2, <1>3, <1>4, <1>5, <1>6, <1>7, <1>8, <1>9, <1>10, <1>11, <1>12, <1>13
         DEF Next, Device

-----------------------------------------------------------------------------
(***************************************************************************)
(* The rows.                                                                *)
(***************************************************************************)

\* Steps that change nothing that a row's fate depends on; a chunk that is
\* read may turn out to end the dump.
LEMMA RowFrame ==
  ASSUME NEW a \in Addresses, Row(a),
         UNCHANGED <<dev, asked, asOf, sent, wire, tree, guard, link, over, ramped>>,
         dump' = dump \/ ~dump.ends
  PROVE  Row(a)'
BY DEF Row, StreamRow, SharedRow, ControlRow, SharedWhileDumping, Followed, Told, Pushed, ToCome,
       Writing

\* Something else is pushed, by the device or of its dump.
LEMMA OtherPushed ==
  ASSUME TypeOK, NEW a \in Addresses, Row(a), NEW links, NEW i \in Item \union {End},
         Pushes(links, i), i.addr # a, dev'[a] = dev[a],
         UNCHANGED <<asked, asOf, tree, guard, link, over, dump>>,
         \/ sent' = sent
         \/ sent' = sent + 1 /\ sent < Len(Plan) /\ Plan[sent + 1] = i.addr,
         a \in ramped <=> a \in ramped'
  PROVE  Row(a)'
<1>4. "stream" \in Links /\ "control" \in Links
  BY DEF Links
<1>s. /\ Told("stream", a)' = Told("stream", a)
      /\ Followed("stream", a, Told("stream", a)) => Followed("stream", a, Told("stream", a))'
  BY <1>4, PushedTold, PushFollows, PushedLast
<1>1. /\ Told("control", a)' = Told("control", a)
      /\ Pushed("control", a)' = Pushed("control", a)
      /\ \A j \in 1 .. Len(wire["control"]) : wire'["control"][j] = wire["control"][j]
      /\ Followed("control", a, Told("control", a)) =>
           Followed("control", a, Told("control", a))'
      /\ Followed("control", a, Pushed("control", a)) =>
           Followed("control", a, Pushed("control", a))'
  BY <1>4, PushedTold, PushFollows, PushedLast
<1>2. ToCome(a) => ToCome(a)'
  <2>1. sent \in 0 .. Len(Plan) /\ Len(Plan) \in Nat
    BY ControlWire
  <2>2. ASSUME NEW j \in sent + 1 .. Len(Plan), Plan[j] = a PROVE ToCome(a)'
    <3>1. j \in sent' + 1 .. Len(Plan)
      BY <2>1, <2>2
    <3>. QED BY <2>2, <3>1 DEF ToCome
  <2>. QED BY <2>2 DEF ToCome
<1>3. Writing' => Writing
  BY ControlWire DEF Writing
<1>5. Told("control", a) \subseteq 1 .. Len(wire["control"])
  BY DEF Told
<1>6. Wire[a] = "stream" => StreamRow(a)'
  BY <1>s DEF Row, StreamRow
<1>7. Wire[a] = "both" => SharedRow(a)'
  <2>1. SharedWhileDumping(a) => SharedWhileDumping(a)'
    BY <1>1, <1>2, <1>3, <1>5 DEF SharedWhileDumping
  <2>. QED BY <1>1, <1>s, <2>1 DEF Row, SharedRow
<1>8. Wire[a] = "control" => ControlRow(a)'
  BY <1>1, <1>2, <1>3, <1>s DEF Row, ControlRow
<1>. QED BY <1>6, <1>7, <1>8 DEF Row

\* The row itself changes.
LEMMA RowChanges ==
  ASSUME TypeOK, Phases, NEW a \in Addresses, Row(a), Changes(a)
  PROVE  Row(a)'
<1>1. PICK links \in SUBSET Links :
        /\ Pushes(links, Live(a))
        /\ Wire[a] # "control" => "stream" \in links
        /\ Wire[a] = "control" => "stream" \notin links
        /\ Wire[a] # "stream" => ("control" \in links <=> link = "open")
  BY ChangeIsPushed
<1>2. dev' \in Tree
  BY ChangeIsPushed
<1> DEFINE i == Live(a)
<1>3. i \in Item \union {End} /\ i.addr = a /\ i.ver = dev'[a] /\ ~i.copy /\ Pushes(links, i)
  BY <1>1, <1>2, LivePush
<1> HIDE DEF i
<1>4. /\ \A l \in links : /\ Followed(l, a, Told(l, a))' /\ Followed(l, a, Pushed(l, a))'
                         /\ Told(l, a)' # {}
      /\ \A l \in Links \ links : Told(l, a)' = Told(l, a)
  BY <1>1, <1>3, PushFollows, PushedTold
<1>5. "stream" \in Links /\ "control" \in Links
  BY DEF Links
<1>6. Wire[a] = "stream" => StreamRow(a)'
  BY <1>1, <1>4 DEF StreamRow
<1>7. Wire[a] = "both" => SharedRow(a)'
  <2>1. ASSUME link # "open" PROVE Told("control", a) = {}
    <3>1. wire["control"] = <<>>
      BY <2>1 DEF TypeOK, Phases
    <3>. QED BY <3>1, EmptySeq DEF Told
  <2>2. ASSUME Wire[a] = "both" PROVE Followed("control", a, Pushed("control", a))'
    <3>1. CASE "control" \in links
      BY <1>4, <3>1
    <3>2. CASE "control" \notin links
      <4>1. Told("control", a)' = {}
        BY <1>1, <1>4, <1>5, <2>1, <2>2, <3>2
      <4>. QED BY <4>1 DEF Followed, Pushed
    <3>. QED BY <3>1, <3>2
  <2>. QED BY <1>1, <1>4, <2>2 DEF SharedRow
<1>8. Wire[a] = "control" => ControlRow(a)'
  <2>1. ASSUME Wire[a] = "control"
        PROVE  /\ UNCHANGED <<guard, dump, link, asked, sent>>
               /\ Writing => a \in ramped'
    BY <2>1 DEF Changes, task, core
  <2>. QED BY <1>1, <1>4, <1>5, <2>1 DEF Row, ControlRow, Writing
<1>. QED BY <1>6, <1>7, <1>8 DEF Row

\* The stream says a shared row again.
LEMMA RowRepeats ==
  ASSUME TypeOK, NEW a \in Addresses, Row(a), Repeats(a)
  PROVE  Row(a)'
<1>1. /\ Wire[a] = "both" /\ Pushes({"stream"}, Live(a))
      /\ UNCHANGED <<dev, asked, asOf, sent, tree, guard, link, over, dump, ramped>>
  BY DEF Repeats, device, task, core, kept
<1>2. dev' \in Tree
  BY <1>1 DEF TypeOK
<1> DEFINE i == Live(a)
<1>3. i \in Item \union {End} /\ i.addr = a /\ i.ver = dev'[a] /\ ~i.copy /\ Pushes({"stream"}, i)
  BY <1>1, <1>2, LivePush
<1> HIDE DEF i
<1>4. "stream" \in Links /\ "control" \in Links
  BY DEF Links
<1>5. Followed("stream", a, Told("stream", a))' /\ Told("stream", a)' # {}
  BY <1>3, <1>4, PushFollows
<1>6. Followed("control", a, Pushed("control", a)) => Followed("control", a, Pushed("control", a))'
  BY <1>1, <1>3, <1>4, PushFollows
<1>. QED BY <1>1, <1>5, <1>6 DEF Row, SharedRow

\* The trigger arrives: the whole dump is to come.
LEMMA RowStarts ==
  ASSUME TypeOK, NEW a \in Addresses, Row(a), StartsDump
  PROVE  Row(a)'
<1>1. /\ asked' = FALSE /\ asOf' = dev /\ sent' = 0
      /\ UNCHANGED <<dev, wire, tree, guard, link, over, dump, ramped>>
  BY DEF StartsDump, task, core, kept
<1>2. Wire[a] # "stream" => ToCome(a)'
  BY <1>1, PlanAssumption DEF ToCome
<1>4. "stream" \in Links /\ "control" \in Links
  BY DEF Links
<1>s. /\ Told("stream", a)' = Told("stream", a)
      /\ Followed("stream", a, Told("stream", a)) => Followed("stream", a, Told("stream", a))'
  BY <1>1 DEF Told, Pushed, Followed
<1>c. /\ Told("control", a)' = Told("control", a)
      /\ Pushed("control", a)' = Pushed("control", a)
      /\ \A j \in 1 .. Len(wire["control"]) : wire'["control"][j] = wire["control"][j]
      /\ Followed("control", a, Told("control", a)) =>
           Followed("control", a, Told("control", a))'
      /\ Followed("control", a, Pushed("control", a)) =>
           Followed("control", a, Pushed("control", a))'
  BY <1>1 DEF Told, Pushed, Followed
<1>5. Wire[a] = "stream" => StreamRow(a)'
  BY <1>1, <1>s DEF Row, StreamRow
<1>6. Wire[a] = "both" => SharedRow(a)'
  <2>1. Wire[a] = "both" /\ SharedWhileDumping(a) => SharedWhileDumping(a)'
    BY <1>1, <1>2, <1>c DEF SharedWhileDumping
  <2>. QED BY <1>1, <1>s, <1>c, <2>1 DEF Row, SharedRow
<1>7. Wire[a] = "control" => ControlRow(a)'
  BY <1>1, <1>2, <1>s, <1>c DEF Row, ControlRow
<1>. QED BY <1>5, <1>6, <1>7 DEF Row

\* The dump tells the row: no older than the trigger, so that what did not
\* change since is told as it is.
LEMMA RowTold ==
  ASSUME TypeOK, Counts, NEW a \in Addresses, Row(a), WritesDump, Plan[sent + 1] = a
  PROVE  Row(a)'
<1>1. PICK i \in Item \union {End} :
        /\ Pushes({"control"}, i) /\ i.copy /\ i.addr = Plan[sent + 1]
        /\ i.addr = EndRun <=> i = End
        /\ i # End => i.ver \in asOf[i.addr] .. dev[i.addr]
  BY DumpIsPushed
<1>2. /\ sent' = sent + 1 /\ ~asked /\ sent < Len(Plan)
      /\ UNCHANGED <<dev, asked, asOf, tree, guard, link, over, dump, ramped>>
  BY DumpIsPushed DEF WritesDump, task, core, kept
<1>3. i.addr = a /\ i.ver \in asOf[a] .. dev[a]
  BY <1>1, FunnelAssumption
<1>4. Writing /\ ~dump.ends /\ over # "marker"
  BY <1>2 DEF Writing, Counts, CompletedMeansAll
<1>5. asOf[a] = dev[a] => i.ver = dev'[a]
  <2>1. dev[a] \in Nat /\ asOf[a] \in Nat
    BY FunnelAssumption DEF TypeOK, Tree, Versions
  <2>. QED BY <1>2, <1>3, <2>1
<1>6. "stream" \in Links /\ "control" \in Links
  BY DEF Links
<1> DEFINE n == Len(wire["control"]) + 1
<1>7. /\ Told("stream", a)' = Told("stream", a)
      /\ Followed("stream", a, Told("stream", a)) => Followed("stream", a, Told("stream", a))'
      /\ Told("control", a)' = Told("control", a) \union {n}
      /\ Pushed("control", a)' = Pushed("control", a)
      /\ Followed("control", a, Pushed("control", a)) =>
           Followed("control", a, Pushed("control", a))'
      /\ i.ver = dev'[a] => Followed("control", a, Told("control", a))'
  BY <1>1, <1>2, <1>3, <1>6, PushedTold, PushFollows
<1>8. /\ \A j \in Told("control", a) : wire'["control"][j] = wire["control"][j]
      /\ wire'["control"][n] = i /\ n \notin Told("control", a) /\ Pushed("control", a) \subseteq Told("control", a)
  BY <1>1, <1>6, ControlWire, PushedLast DEF Told, Pushed
<1> HIDE DEF n
<1>9. Wire[a] = "stream" => StreamRow(a)'
  BY <1>2, <1>7 DEF Row, StreamRow
<1>10. Wire[a] = "both" => SharedRow(a)'
  <2>1. SharedWhileDumping(a) => SharedWhileDumping(a)'
    <3>1. ASSUME SharedWhileDumping(a), a \in guard.touched PROVE tree[a] = dev[a]
      BY <1>4, <3>1 DEF SharedWhileDumping
    <3>2. ASSUME SharedWhileDumping(a), a \notin guard.touched
          PROVE  asOf[a] = dev[a] /\ \A j \in Told("control", a) : wire["control"][j].ver = dev[a]
      BY <1>4, <3>2 DEF SharedWhileDumping
    <3>3. Told("control", a)' # Pushed("control", a)'
      BY <1>7, <1>8
    <3>. QED BY <1>2, <1>5, <1>7, <1>8, <3>1, <3>2, <3>3 DEF SharedWhileDumping
  <2>. QED BY <1>2, <1>4, <1>7, <2>1 DEF Row, SharedRow
<1>11. Wire[a] = "control" => ControlRow(a)'
  BY <1>2, <1>4, <1>5, <1>7 DEF Row, ControlRow
<1>. QED BY <1>9, <1>10, <1>11 DEF Row

\* What one fold does, in the terms of the rows.
LEMMA FoldFacts ==
  ASSUME TypeOK, Phases, NEW l \in Links, Folds(l)
  PROVE  LET i == Head(wire[l])
         IN  /\ Reads(l) /\ i \in Item \union {End}
             /\ UNCHANGED <<dev, asked, asOf, sent, link, over, ramped>>
             /\ dump'.ends = dump.ends /\ dump.cut \in Nat
             /\ dump'.cut = IF l = "control" /\ dump.cut > 0 THEN dump.cut - 1 ELSE dump.cut
             /\ guard.active = (over = "running") /\ guard'.active = guard.active
             /\ guard'.touched = IF i.addr \in Addresses /\ Marks(l, i)
                                 THEN guard.touched \union {i.addr} ELSE guard.touched
             /\ \A a \in Addresses :
                  tree'[a] = IF i.addr = a /\ ~Refuses(l, a) /\ ~Drops(l, i) THEN i.ver
                                                                             ELSE tree[a]
             /\ l = "control" /\ over = "running" /\ dump.cut = 0 => dump.ends
<1> DEFINE i == Head(wire[l])
<1>1. Reads(l) /\ batch[l] \in Nat \ {0}
  BY FoldsReads
<1>2. i \in Item \union {End}
  BY <1>1, ReadFirst
<1>3. /\ Apply(l, i)
      /\ dump' = IF l = "control" /\ dump.cut > 0 THEN [dump EXCEPT !.cut = @ - 1] ELSE dump
      /\ UNCHANGED <<dev, asked, asOf, sent, link, over, ramped>>
  BY DEF Folds, device, kept
<1> HIDE DEF i
<1>4. dump'.ends = dump.ends /\ dump.cut \in Nat
      /\ dump'.cut = IF l = "control" /\ dump.cut > 0 THEN dump.cut - 1 ELSE dump.cut
  BY <1>3 DEF TypeOK
<1>5. guard \in [active : BOOLEAN, touched : SUBSET Addresses] /\ tree \in [Addresses -> Versions]
  BY DEF TypeOK, Tree
<1>6. /\ guard'.active = guard.active
      /\ guard'.touched = IF i.addr \in Addresses /\ Marks(l, i)
                          THEN guard.touched \union {i.addr} ELSE guard.touched
  BY <1>3, <1>5 DEF Apply
<1>7. ASSUME NEW a \in Addresses
      PROVE tree'[a] = IF i.addr = a /\ ~Refuses(l, a) /\ ~Drops(l, i) THEN i.ver ELSE tree[a]
  BY <1>3, <1>5, <1>7 DEF Apply
<1>8. guard.active = (over = "running")
  BY DEF Phases
<1>9. l = "control" /\ over = "running" /\ dump.cut = 0 => dump.ends
  BY <1>1 DEF Phases
<1>. QED BY <1>1, <1>2, <1>3, <1>4, <1>6, <1>7, <1>8, <1>9 DEF i

\* An item read for another row moves what is told of this one up.
LEMMA ReadElsewhere ==
  ASSUME TypeOK, NEW l \in Links, Reads(l), NEW a, Head(wire[l]).addr # a, dev'[a] = dev[a]
  PROVE  /\ Told(l, a)' = {} <=> Told(l, a) = {}
         /\ Told(l, a) # Pushed(l, a) => Told(l, a)' # Pushed(l, a)'
         /\ (\A j \in Told(l, a) : wire[l][j].ver = dev[a]) =>
              \A j \in Told(l, a)' : wire'[l][j].ver = dev[a]
         /\ \A k \in Nat : (\E j \in Told(l, a) : j > k) =>
              \E j \in Told(l, a)' : j > (IF k > 0 THEN k - 1 ELSE k)
<1>1. /\ \A j \in Told(l, a)' : j >= 1 /\ j + 1 \in Told(l, a) /\ wire'[l][j] = wire[l][j + 1]
      /\ \A j \in Told(l, a) : j \in Nat \ {0} /\ (j # 1 => j - 1 \in Told(l, a)')
      /\ \A j \in Pushed(l, a)' : j + 1 \in Pushed(l, a)
      /\ Pushed(l, a) \subseteq Told(l, a)
      /\ 1 \notin Told(l, a)
  BY ReadTold
<1>2. \A j \in Told(l, a) : j \in Nat /\ j >= 2 /\ j - 1 \in Told(l, a)'
  BY <1>1
<1>3. Told(l, a)' = {} <=> Told(l, a) = {}
  BY <1>1, <1>2
<1>4. ASSUME NEW j \in Told(l, a), j \notin Pushed(l, a) PROVE j - 1 \in Told(l, a)' /\ j - 1 \notin Pushed(l, a)'
  <2>1. (j - 1) + 1 = j /\ j - 1 \in Told(l, a)'
    BY <1>2
  <2>. QED BY <1>1, <1>4, <2>1
<1>5. Told(l, a) # Pushed(l, a) => Told(l, a)' # Pushed(l, a)'
  BY <1>1, <1>4
<1>6. ASSUME NEW k \in Nat, NEW j \in Told(l, a), j > k
      PROVE  \E m \in Told(l, a)' : m > (IF k > 0 THEN k - 1 ELSE k)
  BY <1>2, <1>6
<1>. QED BY <1>1, <1>3, <1>5, <1>6

\* A fold of another row's item.
LEMMA RowPassed ==
  ASSUME TypeOK, Phases, NEW a \in Addresses, Row(a), NEW l \in Links, Folds(l),
         Head(wire[l]).addr # a
  PROVE  Row(a)'
<1>1. /\ Reads(l) /\ UNCHANGED <<dev, asked, asOf, sent, link, over, ramped>>
      /\ dump'.ends = dump.ends /\ dump.cut \in Nat
      /\ dump'.cut = IF l = "control" /\ dump.cut > 0 THEN dump.cut - 1 ELSE dump.cut
      /\ (a \in guard'.touched) = (a \in guard.touched)
      /\ tree'[a] = tree[a]
  <2> DEFINE i == Head(wire[l])
  <2>1. i.addr # a
    OBVIOUS
  <2>2. /\ Reads(l) /\ UNCHANGED <<dev, asked, asOf, sent, link, over, ramped>>
        /\ dump'.ends = dump.ends /\ dump.cut \in Nat
        /\ dump'.cut = IF l = "control" /\ dump.cut > 0 THEN dump.cut - 1 ELSE dump.cut
        /\ guard'.touched = IF i.addr \in Addresses /\ Marks(l, i)
                            THEN guard.touched \union {i.addr} ELSE guard.touched
        /\ tree'[a] = IF i.addr = a /\ ~Refuses(l, a) /\ ~Drops(l, i) THEN i.ver ELSE tree[a]
    BY FoldFacts
  <2> HIDE DEF i
  <2>. QED BY <2>1, <2>2
<1>2. ToCome(a)' = ToCome(a) /\ Writing' = Writing
  BY <1>1 DEF ToCome, Writing
<1>3. CASE l = "stream"
  <2>1. /\ Told("stream", a)' = {} <=> Told("stream", a) = {}
        /\ Followed("stream", a, Told("stream", a)) => Followed("stream", a, Told("stream", a))'
    BY <1>1, <1>3, ReadElsewhere, ReadFollows
  <2>2. wire'["control"] = wire["control"] /\ dump'.cut = dump.cut
    BY <1>1, <1>3, ControlWire, ReadFirst
  <2>3. /\ Told("control", a)' = Told("control", a) /\ Pushed("control", a)' = Pushed("control", a)
        /\ Followed("control", a, Told("control", a)) => Followed("control", a, Told("control", a))'
        /\ Followed("control", a, Pushed("control", a)) => Followed("control", a, Pushed("control", a))'
    BY <1>1, <2>2 DEF Told, Pushed, Followed
  <2>4. SharedWhileDumping(a) => SharedWhileDumping(a)'
    BY <1>1, <1>2, <2>2, <2>3 DEF SharedWhileDumping
  <2>5. StreamRow(a) => StreamRow(a)'
    BY <1>1, <2>1 DEF StreamRow
  <2>6. SharedRow(a) => SharedRow(a)'
    BY <1>1, <2>1, <2>3, <2>4 DEF SharedRow
  <2>7. ControlRow(a) => ControlRow(a)'
    BY <1>1, <1>2, <2>1, <2>2, <2>3 DEF ControlRow
  <2>. QED BY <2>5, <2>6, <2>7 DEF Row
<1>4. CASE l = "control"
  <2>1. /\ Told("control", a)' = {} <=> Told("control", a) = {}
        /\ Told("control", a) # Pushed("control", a) =>
             Told("control", a)' # Pushed("control", a)'
        /\ (\A j \in Told("control", a) : wire["control"][j].ver = dev[a]) =>
             \A j \in Told("control", a)' : wire'["control"][j].ver = dev[a]
        /\ (\E j \in Told("control", a) : j > dump.cut) =>
             \E j \in Told("control", a)' : j > dump'.cut
        /\ Followed("control", a, Told("control", a)) => Followed("control", a, Told("control", a))'
        /\ Followed("control", a, Pushed("control", a)) => Followed("control", a, Pushed("control", a))'
    BY <1>1, <1>4, ReadElsewhere, ReadFollows
  <2>2. wire'["stream"] = wire["stream"]
    BY <1>1, <1>4, ReadFirst DEF Links
  <2>3. /\ Told("stream", a)' = Told("stream", a)
        /\ Followed("stream", a, Told("stream", a)) => Followed("stream", a, Told("stream", a))'
    BY <1>1, <2>2 DEF Told, Pushed, Followed
  <2>4. SharedWhileDumping(a) => SharedWhileDumping(a)'
    BY <1>1, <1>2, <2>1 DEF SharedWhileDumping
  <2>5. StreamRow(a) => StreamRow(a)'
    BY <1>1, <2>3 DEF StreamRow
  <2>6. SharedRow(a) => SharedRow(a)'
    BY <1>1, <2>1, <2>3, <2>4 DEF SharedRow
  <2>7. ControlRow(a) => ControlRow(a)'
    BY <1>1, <1>2, <2>1, <2>3 DEF ControlRow
  <2>. QED BY <2>5, <2>6, <2>7 DEF Row
<1>. QED BY <1>3, <1>4 DEF Links

\* A fold of the row's item from the stream.
LEMMA RowFromStream ==
  ASSUME TypeOK, Phases, NEW a \in Addresses, Row(a), Folds("stream"),
         Head(wire["stream"]).addr = a
  PROVE  Row(a)'
<1> DEFINE i == Head(wire["stream"])
<1>0. "stream" \in Links /\ "control" \in Links
  BY DEF Links
<1>1. /\ Reads("stream") /\ UNCHANGED <<dev, asked, asOf, sent, link, over, ramped>>
      /\ dump'.ends = dump.ends /\ dump'.cut = dump.cut
      /\ guard.active = (over = "running")
      /\ guard.active => a \in guard'.touched
      /\ tree'[a] = i.ver
  <2>1. /\ Reads("stream") /\ UNCHANGED <<dev, asked, asOf, sent, link, over, ramped>>
        /\ dump'.ends = dump.ends
        /\ dump'.cut = IF "stream" = "control" /\ dump.cut > 0 THEN dump.cut - 1 ELSE dump.cut
        /\ guard.active = (over = "running")
        /\ guard'.touched = IF i.addr \in Addresses /\ Marks("stream", i)
                            THEN guard.touched \union {i.addr} ELSE guard.touched
        /\ tree'[a] = IF i.addr = a /\ ~Refuses("stream", a) /\ ~Drops("stream", i)
                      THEN i.ver ELSE tree[a]
    BY <1>0, FoldFacts
  <2>2. i.addr = a
    OBVIOUS
  <2>3. ~Refuses("stream", a) /\ ~Drops("stream", i) /\ (Marks("stream", i) <=> guard.active)
    BY <2>2 DEF Marks, Refuses, Drops, IsLive
  <2> HIDE DEF i
  <2>. QED BY <2>1, <2>2, <2>3
<1>2. /\ Followed("stream", a, Told("stream", a)) => Followed("stream", a, Told("stream", a))'
      /\ Followed("stream", a, Told("stream", a)) /\ Told("stream", a)' = {} => i.ver = dev[a]
      /\ Told("stream", a) # {}
  BY <1>0, <1>1, ReadTold, ReadFollows
<1>3. wire'["control"] = wire["control"]
  BY <1>0, <1>1, ReadFirst
<1>4. Followed("control", a, Pushed("control", a)) => Followed("control", a, Pushed("control", a))'
  BY <1>1, <1>3 DEF Told, Pushed, Followed
<1> HIDE DEF i
<1>5. StreamRow(a) => StreamRow(a)'
  BY <1>1, <1>2 DEF StreamRow
<1>6. SharedRow(a) => SharedRow(a)'
  BY <1>1, <1>2, <1>4 DEF SharedRow, SharedWhileDumping
<1>7. ~ControlRow(a)
  BY <1>2 DEF ControlRow
<1>. QED BY <1>5, <1>6, <1>7 DEF Row

\* A fold of the row's item from the control link: what the dump told is
\* dropped where the row has moved, and what comes after the closing run is
\* live again.
LEMMA RowFromControl ==
  ASSUME TypeOK, Phases, Counts, NEW a \in Addresses, Row(a), Folds("control"),
         Head(wire["control"]).addr = a
  PROVE  Row(a)'
<1> DEFINE i == Head(wire["control"])
<1>0. "stream" \in Links /\ "control" \in Links
  BY DEF Links
<1>1. /\ Reads("control") /\ UNCHANGED <<dev, asked, asOf, sent, link, over, ramped>>
      /\ dump'.ends = dump.ends /\ dump.cut \in Nat
      /\ dump'.cut = IF dump.cut > 0 THEN dump.cut - 1 ELSE dump.cut
      /\ guard.active = (over = "running")
      /\ guard'.touched = IF Marks("control", i) THEN guard.touched \union {a} ELSE guard.touched
      /\ tree'[a] = IF ~Refuses("control", a) /\ ~Drops("control", i) THEN i.ver ELSE tree[a]
      /\ over = "running" /\ dump.cut = 0 => dump.ends
  <2>1. /\ Reads("control") /\ UNCHANGED <<dev, asked, asOf, sent, link, over, ramped>>
        /\ dump'.ends = dump.ends /\ dump.cut \in Nat
        /\ dump'.cut = IF "control" = "control" /\ dump.cut > 0 THEN dump.cut - 1 ELSE dump.cut
        /\ guard.active = (over = "running")
        /\ guard'.touched = IF i.addr \in Addresses /\ Marks("control", i)
                            THEN guard.touched \union {i.addr} ELSE guard.touched
        /\ tree'[a] = IF i.addr = a /\ ~Refuses("control", a) /\ ~Drops("control", i)
                      THEN i.ver ELSE tree[a]
        /\ over = "running" /\ dump.cut = 0 => dump.ends
    BY <1>0, FoldFacts
  <2>2. i.addr = a
    OBVIOUS
  <2> HIDE DEF i
  <2>. QED BY <2>1, <2>2
<1> DEFINE marks == over = "running" /\ dump.cut = 0 /\ Wire[a] # "stream"
           drops == over = "running" /\ dump.cut # 0 /\ a \in guard.touched
<1>2. /\ marks => guard'.touched = guard.touched \union {a}
      /\ ~marks => guard'.touched = guard.touched
      /\ Wire[a] = "stream" \/ drops => tree'[a] = tree[a]
      /\ Wire[a] # "stream" /\ ~drops => tree'[a] = i.ver
  <2>1. Marks("control", i) <=> marks
    <3>1. i.addr = a
      OBVIOUS
    <3> HIDE DEF i
    <3>. QED BY <1>1, <3>1 DEF Marks, Refuses, IsLive
  <2>2. Drops("control", i) <=> drops
    <3>1. i.addr = a
      OBVIOUS
    <3> HIDE DEF i
    <3>. QED BY <1>1, <3>1 DEF Drops, IsLive
  <2>3. Refuses("control", a) <=> Wire[a] = "stream"
    BY DEF Refuses
  <2> HIDE DEF i, marks, drops
  <2>4. /\ marks => guard'.touched = guard.touched \union {a}
        /\ ~marks => guard'.touched = guard.touched
    BY <1>1, <2>1
  <2>5. /\ Wire[a] = "stream" \/ drops => tree'[a] = tree[a]
        /\ Wire[a] # "stream" /\ ~drops => tree'[a] = i.ver
    BY <1>1, <2>2, <2>3
  <2>. QED BY <2>4, <2>5
<1>3. /\ Followed("control", a, Told("control", a)) => Followed("control", a, Told("control", a))'
      /\ Followed("control", a, Pushed("control", a)) => Followed("control", a, Pushed("control", a))'
      /\ Followed("control", a, Told("control", a)) /\ Told("control", a)' = {} => i.ver = dev[a]
      /\ Followed("control", a, Pushed("control", a)) /\ 1 \in Pushed("control", a)
           /\ Pushed("control", a)' = {} => i.ver = dev[a]
  BY <1>0, <1>1, ReadFollows
<1>4. /\ \A j \in Told("control", a)' : j >= 1 /\ j + 1 \in Told("control", a)
                                      /\ wire'["control"][j] = wire["control"][j + 1]
      /\ \A j \in Told("control", a) : j \in Nat \ {0} /\ (j # 1 => j - 1 \in Told("control", a)')
      /\ 1 \in Told("control", a) /\ (1 \in Pushed("control", a) <=> ~i.copy)
      /\ Pushed("control", a) \subseteq Told("control", a)
      /\ i = wire["control"][1] /\ 1 \in 1 .. Len(wire["control"])
  BY <1>0, <1>1, ReadTold, ReadFirst
<1>5. Pushed("control", a)' \subseteq Told("control", a)'
  BY DEF Pushed
<1>6. wire'["stream"] = wire["stream"]
  BY <1>0, <1>1, ReadFirst
<1>7. /\ Told("stream", a)' = Told("stream", a)
      /\ Followed("stream", a, Told("stream", a)) => Followed("stream", a, Told("stream", a))'
  BY <1>1, <1>6 DEF Told, Pushed, Followed
<1>8. ToCome(a)' = ToCome(a) /\ Writing' = Writing
  BY <1>1 DEF ToCome, Writing
<1>9. (dump.ends /\ dump.cut = 0) \/ over = "marker" => ~i.copy
  <2>1. ASSUME dump.ends, dump.cut = 0 PROVE ~i.copy
    BY <1>4, <2>1 DEF Counts
  <2>2. ASSUME over = "marker" PROVE ~i.copy
    BY <1>4, <2>2, ControlWire DEF Counts, CompletedMeansAll
  <2>. QED BY <2>1, <2>2
<1> HIDE DEF i
<1>10. Wire[a] = "stream" => StreamRow(a)'
  BY <1>1, <1>2, <1>7 DEF Row, StreamRow
<1>11. Wire[a] = "both" => SharedRow(a)'
  <2>1. ASSUME Wire[a] = "both", over = "running", SharedWhileDumping(a), dump.cut > 0,
               Followed("control", a, Pushed("control", a))
        PROVE  SharedWhileDumping(a)'
    <3>1. /\ guard'.touched = guard.touched /\ dump'.cut = dump.cut - 1
          /\ tree'[a] = IF a \in guard.touched THEN tree[a] ELSE i.ver
      BY <1>1, <1>2, <2>1
    <3>2. CASE a \in guard.touched
      <4>1. (\E j \in Told("control", a) : j > dump.cut) =>
              \E j \in Told("control", a)' : j > dump'.cut
        BY <1>1, <1>4, <2>1, <3>1
      <4>. QED BY <1>1, <2>1, <3>1, <3>2, <4>1 DEF SharedWhileDumping
    <3>3. CASE a \notin guard.touched
      <4>1. i.ver = dev[a] /\ \A j \in Told("control", a)' : wire'["control"][j].ver = dev[a]
        BY <1>4, <2>1, <3>3 DEF SharedWhileDumping
      <4>. QED BY <1>1, <1>8, <2>1, <3>1, <3>3, <4>1 DEF SharedWhileDumping
    <3>. QED BY <3>2, <3>3
  <2>2. ASSUME Wire[a] = "both", over = "running", dump.cut = 0,
               Followed("control", a, Pushed("control", a))
        PROVE  SharedWhileDumping(a)'
    <3>1. a \in guard'.touched /\ tree'[a] = i.ver /\ dump'.cut = 0 /\ dump'.ends
      BY <1>1, <1>2, <2>2
    <3>2. 1 \in Pushed("control", a)
      BY <1>1, <1>4, <1>9, <2>2
    <3>3. PICK m \in Pushed("control", a) : wire["control"][m].ver = dev[a]
      BY <2>2, <3>2 DEF Followed
    <3>4. CASE m = 1
      BY <1>1, <1>4, <3>1, <3>3, <3>4 DEF SharedWhileDumping
    <3>5. CASE m # 1
      <4>1. m - 1 \in Told("control", a)' /\ m - 1 > 0
        BY <1>4, <3>3, <3>5
      <4>. QED BY <3>1, <4>1 DEF SharedWhileDumping
    <3>. QED BY <3>4, <3>5
  <2>3. ASSUME Wire[a] = "both", over = "marker", Told("control", a)' = {},
               Followed("control", a, Pushed("control", a))
        PROVE  tree'[a] = dev[a]
    BY <1>1, <1>2, <1>3, <1>4, <1>5, <1>9, <2>3
  <2>4. dump.cut > 0 \/ dump.cut = 0
    BY <1>1
  <2>. QED BY <1>1, <1>3, <1>7, <2>1, <2>2, <2>3, <2>4 DEF Row, SharedRow
<1>12. Wire[a] = "control" => ControlRow(a)'
  <2>1. ASSUME ControlRow(a), Wire[a] = "control"
        PROVE  /\ a \in guard'.touched => dump'.ends /\ dump'.cut = 0
               /\ tree'[a] = i.ver
    BY <1>1, <1>2, <2>1 DEF ControlRow
  <2>. QED BY <1>1, <1>3, <1>7, <1>8, <2>1 DEF Row, ControlRow
<1>. QED BY <1>10, <1>11, <1>12 DEF Row

\* The closing run ends the dump: what the dump left alone is as it was told.
LEMMA RowFinishes ==
  ASSUME TypeOK, Phases, Counts, NEW a \in Addresses, Row(a), NEW l \in Links, Finishes(l)
  PROVE  Row(a)'
<1>1. /\ at[l] = "finish" /\ UNCHANGED <<dev, asked, asOf, sent, wire, tree, link, ramped>>
      /\ IF l = "control" /\ dump.ends
         THEN /\ guard' = ClearGuard(FALSE)
              /\ dump' = [dump EXCEPT !.on = FALSE, !.ends = FALSE]
              /\ over' = "marker"
         ELSE UNCHANGED <<guard, dump, over>>
  BY DEF Finishes, device
<1>2. CASE ~(l = "control" /\ dump.ends)
  BY <1>1, <1>2, RowFrame
<1>3. CASE l = "control" /\ dump.ends
  <2>1. guard'.touched = {} /\ over' = "marker"
    BY <1>1, <1>3 DEF ClearGuard
  <2>2. dump.cut = 0 /\ over = "running"
    <3>1. batch["control"] = 0
      BY <1>1, <1>3, ControlWire DEF Phases
    <3>2. dump.cut <= batch["control"] /\ dump.cut \in Nat
      BY ControlWire DEF TypeOK
    <3>3. over = "running"
      BY <1>3 DEF Phases
    <3>. QED BY <3>1, <3>2, <3>3
  <2>3. ~asked /\ ~Writing
    BY <1>3 DEF Counts
  <2>4. ~ToCome(a)
    BY <2>3, ControlWire DEF Writing, ToCome
  <2>s. /\ Told("stream", a)' = Told("stream", a)
        /\ Followed("stream", a, Told("stream", a)) => Followed("stream", a, Told("stream", a))'
    BY <1>1 DEF Told, Pushed, Followed
  <2>c. /\ Told("control", a)' = Told("control", a)
        /\ Pushed("control", a)' = Pushed("control", a)
        /\ Followed("control", a, Told("control", a)) =>
             Followed("control", a, Told("control", a))'
        /\ Followed("control", a, Pushed("control", a)) =>
             Followed("control", a, Pushed("control", a))'
        /\ ToCome(a)' = ToCome(a) /\ Writing' = Writing
    BY <1>1 DEF Told, Pushed, Followed, ToCome, Writing
  <2>5. Wire[a] = "stream" => StreamRow(a)'
    BY <1>1, <2>s DEF Row, StreamRow
  <2>6. Wire[a] = "both" => SharedRow(a)'
    <3>1. ASSUME SharedWhileDumping(a), Told("control", a) = {} PROVE tree[a] = dev[a]
      BY <2>4, <3>1 DEF SharedWhileDumping, Pushed
    <3>. QED BY <1>1, <2>1, <2>2, <2>s, <2>c, <3>1 DEF Row, SharedRow
  <2>7. Wire[a] = "control" => ControlRow(a)'
    BY <1>1, <2>1, <2>s, <2>c DEF Row, ControlRow
  <2>. QED BY <2>5, <2>6, <2>7 DEF Row
<1>. QED BY <1>2, <1>3

\* A new dump: nothing is touched, and all of it is to come.
LEMMA RowOpens ==
  ASSUME TypeOK, Phases, NEW a \in Addresses, Row(a), Opens
  PROVE  Row(a)'
<1>1. /\ link = "down" /\ asked' = TRUE /\ guard' = ClearGuard(TRUE)
      /\ link' = "open" /\ over' = "running"
      /\ UNCHANGED <<dev, asOf, sent, wire, tree>>
  BY DEF Opens
<1>2. wire["control"] = <<>>
  BY <1>1 DEF Phases
<1>3. Told("control", a)' = {} /\ Pushed("control", a)' = {}
  BY <1>1, <1>2, EmptySeq DEF Told, Pushed
<1>4. guard'.touched = {} /\ ToCome(a)' /\ ~Writing'
  BY <1>1 DEF ClearGuard, ToCome, Writing
<1>s. /\ Told("stream", a)' = Told("stream", a)
      /\ Followed("stream", a, Told("stream", a)) => Followed("stream", a, Told("stream", a))'
  BY <1>1 DEF Told, Pushed, Followed
<1>5. Wire[a] = "stream" => StreamRow(a)'
  BY <1>1, <1>s DEF Row, StreamRow
<1>6. Wire[a] = "both" => SharedRow(a)'
  BY <1>1, <1>3, <1>4, <1>s DEF Row, SharedRow, SharedWhileDumping, Followed
<1>7. Wire[a] = "control" => ControlRow(a)'
  BY <1>1, <1>3, <1>4, <1>s DEF Row, ControlRow, Followed
<1>. QED BY <1>5, <1>6, <1>7 DEF Row

\* The settle time gives the dump up, and the guard with it.
LEMMA RowSettles ==
  ASSUME TypeOK, NEW a \in Addresses, Row(a), Settles
  PROVE  Row(a)'
<1>1. /\ guard' = ClearGuard(FALSE) /\ over' = "settle"
      /\ UNCHANGED <<dev, asked, asOf, sent, wire, tree, link, ramped>>
  BY DEF Settles, device
<1>2. guard'.touched = {}
  BY <1>1 DEF ClearGuard
<1>s. /\ Told("stream", a)' = Told("stream", a)
      /\ Followed("stream", a, Told("stream", a)) => Followed("stream", a, Told("stream", a))'
  BY <1>1 DEF Told, Pushed, Followed
<1>c. /\ Told("control", a)' = Told("control", a)
      /\ Followed("control", a, Told("control", a)) =>
           Followed("control", a, Told("control", a))'
      /\ Followed("control", a, Pushed("control", a)) =>
           Followed("control", a, Pushed("control", a))'
      /\ ToCome(a)' = ToCome(a) /\ Writing' = Writing
  BY <1>1 DEF Told, Pushed, Followed, ToCome, Writing
<1>5. Wire[a] = "stream" => StreamRow(a)'
  BY <1>1, <1>s DEF Row, StreamRow
<1>6. Wire[a] = "both" => SharedRow(a)'
  BY <1>1, <1>s, <1>c DEF Row, SharedRow
<1>7. Wire[a] = "control" => ControlRow(a)'
  BY <1>1, <1>2, <1>s, <1>c DEF Row, ControlRow
<1>. QED BY <1>5, <1>6, <1>7 DEF Row

\* The control link is lost: the stream still tells its rows.
LEMMA RowLoses ==
  ASSUME TypeOK, Phases, NEW a \in Addresses, Row(a), Loses
  PROVE  Row(a)'
<1>1. /\ link' = "down" /\ wire' = [wire EXCEPT !.control = <<>>]
      /\ IF dump.on THEN guard' = ClearGuard(FALSE) /\ over' = "loss"
                    ELSE UNCHANGED <<guard, over>>
      /\ UNCHANGED <<dev, tree>>
  BY DEF Loses
<1>2. wire'["control"] = <<>> /\ wire'["stream"] = wire["stream"]
  BY <1>1 DEF TypeOK, Links
<1>3. Told("control", a)' = {} /\ Pushed("control", a)' = {}
  BY <1>2, EmptySeq DEF Told, Pushed
<1>4. guard'.touched = {} /\ over' # "running"
  <2>1. CASE dump.on
    BY <1>1, <2>1 DEF ClearGuard
  <2>2. CASE ~dump.on
    <3>1. over # "running" /\ ~guard.active
      BY <2>2 DEF Phases
    <3>. QED BY <1>1, <2>2, <3>1 DEF Phases
  <2>. QED BY <2>1, <2>2
<1>s. /\ Told("stream", a)' = Told("stream", a)
      /\ Followed("stream", a, Told("stream", a)) => Followed("stream", a, Told("stream", a))'
  BY <1>1, <1>2 DEF Told, Pushed, Followed
<1>5. Wire[a] = "stream" => StreamRow(a)'
  BY <1>1, <1>s DEF Row, StreamRow
<1>6. Wire[a] = "both" => SharedRow(a)'
  BY <1>1, <1>3, <1>4, <1>s DEF Row, SharedRow, Followed
<1>7. Wire[a] = "control" => ControlRow(a)'
  BY <1>1, <1>3, <1>4, <1>s DEF Row, ControlRow, Followed
<1>. QED BY <1>5, <1>6, <1>7 DEF Row

LEMMA RowKept ==
  ASSUME TypeOK, Phases, Counts, [Next]_vars, NEW a \in Addresses, Row(a)
  PROVE  Row(a)'
<1>1. ASSUME NEW b \in Addresses, Changes(b) PROVE Row(a)'
  <2>1. CASE b = a
    BY <1>1, <2>1, RowChanges
  <2>2. CASE b # a
    <3>1. /\ dev' \in Tree /\ dev'[a] = dev[a]
          /\ \E links \in SUBSET Links : Pushes(links, Live(b))
      BY <1>1, <2>2, ChangeIsPushed
    <3>2. PICK links \in SUBSET Links : Pushes(links, Live(b))
      BY <3>1
    <3> DEFINE i == Live(b)
    <3>3. i \in Item \union {End} /\ i.addr = b
      BY <3>1, LivePush
    <3>4. /\ UNCHANGED <<asked, asOf, sent, tree, guard, link, over, dump>>
          /\ a \in ramped <=> a \in ramped'
      BY <1>1, <2>2 DEF Changes, core
    <3> HIDE DEF i
    <3>5. Pushes(links, i)
      BY <3>2 DEF i
    <3>. QED BY <2>2, <3>1, <3>3, <3>4, <3>5, OtherPushed
  <2>. QED BY <2>1, <2>2
<1>2. ASSUME NEW b \in Addresses, Repeats(b) PROVE Row(a)'
  <2>1. CASE b = a
    BY <1>2, <2>1, RowRepeats
  <2>2. CASE b # a
    <3> DEFINE i == Live(b)
    <3>1. /\ UNCHANGED <<dev, asked, asOf, sent, tree, guard, link, over, dump, ramped>>
          /\ Pushes({"stream"}, i)
      BY <1>2 DEF Repeats, device, task, core, kept
    <3>2. dev' \in Tree
      BY <3>1 DEF TypeOK
    <3>3. i \in Item \union {End} /\ i.addr = b
      BY <3>2, LivePush
    <3> HIDE DEF i
    <3>. QED BY <2>2, <3>1, <3>3, OtherPushed
  <2>. QED BY <2>1, <2>2
<1>3. CASE StartsDump
  BY <1>3, RowStarts
<1>4. CASE WritesDump
  <2>1. CASE Plan[sent + 1] = a
    BY <1>4, <2>1, RowTold
  <2>2. CASE Plan[sent + 1] # a
    <3>1. PICK i \in Item \union {End} : Pushes({"control"}, i) /\ i.addr = Plan[sent + 1]
      BY <1>4, DumpIsPushed
    <3>2. /\ UNCHANGED <<dev, asked, asOf, tree, guard, link, over, dump, ramped>>
          /\ sent' = sent + 1 /\ sent < Len(Plan)
      BY <1>4, DumpIsPushed DEF WritesDump, task, core, kept
    <3>. QED BY <2>2, <3>1, <3>2, OtherPushed
  <2>. QED BY <2>1, <2>2
<1>5. CASE ReadsStream
  BY <1>5, RowFrame DEF ReadsStream, device, core, kept
<1>6. CASE ReadsControl
  <2>1. at["control"] = "wait"
    BY <1>6 DEF ReadsControl
  <2>2. ~dump.ends
    BY <2>1 DEF Phases
  <2>. QED BY <1>6, <2>2, RowFrame DEF ReadsControl, device, core, kept
<1>7. ASSUME NEW l \in Links, Folds(l) PROVE Row(a)'
  <2>1. CASE Head(wire[l]).addr # a
    BY <1>7, <2>1, RowPassed
  <2>2. CASE Head(wire[l]).addr = a
    BY <1>7, <2>2, RowFromStream, RowFromControl DEF Links
  <2>. QED BY <2>1, <2>2
<1>8. ASSUME NEW l \in Links, Finishes(l) PROVE Row(a)'
  BY <1>8, RowFinishes
<1>9. ASSUME NEW l \in Links, Clones(l) \/ Broadcasts(l) PROVE Row(a)'
  BY <1>9, RowFrame DEF Clones, Broadcasts, device, core, kept
<1>10. CASE Opens
  BY <1>10, RowOpens
<1>11. CASE Settles
  BY <1>11, RowSettles
<1>12. CASE Loses
  BY <1>12, RowLoses
<1>13. CASE UNCHANGED vars
  BY <1>13, RowFrame DEF vars, device, core, kept
<1>. QED BY <1>1, <1>2, <1>3, <1>4, <1>5, <1>6, <1>7, <1>8, <1>9, <1>10, <1>11, <1>12, <1>13
         DEF Next, Device

-----------------------------------------------------------------------------
(***************************************************************************)
(* The tree.                                                                *)
(***************************************************************************)

LEMMA InitIInv == Init => IInv
<1> SUFFICES ASSUME Init PROVE IInv
  OBVIOUS
<1>1. /\ dev = Zero /\ changes = 0 /\ asked = FALSE /\ asOf = Zero /\ sent = Len(Plan)
      /\ wire = [l \in Links |-> <<>>]
      /\ at = [l \in Links |-> "wait"] /\ batch = [l \in Links |-> 0]
      /\ slow = [l \in Links |-> FALSE] /\ seen = [l \in Links |-> Zero]
      /\ dump = [on |-> FALSE, runs |-> 0, cut |-> 0, ends |-> FALSE]
      /\ tree = Zero /\ guard = [active |-> FALSE, touched |-> {}]
      /\ link = "down" /\ snapshot = Zero /\ runtime \in {"current", "multi"}
      /\ opens = 0 /\ over = "loss" /\ ramped = {}
  BY DEF Init, ClearGuard
<1>2. Len(Plan) \in Nat /\ ~Writing /\ Zero \in Tree
  BY <1>1, FunnelAssumption DEF Writing, Zero, Tree, Versions
<1>3. \A l \in Links : wire[l] = <<>> /\ Len(wire[l]) = 0
  BY <1>1, EmptySeq
<1>4. TypeOK
  <2>1. wire \in [Links -> Seq(Item \union {End})]
    BY <1>1, EmptySeq
  <2>2. 0 \in Versions /\ 0 \in 0 .. DumpEndRuns /\ 0 \in 0 .. MaxOpens
    BY FunnelAssumption DEF Versions
  <2>3. /\ at \in [Links -> {"wait", "fold", "finish", "publish", "send"}]
        /\ batch \in [Links -> Nat] /\ slow \in [Links -> BOOLEAN] /\ seen \in [Links -> Tree]
        /\ \A l \in Links : batch[l] <= Len(wire[l])
    BY <1>1, <1>2, <1>3
  <2>4. /\ dump \in [on : BOOLEAN, runs : 0 .. DumpEndRuns, cut : Nat, ends : BOOLEAN]
        /\ dump.cut <= batch["control"]
        /\ guard \in [active : BOOLEAN, touched : SUBSET Addresses]
    BY <1>1, <2>2 DEF Links
  <2>5. /\ dev \in Tree /\ asOf \in Tree /\ tree \in Tree /\ snapshot \in Tree
        /\ changes \in Versions /\ asked \in BOOLEAN /\ sent \in 0 .. Len(Plan)
    <3>1. dev \in Tree /\ asOf \in Tree /\ tree \in Tree /\ snapshot \in Tree
      BY <1>1, <1>2
    <3>2. changes \in Versions /\ asked \in BOOLEAN
      BY <1>1, <2>2
    <3>3. sent \in 0 .. Len(Plan)
      BY <1>1, <1>2
    <3>. QED BY <3>1, <3>2, <3>3
  <2>6. /\ link \in {"down", "open"} /\ runtime \in {"current", "multi"}
        /\ opens \in 0 .. MaxOpens /\ ramped \subseteq Addresses
        /\ over \in {"running", "marker", "settle", "loss"}
    BY <1>1, <2>2
  <2>. QED BY <2>1, <2>3, <2>4, <2>5, <2>6 DEF TypeOK
<1>5. Phases
  <2>1. wire["control"] = <<>> /\ \A a \in Addresses : dev[a] <= changes
    BY <1>1, <1>3 DEF Links, Zero
  <2>. QED BY <1>1, <1>2, <2>1 DEF Phases, Links
<1>6. Counts
  <2>1. Len(wire["control"]) = 0 /\ DOMAIN wire["control"] = {}
    BY <1>3, EmptySeq DEF Links
  <2>. QED BY <1>1, <2>1 DEF Counts, CompletedMeansAll
<1>7. ASSUME NEW a \in Addresses PROVE Row(a)
  <2>1. Told("stream", a) = {}
    BY <1>3 DEF Told, Links
  <2>2. Told("control", a) = {} /\ Pushed("control", a) = {}
    BY <1>3 DEF Told, Pushed, Links
  <2>3. tree[a] = dev[a]
    BY <1>1
  <2>. QED BY <1>1, <2>1, <2>2, <2>3 DEF Row, StreamRow, SharedRow, ControlRow, Followed
<1>. QED BY <1>4, <1>5, <1>6, <1>7 DEF IInv, RowsFollow

\* IInv is inductive: where the guard, the task and the link stand, how many
\* runs are still to be counted, and for each row where its last word is.
THEOREM Inductive == Spec => []IInv
<1>1. IInv /\ [Next]_vars => IInv'
  <2> SUFFICES ASSUME IInv, [Next]_vars PROVE IInv'
    OBVIOUS
  <2>1. TypeOK /\ Phases /\ Counts /\ RowsFollow
    BY DEF IInv
  <2>2. TypeOK' /\ Phases' /\ Counts'
    BY <2>1, TypesKept, PhasesKept, CountsKept
  <2>3. RowsFollow'
    BY <2>1, RowKept DEF RowsFollow
  <2>. QED BY <2>2, <2>3 DEF IInv
<1>. QED BY <1>1, InitIInv, PTL DEF Spec

\* Every variable of the funnel has its type (state.rs, links.rs).
THEOREM TypeCorrect == Spec => []TypeOK
<1>1. IInv => TypeOK
  BY DEF IInv
<1>. QED BY <1>1, Inductive, PTL

\* However the reads cut the dump up and wherever its runs fall in a chunk, when
\* run_control takes the marker for the end (dump_end_indices, end_dump_report)
\* no part of the dump is still to come.
THEOREM MarkerMeansAll == Spec => []CompletedMeansAll
<1>1. IInv => CompletedMeansAll
  BY DEF IInv, Counts
<1>. QED BY <1>1, Inductive, PTL

\* Once the marker has ended a dump and both wires are drained, the tree is the
\* device's state: rules 3 and 6 of apply_update lose no value to an older copy,
\* in whatever order the stream, the control link and the dump are folded.
THEOREM TreeSynced == Spec => []Synced
<1>1. ASSUME IInv, Drained, link = "open", over = "marker", NEW a \in Addresses \ ramped
      PROVE  tree[a] = dev[a]
  <2>1. Row(a) /\ Wire[a] \in {"stream", "control", "both"}
    BY <1>1, FunnelAssumption DEF IInv, RowsFollow
  <2>2. Told("stream", a) = {} /\ Told("control", a) = {}
    BY <1>1, EmptySeq DEF Drained, Told, Links
  <2>3. ~ToCome(a)
    BY <1>1, ControlWire DEF Drained, Writing, ToCome, IInv
  <2>. QED BY <1>1, <2>1, <2>2, <2>3 DEF Row, StreamRow, SharedRow, ControlRow
<1>2. IInv => Synced
  BY <1>1 DEF Synced
<1>. QED BY <1>2, Inductive, PTL

=============================================================================
