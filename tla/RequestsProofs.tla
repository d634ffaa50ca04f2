--------------------------- MODULE RequestsProofs ----------------------------
(***************************************************************************)
(* Proofs about the request lane, for any number of calls, keys, permits    *)
(* and lives, and any length of the queue.                                  *)
(***************************************************************************)
EXTENDS Requests, FiniteSetTheorems, FunctionTheorems, SequenceTheorems,
        WellFoundedInduction, TLAPS

-----------------------------------------------------------------------------
(***************************************************************************)
(* How often something occurs in a sequence: what sending and reading do to *)
(* it, by which nothing sent is lost or told twice.                         *)
(***************************************************************************)

\* The positions of x in s, and how many they are.
PlacesOf(s, x)    == {i \in 1 .. Len(s) : s[i] = x}
Occurrences(s, x) == Cardinality(PlacesOf(s, x))

\* A shift of positions keeps their number.
LEMMA ShiftCounts ==
  ASSUME NEW S \in SUBSET Int, NEW T \in SUBSET Int, NEW k \in Int, IsFiniteSet(S),
         \A i \in S : i + k \in T, \A j \in T : j - k \in S
  PROVE  IsFiniteSet(T) /\ Cardinality(T) = Cardinality(S)
<1> DEFINE f == [i \in S |-> i + k]
<1>1. f \in Bijection(S, T)
  <2>1. f \in [S -> T]
    OBVIOUS
  <2>2. \A a, b \in S : f[a] = f[b] => a = b
    OBVIOUS
  <2>3. \A t \in T : \E s \in S : f[s] = t
    <3>1. \A t \in T : t - k \in S /\ f[t - k] = t
      OBVIOUS
    <3>. QED BY <3>1
  <2>. QED BY <2>1, <2>2, <2>3, Fun_IsBij
<1>2. ExistsBijection(S, T)
  BY <1>1 DEF ExistsBijection
<1>. QED BY <1>2, FS_Bijection

LEMMA PlacesFinite ==
  ASSUME NEW S, NEW s \in Seq(S), NEW x
  PROVE  /\ IsFiniteSet(PlacesOf(s, x)) /\ PlacesOf(s, x) \subseteq 1 .. Len(s)
         /\ Occurrences(s, x) \in Nat
<1>1. IsFiniteSet(1 .. Len(s))
  BY FS_Interval
<1>. QED BY <1>1, FS_Subset, FS_CardinalityType DEF PlacesOf, Occurrences

\* Nothing occurs in an empty sequence.
LEMMA NoneInEmpty == ASSUME NEW x PROVE Occurrences(<<>>, x) = 0
BY FS_EmptySet DEF Occurrences, PlacesOf

\* And what does not occur is nowhere.
LEMMA NoneIsNowhere ==
  ASSUME NEW S, NEW s \in Seq(S), NEW x
  PROVE  Occurrences(s, x) = 0 <=> \A i \in 1 .. Len(s) : s[i] # x
<1>1. IsFiniteSet(PlacesOf(s, x))
  BY PlacesFinite
<1>2. Cardinality(PlacesOf(s, x)) = 0 <=> PlacesOf(s, x) = {}
  BY <1>1, FS_EmptySet
<1>. QED BY <1>2 DEF Occurrences, PlacesOf

\* One more in, one more counted.
LEMMA AppendCounts ==
  ASSUME NEW S, NEW s \in Seq(S), NEW e \in S, NEW x
  PROVE  Occurrences(Append(s, e), x) = Occurrences(s, x) + (IF e = x THEN 1 ELSE 0)
<1>1. PlacesOf(Append(s, e), x) =
        IF e = x THEN PlacesOf(s, x) \union {Len(s) + 1} ELSE PlacesOf(s, x)
  BY AppendProperties DEF PlacesOf
<1>2. Len(s) + 1 \notin PlacesOf(s, x)
  BY DEF PlacesOf
<1>3. IsFiniteSet(PlacesOf(s, x)) /\ Cardinality(PlacesOf(s, x)) \in Nat
  BY PlacesFinite DEF Occurrences
<1>4. Cardinality(PlacesOf(s, x) \union {Len(s) + 1}) = Cardinality(PlacesOf(s, x)) + 1
  BY <1>2, <1>3, FS_AddElement
<1>. QED BY <1>1, <1>3, <1>4 DEF Occurrences

\* What two halves count is what the whole does.
LEMMA CutCounts ==
  ASSUME NEW S, NEW s \in Seq(S), NEW k \in 0 .. Len(s), NEW x
  PROVE  Occurrences(s, x) =
           Cardinality({i \in 1 .. k : s[i] = x}) + Occurrences(SubSeq(s, k + 1, Len(s)), x)
<1> DEFINE front == {i \in 1 .. k : s[i] = x}
           back  == {i \in k + 1 .. Len(s) : s[i] = x}
           rest  == SubSeq(s, k + 1, Len(s))
<1>1. /\ rest \in Seq(S) /\ Len(rest) = Len(s) - k
      /\ \A i \in 1 .. Len(rest) : rest[i] = s[i + k]
  BY SubSeqProperties, ElementOfSeq
<1>2. IsFiniteSet(front) /\ IsFiniteSet(back)
  <2>1. IsFiniteSet(1 .. k) /\ IsFiniteSet(k + 1 .. Len(s))
    BY FS_Interval
  <2>. QED BY <2>1, FS_Subset
<1>3. Cardinality(PlacesOf(rest, x)) = Cardinality(back)
  <2>1. PlacesOf(rest, x) \in SUBSET Int /\ back \in SUBSET Int /\ k \in Int
    BY DEF PlacesOf
  <2>2. \A i \in PlacesOf(rest, x) : i + k \in back
    BY <1>1 DEF PlacesOf
  <2>3. \A j \in back : j - k \in PlacesOf(rest, x)
    BY <1>1 DEF PlacesOf
  <2>4. IsFiniteSet(PlacesOf(rest, x))
    BY <1>1, PlacesFinite
  <2>. HIDE DEF back, rest
  <2>. QED BY <2>1, <2>2, <2>3, <2>4, ShiftCounts
<1>4. PlacesOf(s, x) = front \union back /\ front \intersect back = {}
  BY DEF PlacesOf
<1>5. Cardinality(front) \in Nat /\ Cardinality(back) \in Nat
  BY <1>2, FS_CardinalityType
<1>6. Cardinality(front \union back) =
        Cardinality(front) + Cardinality(back) - Cardinality(front \intersect back)
  BY <1>2, FS_Union
<1>7. Cardinality(front \intersect back) = 0
  BY <1>4, FS_EmptySet
<1> HIDE DEF front, back, rest
<1>8. Occurrences(s, x) = Cardinality(front) + Occurrences(rest, x)
  BY <1>3, <1>4, <1>5, <1>6, <1>7 DEF Occurrences
<1>. QED BY <1>8 DEF front, rest

\* One out, one less counted.
LEMMA TailCounts ==
  ASSUME NEW S, NEW s \in Seq(S), s # <<>>, NEW x
  PROVE  Occurrences(s, x) = Occurrences(Tail(s), x) + (IF Head(s) = x THEN 1 ELSE 0)
<1>1. Tail(s) = SubSeq(s, 2, Len(s)) /\ Len(s) >= 1 /\ Head(s) = s[1]
  BY TailIsSubSeq
<1>2. Occurrences(s, x) =
        Cardinality({i \in 1 .. 1 : s[i] = x}) + Occurrences(SubSeq(s, 1 + 1, Len(s)), x)
  BY <1>1, CutCounts
<1>3. {i \in 1 .. 1 : s[i] = x} = IF Head(s) = x THEN {1} ELSE {}
  BY <1>1
<1>4. Occurrences(Tail(s), x) \in Nat
  BY PlacesFinite, HeadTailProperties
<1>5. Cardinality({1}) = 1 /\ Cardinality({}) = 0
  BY FS_EmptySet, FS_Singleton
<1>6. Cardinality({i \in 1 .. 1 : s[i] = x}) = IF Head(s) = x THEN 1 ELSE 0
  BY <1>3, <1>5
<1>7. SubSeq(s, 1 + 1, Len(s)) = Tail(s)
  BY <1>1
<1> DEFINE first == Cardinality({i \in 1 .. 1 : s[i] = x})
           tail  == Occurrences(Tail(s), x)
<1>8. Occurrences(s, x) = first + tail
  BY <1>2, <1>7
<1>9. first = IF Head(s) = x THEN 1 ELSE 0
  BY <1>6
<1> HIDE DEF first
<1>10. Occurrences(s, x) = tail + first
  BY <1>4, <1>8, <1>9
<1>. QED BY <1>9, <1>10

-----------------------------------------------------------------------------

-----------------------------------------------------------------------------
(***************************************************************************)
(* The line for a permit.                                                   *)
(***************************************************************************)

\* Who leaves the line leaves the others in it, in their order.
LEMMA WithoutLeaves ==
  ASSUME line \in Seq(Requests), Lined, NEW r \in Requests, at[r] = "permit"
  PROVE  /\ Without(r) \in Seq(Requests) /\ Len(Without(r)) = Len(line) - 1
         /\ \A s \in Requests : (\E i \in 1 .. Len(Without(r)) : Without(r)[i] = s)
                                  <=> s # r /\ \E i \in Places : line[i] = s
         /\ \A i, j \in 1 .. Len(Without(r)) : Without(r)[i] = Without(r)[j] => i = j
<1> DEFINE i == CHOOSE j \in 1 .. Len(line) : line[j] = r
           n == Len(line)
           w == [j \in 1 .. n - 1 |-> IF j < i THEN line[j] ELSE line[j + 1]]
<1>1. i \in 1 .. n /\ line[i] = r /\ n \in Nat
  BY DEF Lined, Places
<1>2. \A j \in 1 .. n : line[j] \in Requests
  BY ElementOfSeq
<1>3. Without(r) = w
  BY DEF Without
<1>4. \A j, k \in 1 .. n : line[j] = line[k] => j = k
  BY DEF Lined, Places
<1> HIDE DEF i, n
<1>5. n - 1 \in Nat /\ w \in [1 .. n - 1 -> Requests]
  BY <1>1, <1>2
<1>6. w \in Seq(Requests) /\ Len(w) = n - 1
  BY <1>5
<1>7. \A s \in Requests :
        (\E j \in 1 .. n - 1 : w[j] = s) <=> s # r /\ \E j \in 1 .. n : line[j] = s
  <2> SUFFICES ASSUME NEW s \in Requests
               PROVE  (\E j \in 1 .. n - 1 : w[j] = s) <=> s # r /\ \E j \in 1 .. n : line[j] = s
    OBVIOUS
  <2>1. ASSUME NEW j \in 1 .. n - 1, w[j] = s
        PROVE  s # r /\ \E k \in 1 .. n : line[k] = s
    <3>1. CASE j < i
      BY <1>1, <1>4, <2>1, <3>1
    <3>2. CASE ~(j < i)
      BY <1>1, <1>4, <2>1, <3>2
    <3>. QED BY <3>1, <3>2
  <2>2. ASSUME s # r, NEW j \in 1 .. n, line[j] = s
        PROVE  \E k \in 1 .. n - 1 : w[k] = s
    <3>1. CASE j < i
      <4>1. j \in 1 .. n - 1 /\ w[j] = s
        BY <1>1, <2>2, <3>1
      <4>. QED BY <4>1
    <3>2. CASE j > i
      <4>1. j - 1 \in 1 .. n - 1 /\ w[j - 1] = s
        BY <1>1, <2>2, <3>2
      <4>. QED BY <4>1
    <3>. QED BY <1>1, <2>2, <3>1, <3>2
  <2>. QED BY <2>1, <2>2
<1>8. \A j, k \in 1 .. n - 1 : w[j] = w[k] => j = k
  BY <1>1, <1>4
<1>9. n = Len(line) /\ Places = 1 .. n
  BY DEF n, Places
<1> HIDE DEF w
<1>. QED BY <1>3, <1>6, <1>7, <1>8, <1>9

\* Only these steps move the line.
LEMMA LineKept ==
  ASSUME TypeOK, Lined, [Next]_vars
  PROVE  line' \in Seq(Requests) /\ Lined'
<1> USE DEF Places
<1>t. line \in Seq(Requests) /\ at \in [Requests -> {"idle", "permit", "granted", "send",
        "reply", "answered", "timeout", "disconnected", "cancelled"}]
  BY DEF TypeOK
<1>1. ASSUME NEW r \in Requests, Calls(r)
      PROVE  line' \in Seq(Requests) /\ Lined'
  <2>1. /\ at[r] = "idle" /\ at' = [at EXCEPT ![r] = "permit"] /\ line' = Append(line, r)
    BY <1>1 DEF Calls, Goes
  <2>2. /\ line' \in Seq(Requests) /\ Len(line') = Len(line) + 1 /\ line'[Len(line) + 1] = r
        /\ \A i \in 1 .. Len(line) : line'[i] = line[i]
    BY <1>t, <2>1, AppendProperties
  <2>3. \A i \in 1 .. Len(line) : line[i] # r
    BY <2>1 DEF Lined
  <2>. QED BY <1>t, <2>1, <2>2, <2>3 DEF Lined
<1>2. ASSUME NEW r \in Requests, Granted(r)
      PROVE  line' \in Seq(Requests) /\ Lined'
  <2>1. /\ at[r] = "permit" /\ Head(line) = r
        /\ at' = [at EXCEPT ![r] = "granted"] /\ line' = Tail(line)
    BY <1>2 DEF Granted, Goes
  <2>2. line # <<>> /\ Len(line) \in Nat /\ line[1] = r
    BY <1>t, <2>1 DEF Lined
  <2>3. /\ line' \in Seq(Requests) /\ Len(line') = Len(line) - 1
        /\ \A i \in 1 .. Len(line) - 1 : line'[i] = line[i + 1]
    BY <1>t, <2>1, <2>2, HeadTailProperties
  <2>4. \A s \in Requests : at'[s] = "permit" => \E i \in 1 .. Len(line') : line'[i] = s
    <3> SUFFICES ASSUME NEW s \in Requests, at'[s] = "permit"
                 PROVE  \E i \in 1 .. Len(line') : line'[i] = s
      OBVIOUS
    <3>1. s # r /\ at[s] = "permit"
      BY <1>t, <2>1
    <3>2. PICK i \in 1 .. Len(line) : line[i] = s
      BY <3>1 DEF Lined
    <3>3. i - 1 \in 1 .. Len(line') /\ line'[i - 1] = s
      BY <2>2, <2>3, <3>1, <3>2
    <3>. QED BY <3>3
  <2>5. \A i \in 1 .. Len(line') : at'[line'[i]] = "permit"
    <3> SUFFICES ASSUME NEW i \in 1 .. Len(line') PROVE at'[line'[i]] = "permit"
      OBVIOUS
    <3>1. line'[i] = line[i + 1] /\ i + 1 \in 1 .. Len(line) /\ i + 1 # 1
      BY <2>2, <2>3
    <3>2. line[i + 1] # r /\ line[i + 1] \in Requests
      BY <1>t, <2>2, <3>1, ElementOfSeq DEF Lined
    <3>3. at[line[i + 1]] = "permit"
      BY <3>1, <3>2 DEF Lined
    <3>. QED BY <1>t, <2>1, <3>1, <3>2, <3>3
  <2>6. \A i, j \in 1 .. Len(line') : line'[i] = line'[j] => i = j
    BY <2>2, <2>3 DEF Lined
  <2>. QED BY <2>3, <2>4, <2>5, <2>6 DEF Lined
<1>3. ASSUME NEW r \in Requests, Cancelled(r)
      PROVE  line' \in Seq(Requests) /\ Lined'
  <2>1. /\ at' = [at EXCEPT ![r] = "cancelled"] /\ at[r] \in {"permit", "send", "reply"}
        /\ line' = IF at[r] = "permit" THEN Without(r) ELSE line
    BY <1>3 DEF Cancelled, Ends, Goes
  <2>2. CASE at[r] = "permit"
    <3> DEFINE w == Without(r)
    <3>1. /\ w \in Seq(Requests)
          /\ \A s \in Requests : (\E i \in 1 .. Len(w) : w[i] = s)
                                  <=> s # r /\ \E i \in 1 .. Len(line) : line[i] = s
          /\ \A i, j \in 1 .. Len(w) : w[i] = w[j] => i = j
      BY <1>t, <2>2, WithoutLeaves
    <3>2. line' = w
      BY <2>1, <2>2
    <3> HIDE DEF w
    <3>3. \A s \in Requests : at'[s] = "permit" <=> s # r /\ at[s] = "permit"
      BY <1>t, <2>1
    <3>4. \A s \in Requests : at[s] = "permit" <=> \E i \in 1 .. Len(line) : line[i] = s
      BY DEF Lined
    <3>. QED BY <3>1, <3>2, <3>3, <3>4 DEF Lined
  <2>3. CASE at[r] # "permit"
    BY <1>t, <2>1, <2>3 DEF Lined
  <2>. QED BY <2>2, <2>3
<1>4. ASSUME UNCHANGED line, \A r \in Requests : at'[r] = "permit" <=> at[r] = "permit"
      PROVE  line' \in Seq(Requests) /\ Lined'
  BY <1>4, <1>t DEF Lined
<1>5. ASSUME NEW r \in Requests,
             \/ CallsDown(r) \/ Registers(r) \/ FindsQueue(r) \/ Enqueues(r)
             \/ EnqueueFails(r) \/ Answered(r) \/ TimesOut(r)
      PROVE  line' \in Seq(Requests) /\ Lined'
  <2>1. UNCHANGED line
    BY <1>5 DEF CallsDown, Registers, FindsQueue, Enqueues, EnqueueFails, Answered, TimesOut,
                calls
  <2>2. \/ UNCHANGED at
        \/ /\ at[r] # "permit"
           /\ \E to \in {"granted", "send", "reply", "answered", "timeout", "disconnected"} :
                at' = [at EXCEPT ![r] = to]
    BY <1>5 DEF CallsDown, Registers, FindsQueue, Enqueues, EnqueueFails, Answered, TimesOut,
                calls, Ends, Goes
  <2>. QED BY <1>4, <1>t, <2>1, <2>2
<1>6. CASE \/ \E k \in Keys : Writes(k) \/ DevicePushes(k)
           \/ Sends \/ DeviceReads \/ Folds \/ Loses \/ EndLife \/ Returns
           \/ UNCHANGED vars
  BY <1>4, <1>6 DEF Writes, DevicePushes, Sends, DeviceReads, Folds, Loses, EndLife, Returns,
                    vars, calls
<1>. QED BY <1>1, <1>2, <1>3, <1>5, <1>6 DEF Next, Steps

-----------------------------------------------------------------------------
(***************************************************************************)
(* The writes on their way.                                                 *)
(***************************************************************************)

LEMMA CountsOnTheWay ==
  ASSUME NEW k PROVE OnTheWay(k) = Occurrences(queue, k) + Occurrences(inbox, k)
BY DEF OnTheWay, Occurrences, PlacesOf

\* What moves the queues: a command comes in, goes out on the wire, is read by
\* the device, or is lost with the life.
Moves ==
  \/ UNCHANGED <<queue, inbox, dev, written>>
  \/ /\ UNCHANGED <<inbox, dev, written>> /\ life.is = "up" /\ Len(queue) < QueueSize
     /\ \E r \in Requests : queue' = Append(queue, r)
  \/ /\ UNCHANGED <<inbox, dev>> /\ life.is = "up" /\ Len(queue) < QueueSize
     /\ \E k \in Keys : /\ written[k] < MaxWrites /\ queue' = Append(queue, k)
                        /\ written' = [written EXCEPT ![k] = @ + 1]
  \/ /\ queue # <<>> /\ queue' = Tail(queue) /\ inbox' = Append(inbox, Head(queue))
     /\ life.is = "up" /\ UNCHANGED <<dev, written>>
  \/ /\ inbox # <<>> /\ inbox' = Tail(inbox) /\ UNCHANGED <<queue, written>>
     /\ dev' = IF Head(inbox) \in Keys THEN [dev EXCEPT ![Head(inbox)] = @ + 1] ELSE dev
  \/ queue' = <<>> /\ inbox' = <<>> /\ UNCHANGED <<dev, written>>
  \/ life.is # "up" /\ written' = dev /\ UNCHANGED <<queue, inbox, dev>>

\* Who says whether the stream is up.
LifeMoves ==
  \/ UNCHANGED life
  \/ life.is = "up" /\ life' = [life EXCEPT !.is = "ending"] /\ queue' = <<>> /\ inbox' = <<>>
  \/ life.is = "ending" /\ life' = [life EXCEPT !.is = "down"] /\ UNCHANGED <<queue, inbox>>
  \/ /\ life.is = "down" /\ life.epoch < MaxLives
     /\ life' = [epoch |-> life.epoch + 1, is |-> "up"] /\ UNCHANGED <<queue, inbox>>

LEMMA NextMoves ==
  ASSUME TypeOK, Next PROVE Moves /\ LifeMoves
<1>1. ASSUME NEW r \in Requests, Calls(r) \/ CallsDown(r) \/ Steps(r) \/ Cancelled(r)
      PROVE  Moves /\ LifeMoves
  BY <1>1 DEF Calls, CallsDown, Steps, Cancelled, Granted, Registers, FindsQueue, Enqueues,
              EnqueueFails, Answered, TimesOut, HasRoom, QueueLives, device, calls,
              Moves, LifeMoves
<1>2. ASSUME NEW k \in Keys, Writes(k) \/ DevicePushes(k)
      PROVE  Moves /\ LifeMoves
  BY <1>2 DEF Writes, DevicePushes, HasRoom, device, Moves, LifeMoves
<1>3. CASE Sends \/ Folds
  BY <1>3 DEF Sends, Folds, Moves, LifeMoves
<1>4. CASE DeviceReads
  BY <1>4 DEF DeviceReads, Moves, LifeMoves
<1>5. CASE Loses \/ EndLife \/ Returns
  BY <1>5 DEF Loses, EndLife, Returns, device, kept, Moves, LifeMoves
<1>. QED BY <1>1, <1>2, <1>3, <1>4, <1>5 DEF Next

\* No write is counted twice, and none applied that was not made.
LEMMA AccountsKept ==
  ASSUME TypeOK, Accounted, Moves, LifeMoves
  PROVE  Accounted'
<1> DEFINE q(k) == Occurrences(queue, k)
           i(k) == Occurrences(inbox, k)
           C == Requests \union Keys
<1>t. /\ queue \in Seq(C) /\ inbox \in Seq(C)
      /\ dev \in [Keys -> Nat] /\ written \in [Keys -> Nat]
      /\ \A r \in Requests : r \notin Keys
  BY RequestsAssumption DEF TypeOK, Values
<1>u. /\ \A e \in C, x \in Keys :
           Occurrences(Append(queue, e), x) = Occurrences(queue, x) + (IF e = x THEN 1 ELSE 0)
      /\ \A e \in C, x \in Keys :
           Occurrences(Append(inbox, e), x) = Occurrences(inbox, x) + (IF e = x THEN 1 ELSE 0)
  <2>1. queue \in Seq(C) /\ inbox \in Seq(C)
    BY <1>t
  <2> HIDE DEF C, q, i
  <2>. QED BY ONLY <2>1, AppendCounts
<1>1. \A k \in Keys : q(k) \in Nat /\ i(k) \in Nat
  BY <1>t, PlacesFinite
<1>2. \A k \in Keys : OnTheWay(k) = q(k) + i(k) /\ OnTheWay(k)' = q(k)' + i(k)'
  BY CountsOnTheWay DEF OnTheWay, Occurrences, PlacesOf
<1>3. life.is # "up" => queue = <<>> /\ inbox = <<>>
  BY DEF Accounted
<1>4. (life.is # "up" => queue = <<>> /\ inbox = <<>>)'
  BY <1>3 DEF Moves, LifeMoves
<1>5. ASSUME NEW k \in Keys
      PROVE  dev'[k] + q(k)' + i(k)' <= written'[k]
  <2>1. dev[k] + q(k) + i(k) <= written[k]
    BY <1>1, <1>2, <1>t DEF Accounted
  <2>2. q(k) \in Nat /\ i(k) \in Nat /\ dev[k] \in Nat /\ written[k] \in Nat
    BY <1>1, <1>t
  <2>3. CASE UNCHANGED <<queue, inbox, dev, written>>
    BY <2>1, <2>3
  <2>4. ASSUME UNCHANGED <<inbox, dev, written>>, NEW r \in Requests, queue' = Append(queue, r)
        PROVE  dev'[k] + q(k)' + i(k)' <= written'[k]
    <3>1. r \in C /\ r # k
      BY <1>t
    <3>2. Occurrences(Append(queue, r), k) = q(k)
      BY <1>u, <2>2, <3>1
    <3>3. q(k)' = q(k)
      BY <2>4, <3>2
    <3>. QED BY <2>1, <2>4, <3>3
  <2>5. ASSUME UNCHANGED <<inbox, dev>>, NEW j \in Keys, queue' = Append(queue, j),
               written' = [written EXCEPT ![j] = @ + 1]
        PROVE  dev'[k] + q(k)' + i(k)' <= written'[k]
    <3>1. q(k)' = q(k) + IF j = k THEN 1 ELSE 0
      <4>1. j \in C
        OBVIOUS
      <4>2. Occurrences(Append(queue, j), k) = q(k) + IF j = k THEN 1 ELSE 0
        BY <1>u, <4>1
      <4>. QED BY <2>5, <4>2
    <3>2. i(k)' = i(k)
      BY <2>5
    <3>3. written'[k] = written[k] + IF j = k THEN 1 ELSE 0
      BY <1>t, <2>5
    <3> HIDE DEF q, i
    <3>. QED BY <2>1, <2>2, <2>5, <3>1, <3>2, <3>3
  <2>6. CASE /\ queue # <<>> /\ queue' = Tail(queue) /\ inbox' = Append(inbox, Head(queue))
             /\ UNCHANGED <<dev, written>>
    <3>1. Head(queue) \in C /\ Tail(queue) \in Seq(C)
      BY <1>t, <2>6, HeadTailProperties
    <3>2. q(k) = q(k)' + IF Head(queue) = k THEN 1 ELSE 0
      BY <1>t, <2>6, TailCounts
    <3>3. i(k)' = i(k) + IF Head(queue) = k THEN 1 ELSE 0
      BY <1>u, <2>6, <3>1
    <3>4. q(k)' \in Nat
      BY <2>6, <3>1, PlacesFinite
    <3> HIDE DEF q, i
    <3>. QED BY <2>1, <2>2, <2>6, <3>2, <3>3, <3>4
  <2>7. CASE /\ inbox # <<>> /\ inbox' = Tail(inbox) /\ UNCHANGED <<queue, written>>
             /\ dev' = IF Head(inbox) \in Keys THEN [dev EXCEPT ![Head(inbox)] = @ + 1] ELSE dev
    <3>1. Tail(inbox) \in Seq(C)
      BY <1>t, <2>7, HeadTailProperties
    <3>2. i(k) = i(k)' + IF Head(inbox) = k THEN 1 ELSE 0
      BY <1>t, <2>7, TailCounts
    <3>3. dev'[k] = dev[k] + IF Head(inbox) = k THEN 1 ELSE 0
      BY <1>t, <2>7
    <3>4. i(k)' \in Nat
      BY <2>7, <3>1, PlacesFinite
    <3>5. q(k)' = q(k)
      BY <2>7
    <3> HIDE DEF q, i
    <3>. QED BY <2>1, <2>2, <2>7, <3>2, <3>3, <3>4, <3>5
  <2>8. CASE queue' = <<>> /\ inbox' = <<>> /\ UNCHANGED <<dev, written>>
    <3>1. q(k)' = 0 /\ i(k)' = 0
      BY <2>8, NoneInEmpty
    <3> HIDE DEF q, i
    <3>. QED BY <2>1, <2>2, <2>8, <3>1
  <2>9. CASE life.is # "up" /\ written' = dev /\ UNCHANGED <<queue, inbox, dev>>
    <3>1. queue' = <<>> /\ inbox' = <<>>
      BY <1>3, <2>9
    <3>2. q(k)' = 0 /\ i(k)' = 0
      BY <3>1, NoneInEmpty
    <3> HIDE DEF q, i
    <3>. QED BY <2>2, <2>9, <3>2
  <2>. QED BY <2>3, <2>4, <2>5, <2>6, <2>7, <2>8, <2>9 DEF Moves
<1>6. \A k \in Keys : dev'[k] \in Nat /\ q(k)' \in Nat /\ i(k)' \in Nat
  <2>1. dev' \in [Keys -> Nat]
    BY <1>t DEF Moves
  <2>2. queue' \in Seq(C) /\ inbox' \in Seq(C)
    <3>1. queue # <<>> => Head(queue) \in C /\ Tail(queue) \in Seq(C)
      BY <1>t, HeadTailProperties
    <3>2. inbox # <<>> => Tail(inbox) \in Seq(C)
      BY <1>t, HeadTailProperties
    <3>3. \A x \in C : Append(queue, x) \in Seq(C) /\ Append(inbox, x) \in Seq(C)
      BY <1>t, AppendProperties
    <3>4. <<>> \in Seq(C)
      BY EmptySeq
    <3>. QED BY <1>t, <3>1, <3>2, <3>3, <3>4 DEF Moves
  <2>. QED BY <2>1, <2>2, PlacesFinite
<1> HIDE DEF q, i
<1>. QED BY <1>2, <1>4, <1>5, <1>6 DEF Accounted

-----------------------------------------------------------------------------
(***************************************************************************)
(* The types.                                                               *)
(***************************************************************************)

\* What the device applies was written, so that it is counted within bounds.
LEMMA AppliedInBounds ==
  ASSUME TypeOK, Accounted, DeviceReads
  PROVE  dev' \in [Keys -> Values]
<1> DEFINE c == Head(inbox)
           C == Requests \union Keys
<1>1. inbox \in Seq(C) /\ inbox # <<>> /\ queue \in Seq(C) /\ dev \in [Keys -> Values]
  BY DEF TypeOK, DeviceReads
<1>2. CASE c \in Keys
  <2>1. Occurrences(inbox, c) = Occurrences(Tail(inbox), c) + 1
    BY <1>1, TailCounts
  <2>2. Occurrences(Tail(inbox), c) \in Nat /\ Occurrences(queue, c) \in Nat
    BY <1>1, HeadTailProperties, PlacesFinite
  <2>3. dev[c] + (Occurrences(queue, c) + Occurrences(inbox, c)) <= written[c]
    BY <1>2, CountsOnTheWay DEF Accounted
  <2>4. dev[c] \in Nat /\ written[c] \in 0 .. MaxWrites /\ MaxWrites \in Nat
    BY <1>2, RequestsAssumption DEF TypeOK, Values
  <2>5. dev[c] + 1 \in Values
    BY <2>1, <2>2, <2>3, <2>4 DEF Values
  <2>6. dev' = [dev EXCEPT ![c] = @ + 1]
    BY <1>2 DEF DeviceReads
  <2>. QED BY <1>1, <2>5, <2>6
<1>3. CASE c \notin Keys
  BY <1>1, <1>3 DEF DeviceReads
<1>. QED BY <1>2, <1>3

LEMMA TypesKept ==
  ASSUME TypeOK, Lined, Accounted, [Next]_vars
  PROVE  TypeOK'
<1> DEFINE C == Requests \union Keys
<1>l. line' \in Seq(Requests)
  BY LineKept
<1>v. /\ \A k \in Keys : Now(k) \in Said
      /\ \A r \in Requests : Key[r] \in Keys
      /\ 0 \in Values
  BY RequestsAssumption DEF TypeOK, Now, Said, Values
<1>1. ASSUME NEW r \in Requests, Calls(r) \/ CallsDown(r) PROVE TypeOK'
  <2>1. written[Key[r]] \in Values
    BY <1>v DEF TypeOK
  <2>2. /\ at' \in [Requests -> {"idle", "permit", "granted", "send", "reply",
                                "answered", "timeout", "disconnected", "cancelled"}]
        /\ behind' \in [Requests -> Values]
    BY <1>1, <2>1 DEF Calls, CallsDown, Goes, TypeOK, kept
  <2>3. UNCHANGED <<slot, pending, life, queue, device, via, heard, written>>
    BY <1>1 DEF Calls, CallsDown, kept
  <2>. QED BY <1>l, <2>2, <2>3 DEF TypeOK, device
<1>2. ASSUME NEW r \in Requests, Granted(r) \/ Registers(r) \/ FindsQueue(r) PROVE TypeOK'
  BY <1>2, <1>l DEF Granted, Registers, FindsQueue, Goes, TypeOK, device, kept, calls
<1>3. ASSUME NEW r \in Requests, Enqueues(r) PROVE TypeOK'
  <2>1. Append(queue, r) \in Seq(C) /\ Len(Append(queue, r)) <= QueueSize
    BY <1>3, AppendProperties, RequestsAssumption DEF TypeOK, Enqueues, HasRoom
  <2>. QED BY <1>3, <1>l, <2>1 DEF Enqueues, Goes, TypeOK, device, kept
<1>4. ASSUME NEW r \in Requests, EnqueueFails(r) \/ Answered(r) \/ TimesOut(r) \/ Cancelled(r)
      PROVE  TypeOK'
  <2>1. /\ \E to \in {"answered", "timeout", "disconnected", "cancelled"} : Ends(r, to)
        /\ pending' \subseteq pending
        /\ UNCHANGED <<life, queue, device, written>>
    BY <1>4 DEF EnqueueFails, Answered, TimesOut, Cancelled, Unregister
  <2>. QED BY <1>l, <1>v, <2>1 DEF Ends, Goes, TypeOK, device
<1>5. ASSUME NEW k \in Keys, Writes(k) PROVE TypeOK'
  <2>1. Append(queue, k) \in Seq(C) /\ Len(Append(queue, k)) <= QueueSize
    BY <1>5, AppendProperties, RequestsAssumption DEF TypeOK, Writes, HasRoom
  <2>2. written' \in [Keys -> Values]
    BY <1>5, RequestsAssumption DEF Writes, TypeOK, Values
  <2>. QED BY <1>5, <1>l, <2>1, <2>2 DEF Writes, TypeOK, device, kept, calls
<1>6. ASSUME NEW k \in Keys, DevicePushes(k) PROVE TypeOK'
  <2>1. Append(stream, Now(k)) \in Seq(Said) /\ Append(aside, Now(k)) \in Seq(Said)
    BY <1>v, AppendProperties DEF TypeOK
  <2>2. pushes' \in 0 .. MaxPushes
    BY <1>6, RequestsAssumption DEF DevicePushes, TypeOK
  <2>. QED BY <1>6, <1>l, <2>1, <2>2 DEF DevicePushes, TypeOK, kept, calls
<1>7. CASE Sends
  <2>1. /\ Head(queue) \in C /\ Tail(queue) \in Seq(C)
        /\ Len(Tail(queue)) <= QueueSize
    BY <1>7, HeadTailProperties, RequestsAssumption DEF Sends, TypeOK
  <2>2. Append(inbox, Head(queue)) \in Seq(C)
    BY <2>1, AppendProperties DEF TypeOK
  <2>. QED BY <1>7, <1>l, <2>1, <2>2 DEF Sends, TypeOK, kept, calls
<1>8. CASE DeviceReads
  <2>1. Head(inbox) \in C /\ Tail(inbox) \in Seq(C)
    BY <1>8, HeadTailProperties DEF DeviceReads, TypeOK
  <2>2. stream' \in Seq(Said)
    <3>1. CASE Head(inbox) \in Keys
      BY <1>8, <3>1 DEF DeviceReads, TypeOK
    <3>2. CASE Head(inbox) \notin Keys
      <4>1. Now(Key[Head(inbox)]) \in Said
        BY <1>v, <2>1, <3>2
      <4>2. Append(stream, Now(Key[Head(inbox)])) \in Seq(Said)
        BY <4>1, AppendProperties DEF TypeOK
      <4>. QED BY <1>8, <3>2, <4>2 DEF DeviceReads, TypeOK
    <3>. QED BY <3>1, <3>2
  <2>3. dev' \in [Keys -> Values]
    BY <1>8, AppliedInBounds
  <2>. QED BY <1>8, <1>l, <2>1, <2>2, <2>3 DEF DeviceReads, TypeOK, kept, calls
<1>9. CASE Folds
  <2>t. \A s \in Seq(Said) : s # <<>> => Head(s) \in Said /\ Tail(s) \in Seq(Said)
    BY HeadTailProperties
  <2>s. stream \in Seq(Said) /\ aside \in Seq(Said)
    BY DEF TypeOK
  <2>1. PICK s \in Said : Settles(s)
    <3>1. \/ stream # <<>> /\ Settles(Head(stream))
          \/ aside # <<>> /\ Settles(Head(aside))
      BY <1>9 DEF Folds
    <3>. QED BY <2>t, <2>s, <3>1
  <2>2. /\ stream' \in Seq(Said) /\ aside' \in Seq(Said)
        /\ UNCHANGED <<at, line, life, queue, inbox, dev, pushes, via, behind, written>>
    <3>1. /\ \/ stream # <<>> /\ stream' = Tail(stream) /\ aside' = aside
             \/ aside # <<>> /\ aside' = Tail(aside) /\ stream' = stream
          /\ UNCHANGED <<at, line, life, queue, inbox, dev, pushes, via, behind, written>>
      BY <1>9 DEF Folds
    <3>. QED BY <2>t, <2>s, <3>1
  <2>3. /\ pending' \subseteq pending
        /\ slot' \in [Requests -> {Empty, Closed} \union [is : {"value"}, value : Values]]
        /\ heard' \in [Requests -> Lives \union {0}]
    BY <2>1 DEF Settles, Told, TypeOK, Said
  <2>. QED BY <2>2, <2>3 DEF TypeOK
<1>10. CASE Loses
  <2>1. /\ <<>> \in Seq(C) /\ <<>> \in Seq(Said)
        /\ Len(<<>>) = 0 /\ 0 <= QueueSize
    BY EmptySeq, RequestsAssumption
  <2>2. life' \in [epoch : Lives, is : {"up", "ending", "down"}]
    BY <1>10 DEF Loses, TypeOK
  <2>3. /\ queue' = <<>> /\ inbox' = <<>> /\ stream' = <<>> /\ aside' = <<>>
        /\ UNCHANGED <<calls, dev, pushes, kept, written>>
    BY <1>10 DEF Loses
  <2>4. /\ queue' \in Seq(C) /\ inbox' \in Seq(C) /\ stream' \in Seq(Said)
        /\ aside' \in Seq(Said) /\ Len(queue') <= QueueSize
    BY <2>1, <2>3
  <2>. QED BY <1>l, <2>2, <2>3, <2>4 DEF TypeOK, kept, calls
<1>11. CASE EndLife
  BY <1>11, <1>l, <1>v DEF EndLife, FailPending, Told, TypeOK, device, kept
<1>12. CASE Returns
  <2>1. life.epoch + 1 \in Lives
    BY <1>12, RequestsAssumption DEF Returns, TypeOK, Lives
  <2>. QED BY <1>12, <1>l, <2>1 DEF Returns, TypeOK, device, kept, calls
<1>13. CASE UNCHANGED vars
  BY <1>13 DEF vars, device, kept, calls, TypeOK
<1>. QED BY <1>1, <1>2, <1>3, <1>4, <1>5, <1>6, <1>7, <1>8, <1>9, <1>10, <1>11, <1>12, <1>13
         DEF Next, Steps

-----------------------------------------------------------------------------
(***************************************************************************)
(* The slots and the entries.                                               *)
(***************************************************************************)

Slots == EntriesOwned /\ NobodyForgotten /\ TakenByThisLife /\ ToldByOwnLife

\* A call goes on, or ends: nobody else is disturbed.
LEMMA CallsKeepSlots ==
  ASSUME TypeOK, Slots, NEW r \in Requests,
         Calls(r) \/ CallsDown(r) \/ Steps(r) \/ Cancelled(r)
  PROVE  Slots'
<1>t. /\ DOMAIN at = Requests /\ pending \subseteq Requests
      /\ DOMAIN slot = Requests /\ DOMAIN via = Requests /\ DOMAIN heard = Requests
      /\ life.epoch \in Nat \ {0}
  BY DEF TypeOK, Lives
<1>e. Empty.is = "empty" /\ Closed.is = "closed"
  BY DEF Empty, Closed
<1>1. ASSUME NEW to, at' = [at EXCEPT ![r] = to], ~Waiting(r), to \in {"permit", "disconnected", "granted"},
             at[r] # "cancelled", UNCHANGED <<slot, pending, life, via, heard>>
      PROVE  Slots'
  BY <1>1, <1>t DEF Slots, EntriesOwned, NobodyForgotten, TakenByThisLife, ToldByOwnLife, Waiting
<1>2. CASE Registers(r)
  <2>1. /\ at[r] = "granted" /\ at' = [at EXCEPT ![r] = "send"] /\ pending' = pending \union {r}
        /\ UNCHANGED <<slot, life, via, heard>>
    BY <1>2 DEF Registers, Goes, kept
  <2>2. slot[r] = Empty /\ via[r] = 0
    BY <2>1 DEF Slots, TakenByThisLife, ToldByOwnLife, Waiting
  <2>. QED BY <1>t, <1>e, <2>1, <2>2
         DEF Slots, EntriesOwned, NobodyForgotten, TakenByThisLife, ToldByOwnLife, Waiting
<1>3. CASE FindsQueue(r)
  <2>1. /\ at[r] = "send" /\ via[r] = 0 /\ life.is = "up" /\ via' = [via EXCEPT ![r] = life.epoch]
        /\ UNCHANGED <<at, slot, pending, life, heard>>
    BY <1>3 DEF FindsQueue, calls
  <2>. QED BY <1>t, <2>1
         DEF Slots, EntriesOwned, NobodyForgotten, TakenByThisLife, ToldByOwnLife, Waiting
<1>4. CASE Enqueues(r)
  <2>1. /\ at[r] = "send" /\ via[r] = life.epoch /\ at' = [at EXCEPT ![r] = "reply"]
        /\ UNCHANGED <<slot, pending, life, via, heard>>
    BY <1>4 DEF Enqueues, QueueLives, Goes, kept
  <2>. QED BY <1>t, <2>1
         DEF Slots, EntriesOwned, NobodyForgotten, TakenByThisLife, ToldByOwnLife, Waiting
<1>5. ASSUME NEW to \in {"answered", "timeout", "disconnected", "cancelled"}, Ends(r, to),
             UNCHANGED life,
             \/ pending' = pending \ {r}
             \/ pending' = pending /\ (to = "cancelled" \/ r \notin pending)
      PROVE  Slots'
  <2>1. /\ at' = [at EXCEPT ![r] = to] /\ slot' = [slot EXCEPT ![r] = Empty]
        /\ via' = [via EXCEPT ![r] = 0] /\ heard' = [heard EXCEPT ![r] = 0]
    BY <1>5 DEF Ends, Goes
  <2>. QED BY <1>5, <1>t, <1>e, <2>1
         DEF Slots, EntriesOwned, NobodyForgotten, TakenByThisLife, ToldByOwnLife, Waiting
<1>6. CASE Calls(r)
  BY <1>1, <1>6 DEF Calls, Goes, Waiting
<1>7. CASE CallsDown(r)
  BY <1>1, <1>7 DEF CallsDown, Goes, Waiting, kept
<1>8. CASE Granted(r)
  BY <1>1, <1>8 DEF Granted, Goes, Waiting, kept
<1>9. CASE EnqueueFails(r) \/ TimesOut(r)
  BY <1>5, <1>9 DEF EnqueueFails, TimesOut, Unregister
<1>10. CASE Answered(r)
  <2>1. r \notin pending
    BY <1>10 DEF Answered, Slots, EntriesOwned
  <2>. QED BY <1>5, <1>10, <2>1 DEF Answered
<1>11. CASE Cancelled(r)
  BY <1>5, <1>11 DEF Cancelled
<1>. QED BY <1>2, <1>3, <1>4, <1>6, <1>7, <1>8, <1>9, <1>10, <1>11 DEF Steps

\* Somebody is told a value of this life.
LEMMA FoldsKeepSlots ==
  ASSUME TypeOK, Slots, Folds
  PROVE  Slots'
<1>1. PICK s : Settles(s)
  BY DEF Folds
<1> DEFINE now == {r \in pending : Key[r] = s.key}
           said == [is |-> "value", value |-> s.value]
<1>2. /\ pending' = pending \ now /\ now \subseteq pending
      /\ slot' = [r \in Requests |-> IF r \in now /\ at[r] # "cancelled" THEN said ELSE slot[r]]
      /\ heard' = [r \in Requests |-> IF slot'[r] # slot[r] THEN life.epoch ELSE heard[r]]
      /\ life.is = "up" /\ UNCHANGED <<at, life, via>>
  BY <1>1 DEF Folds, Settles, Told
<1>3. said.is = "value" /\ said # Empty /\ Empty.is = "empty"
  BY DEF Empty
<1> HIDE DEF now, said
<1>4. EntriesOwned'
  BY <1>2 DEF Slots, EntriesOwned, TypeOK
<1>5. NobodyForgotten'
  BY <1>2, <1>3 DEF Slots, NobodyForgotten
<1>6. TakenByThisLife'
  BY <1>2, <1>3 DEF Slots, EntriesOwned, TakenByThisLife, Waiting
<1>7. ToldByOwnLife'
  BY <1>2, <1>3 DEF Slots, EntriesOwned, TakenByThisLife, ToldByOwnLife, Waiting
<1>. QED BY <1>4, <1>5, <1>6, <1>7 DEF Slots

\* The life comes to its end, and every waiter hears of it.
LEMMA LifeKeepsSlots ==
  ASSUME TypeOK, Slots, Loses \/ EndLife \/ Returns
  PROVE  Slots'
<1>t. pending \subseteq Requests /\ life \in [epoch : Nat, is : {"up", "ending", "down"}]
  BY DEF TypeOK, Lives
<1>e. Empty # Closed /\ Empty.is = "empty" /\ Closed.is = "closed"
  BY DEF Empty, Closed
<1>1. CASE Loses
  <2>1. life.is = "up" /\ life'.is = "ending" /\ life'.epoch = life.epoch
    BY <1>1, <1>t DEF Loses
  <2>2. UNCHANGED <<at, slot, pending, via, heard>>
    BY <1>1 DEF Loses, calls, kept
  <2>. QED BY <2>1, <2>2
         DEF Slots, EntriesOwned, NobodyForgotten, TakenByThisLife, ToldByOwnLife, Waiting
<1>2. CASE EndLife
  <2>1. /\ pending' = {} /\ life'.is = "down" /\ life'.epoch = life.epoch
        /\ slot' = [r \in Requests |-> IF r \in pending /\ at[r] # "cancelled" THEN Closed
                                       ELSE slot[r]]
        /\ UNCHANGED <<at, via, heard>>
    BY <1>2, <1>t DEF EndLife, FailPending, Told, kept
  <2>2. EntriesOwned'
    BY <2>1 DEF EntriesOwned
  <2>3. \A r \in Requests : Waiting(r) => slot'[r] # Empty
    BY <1>e, <2>1 DEF Slots, NobodyForgotten, Waiting
  <2>4. NobodyForgotten'
    BY <2>1, <2>3 DEF NobodyForgotten, Waiting
  <2>5. TakenByThisLife'
    BY <2>1, <2>3 DEF Slots, TakenByThisLife, Waiting
  <2>6. ToldByOwnLife'
    BY <1>e, <2>1 DEF Slots, EntriesOwned, ToldByOwnLife, Waiting
  <2>. QED BY <2>2, <2>4, <2>5, <2>6 DEF Slots
<1>3. CASE Returns
  <2>1. /\ life.is = "down" /\ \A r \in Requests : at[r] = "send" => via[r] # 0
        /\ UNCHANGED <<at, slot, pending, via, heard>>
    BY <1>3 DEF Returns, calls, kept
  <2>2. \A r \in Requests : via[r] # 0 => slot[r] # Empty
    BY <2>1 DEF Slots, TakenByThisLife
  <2>3. \A r \in Requests : Waiting(r) => via[r] # 0
    BY <2>1 DEF Slots, TakenByThisLife, Waiting
  <2>. QED BY <1>e, <2>1, <2>2, <2>3
         DEF Slots, EntriesOwned, NobodyForgotten, TakenByThisLife, ToldByOwnLife, Waiting
<1>. QED BY <1>1, <1>2, <1>3

-----------------------------------------------------------------------------
(***************************************************************************)
(* The theorems.                                                            *)
(***************************************************************************)

LEMMA InitIInv == Init => IInv
<1> SUFFICES ASSUME Init PROVE IInv
  OBVIOUS
<1>1. \A S : <<>> \in Seq(S)
  BY EmptySeq
<1>2. TypeOK
  <2>1. /\ 0 \in Values /\ 1 \in Lives /\ 0 \in 0 .. MaxPushes /\ 0 <= QueueSize
        /\ Len(<<>>) = 0
    BY RequestsAssumption DEF Values, Lives
  <2>. QED BY <1>1, <2>1 DEF Init, TypeOK, Empty
<1>3. Lined
  BY DEF Init, Lined, Places
<1>4. Accounted
  <2>1. \A k : Occurrences(<<>>, k) = 0
    BY NoneInEmpty
  <2>2. \A k \in Keys : OnTheWay(k) = 0
    BY <2>1, CountsOnTheWay DEF Init
  <2>. QED BY <2>2 DEF Init, Accounted
<1>5. Slots
  BY DEF Init, Slots, EntriesOwned, NobodyForgotten, TakenByThisLife, ToldByOwnLife, Waiting,
         Empty
<1>. QED BY <1>2, <1>3, <1>4, <1>5 DEF IInv, Slots

LEMMA NextIInv ==
  ASSUME IInv, [Next]_vars
  PROVE  IInv'
<1>1. TypeOK /\ Lined /\ Accounted /\ Slots
  BY DEF IInv, Slots
<1>2. TypeOK' /\ Lined'
  BY <1>1, TypesKept, LineKept
<1>3. Accounted'
  <2>1. CASE Next
    BY <1>1, <2>1, NextMoves, AccountsKept
  <2>2. CASE UNCHANGED vars
    BY <1>1, <2>2 DEF vars, device, Accounted, OnTheWay
  <2>. QED BY <2>1, <2>2
<1>4. Slots'
  <2>1. CASE UNCHANGED <<at, slot, pending, life, via, heard>>
    BY <1>1, <2>1
       DEF Slots, EntriesOwned, NobodyForgotten, TakenByThisLife, ToldByOwnLife, Waiting
  <2>2. CASE \/ \E k \in Keys : Writes(k) \/ DevicePushes(k)
             \/ Sends \/ DeviceReads \/ UNCHANGED vars
    BY <2>1, <2>2 DEF Writes, DevicePushes, Sends, DeviceReads, vars, calls, kept
  <2>. QED BY <1>1, <2>2, CallsKeepSlots, FoldsKeepSlots, LifeKeepsSlots DEF Next
<1>. QED BY <1>2, <1>3, <1>4 DEF IInv, Slots

\* IInv is inductive: from a state of the lane that it allows, no step of a
\* caller, of the device, of the fold or of the stream's life leaves it.
THEOREM Inductive == Spec => []IInv
<1>1. IInv /\ [Next]_vars => IInv'
  BY NextIInv
<1>. QED BY <1>1, InitIInv, PTL DEF Spec

\* The types, with the queue within COMMAND_QUEUE and no key counted further
\* on the device than it was written (lane.rs, links.rs).
THEOREM TypeCorrect == Spec => []TypeOK
BY Inductive, PTL DEF IInv

\* No entry of the core outlives its caller's wait, unless the caller was
\* dropped: register, unregister, deliver, fail_pending.
THEOREM NoStrayEntries == Spec => []EntriesOwned
BY Inductive, PTL DEF IInv

\* Who waits and has not been told is registered, in every order of lookup,
\* push, loss, timeout and drop.
THEOREM AllRemembered == Spec => []NobodyForgotten
BY Inductive, PTL DEF IInv

\* A question is answered by the life whose queue took it, or not at all.
THEOREM AnsweredByOwnLife == Spec => OwnLifeAnswers
<1>1. ASSUME IInv, [Next]_vars, NEW r \in Requests, at[r] = "reply", at'[r] = "answered"
      PROVE  heard[r] = via[r]
  <2>1. /\ slot \in [Requests -> {Empty, Closed} \union [is : {"value"}, value : Values]]
        /\ DOMAIN at = Requests
    BY <1>1 DEF IInv, TypeOK
  <2>2. Answered(r) /\ slot[r] # Closed
    BY <1>1, <2>1 DEF Next, vars, calls, Calls, CallsDown, Steps, Granted, Registers, FindsQueue,
         Enqueues, EnqueueFails, Answered, TimesOut, Cancelled, Writes, DevicePushes, Sends,
         DeviceReads, Folds, Loses, EndLife, Returns, Ends, Goes
  <2>3. via[r] # 0
    BY <1>1 DEF IInv, TakenByThisLife
  <2>4. slot[r].is = "value"
    BY <1>1, <2>1, <2>2 DEF Answered
  <2>. QED BY <1>1, <2>3, <2>4 DEF IInv, ToldByOwnLife
<1>2. IInv /\ [Next]_vars =>
        [\A r \in Requests : at[r] = "reply" /\ at'[r] = "answered" => heard[r] = via[r]]_vars
  BY <1>1
<1>. QED BY <1>2, Inductive, PTL DEF Spec, OwnLifeAnswers

=============================================================================
