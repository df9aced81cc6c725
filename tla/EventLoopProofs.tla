--------------------------- MODULE EventLoopProofs ---------------------------
(***************************************************************************)
(* What EventLoop keeps for every program, that is, for all tasks and      *)
(* delays: no timer is early or slept through, no ref task is dropped,     *)
(* microtasks come before the next macro task, batches run in order and    *)
(* the loop ends only when idle; and the ref queue is used as TimerQueue   *)
(* expects.                                                                *)
(*                                                                         *)
(* All of it rests on the queues being in order: then the tasks that timed *)
(* out are the first ones, whatever their number.                          *)
(***************************************************************************)
EXTENDS EventLoop, FiniteSetTheorems, SequenceTheorems, TLAPS

-----------------------------------------------------------------------------
(* Sequences in order.                                                     *)

\* In a sequence in order, what is due by a time is a front of it.
LEMMA DueIsFront ==
    ASSUME NEW S, NEW q \in Seq(S), NEW d, NEW at \in Int,
           \A i \in 1 .. Len(q) : d[q[i]] \in Int,
           \A i, j \in 1 .. Len(q) : i < j => d[q[i]] <= d[q[j]]
    PROVE  \E n \in 0 .. Len(q) : \A i \in 1 .. Len(q) : d[q[i]] <= at <=> i <= n
<1> DEFINE D == {i \in 1 .. Len(q) : d[q[i]] <= at}
           n == Cardinality(D)
<1>1. Len(q) \in Nat /\ IsFiniteSet(1 .. Len(q)) /\ Cardinality(1 .. Len(q)) = Len(q)
    <2> DEFINE m == Len(q)
    <2>1. m \in Nat
        BY LenProperties
    <2> HIDE DEF m
    <2>2. IsFiniteSet(1 .. m) /\ Cardinality(1 .. m) = IF 1 > m THEN 0 ELSE m - 1 + 1
        BY <2>1, FS_Interval
    <2>3. Cardinality(1 .. m) = m
        BY <2>1, <2>2
    <2> QED BY <2>1, <2>2, <2>3 DEF m
<1>2. IsFiniteSet(D) /\ n \in Nat /\ n <= Len(q)
    BY <1>1, FS_Subset, FS_CardinalityType
<1>3. ASSUME NEW i \in 1 .. Len(q), i \in D PROVE i <= n
    <2>1. ASSUME NEW j \in 1 .. i PROVE j \in D
        <3>1. j \in 1 .. Len(q) /\ (j < i \/ j = i) /\ d[q[i]] <= at
            BY <1>1, <1>3
        <3>2. d[q[i]] \in Int /\ d[q[j]] \in Int /\ d[q[j]] <= d[q[i]]
            BY <3>1
        <3>3. d[q[j]] <= at
            BY <3>1, <3>2
        <3> QED BY <3>1, <3>3
    <2>2. IsFiniteSet(1 .. i) /\ Cardinality(1 .. i) = i
        BY <1>1, FS_Interval
    <2> HIDE DEF D
    <2>3. 1 .. i \subseteq D
        BY <2>1
    <2>4. Cardinality(1 .. i) <= Cardinality(D)
        BY <1>2, <2>3, FS_Subset
    <2> QED BY <2>2, <2>4
<1>4. D \subseteq 1 .. n /\ IsFiniteSet(1 .. n) /\ Cardinality(1 .. n) = n
    <2>1. IsFiniteSet(1 .. n) /\ Cardinality(1 .. n) = n
        BY <1>2, FS_Interval
    <2>2. \A i \in D : i \in 1 .. Len(q)
        OBVIOUS
    <2> HIDE DEF D
    <2>3. \A i \in D : i \in 1 .. n
        BY <1>1, <1>2, <1>3, <2>2
    <2> QED BY <2>1, <2>3
<1>5. D = 1 .. n
    BY <1>4, FS_Subset
<1> HIDE DEF D
<1>6. n \in 0 .. Len(q)
    BY <1>1, <1>2
<1>7. \A i \in 1 .. Len(q) : i \in D <=> i <= n
    BY <1>2, <1>5
<1> QED BY <1>6, <1>7 DEF D

\* So DueBy, the place of the last that is due, is the end of that front.
LEMMA DueByIsFront ==
    ASSUME NEW S, NEW q \in Seq(S), NEW d, NEW at \in Int,
           \A i \in 1 .. Len(q) : d[q[i]] \in Int,
           \A i, j \in 1 .. Len(q) : i < j => d[q[i]] <= d[q[j]]
    PROVE  /\ Ref!DueBy(q, d, at) \in 0 .. Len(q)
           /\ \A i \in 1 .. Len(q) : d[q[i]] <= at <=> i <= Ref!DueBy(q, d, at)
<1> DEFINE P(n) == /\ n > 0 => d[q[n]] <= at
                   /\ \A i \in n + 1 .. Len(q) : d[q[i]] > at
           n == Ref!DueBy(q, d, at)
<1>1. Len(q) \in Nat
    BY LenProperties
<1>2. PICK k \in 0 .. Len(q) : \A i \in 1 .. Len(q) : d[q[i]] <= at <=> i <= k
    BY DueIsFront
<1>3. P(k)
    <2>1. k > 0 => k \in 1 .. Len(q)
        BY <1>1
    <2>2. \A i \in k + 1 .. Len(q) : i \in 1 .. Len(q) /\ ~(i <= k)
        BY <1>1
    <2> QED BY <1>2, <2>1, <2>2
<1>4. n = CHOOSE m \in 0 .. Len(q) : P(m)
    BY DEF Ref!DueBy
<1> HIDE DEF n, P
<1>5. n \in 0 .. Len(q) /\ P(n)
    BY <1>3, <1>4
<1>6. ASSUME NEW i \in 1 .. Len(q) PROVE d[q[i]] <= at <=> i <= n
    <2>1. CASE i <= n
        <3>1. n \in 1 .. Len(q) /\ n > 0 /\ (i < n \/ i = n)
            BY <1>1, <1>5, <2>1
        <3>2. d[q[n]] <= at
            BY <1>5, <3>1 DEF P
        <3>3. d[q[i]] \in Int /\ d[q[n]] \in Int /\ d[q[i]] <= d[q[n]]
            BY <3>1
        <3> QED BY <2>1, <3>2, <3>3
    <2>2. CASE i > n
        <3>1. i \in n + 1 .. Len(q)
            BY <1>1, <1>5, <2>2
        <3>2. d[q[i]] > at
            BY <1>5, <3>1 DEF P
        <3> QED BY <1>5, <2>2, <3>2
    <2> QED BY <1>5, <2>1, <2>2
<1> QED BY <1>5, <1>6 DEF n

\* A task between the first n and the others.
LEMMA Between1 ==
    ASSUME NEW S, NEW q \in Seq(S), NEW t \in S, NEW n \in 0 .. Len(q)
    PROVE  LET r == SubSeq(q, 1, n) \o <<t>> \o SubSeq(q, n + 1, Len(q))
           IN  /\ r \in Seq(S) /\ Len(r) = Len(q) + 1
               /\ \A i \in 1 .. Len(q) + 1 : /\ i <= n => r[i] = q[i]
                                             /\ i = n + 1 => r[i] = t
                                             /\ i > n + 1 => r[i] = q[i - 1] /\ i - 1 \in 1 .. Len(q)
<1> DEFINE a == SubSeq(q, 1, n)
           b == SubSeq(q, n + 1, Len(q))
           m == <<t>>
<1>1. Len(q) \in Nat /\ \A i \in 1 .. Len(q) : q[i] \in S
    BY LenProperties, ElementOfSeq
<1>2. a \in Seq(S) /\ Len(a) = n /\ \A i \in 1 .. n : a[i] = q[i]
    BY <1>1, SubSeqProperties
<1>3. b \in Seq(S) /\ Len(b) = Len(q) - n /\ \A i \in 1 .. Len(q) - n : b[i] = q[n + i]
    BY <1>1, SubSeqProperties
<1>4. m \in Seq(S) /\ Len(m) = 1 /\ m[1] = t
    OBVIOUS
<1> HIDE DEF a, b, m
<1>5. /\ a \o m \in Seq(S) /\ Len(a \o m) = n + 1
      /\ \A i \in 1 .. n + 1 : (a \o m)[i] = IF i <= n THEN a[i] ELSE m[i - n]
    <2>1. /\ a \o m \in Seq(S) /\ Len(a \o m) = Len(a) + Len(m)
          /\ \A i \in 1 .. Len(a) + Len(m) :
                 (a \o m)[i] = IF i <= Len(a) THEN a[i] ELSE m[i - Len(a)]
        BY <1>2, <1>4, ConcatProperties, Zenon
    <2> QED BY <1>2, <1>4, <2>1, Zenon
<1> DEFINE c == a \o m
<1>6. /\ c \o b \in Seq(S) /\ Len(c \o b) = Len(q) + 1
      /\ \A i \in 1 .. Len(q) + 1 : (c \o b)[i] = IF i <= n + 1 THEN c[i] ELSE b[i - (n + 1)]
    <2>1. c \in Seq(S) /\ Len(c) = n + 1
        BY <1>5
    <2> HIDE DEF c
    <2>2. /\ c \o b \in Seq(S) /\ Len(c \o b) = Len(c) + Len(b)
          /\ \A i \in 1 .. Len(c) + Len(b) :
                 (c \o b)[i] = IF i <= Len(c) THEN c[i] ELSE b[i - Len(c)]
        BY <1>3, <2>1, ConcatProperties, Zenon
    <2>3. Len(c) + Len(b) = Len(q) + 1
        BY <1>1, <1>3, <2>1
    <2> QED BY <2>1, <2>2, <2>3, Zenon
<1>7. ASSUME NEW i \in 1 .. Len(q) + 1
      PROVE  /\ i <= n => ((a \o m) \o b)[i] = q[i]
             /\ i = n + 1 => ((a \o m) \o b)[i] = t
             /\ i > n + 1 => ((a \o m) \o b)[i] = q[i - 1] /\ i - 1 \in 1 .. Len(q)
    <2>1. ASSUME i <= n PROVE ((a \o m) \o b)[i] = q[i]
        <3>1. i \in 1 .. n /\ i \in 1 .. n + 1 /\ i <= n + 1
            BY <1>1, <2>1
        <3> QED BY <1>2, <1>5, <1>6, <2>1, <3>1, Zenon
    <2>2. ASSUME i = n + 1 PROVE ((a \o m) \o b)[i] = t
        <3>1. i \in 1 .. n + 1 /\ i <= n + 1 /\ ~(i <= n) /\ i - n = 1
            BY <1>1, <2>2
        <3>2. (a \o m)[i] = m[1]
            BY <1>5, <3>1
        <3> QED BY <1>4, <1>6, <3>1, <3>2, Zenon
    <2>3. ASSUME i > n + 1 PROVE ((a \o m) \o b)[i] = q[i - 1] /\ i - 1 \in 1 .. Len(q)
        <3> DEFINE k == i - (n + 1)
        <3>1. k \in 1 .. Len(q) - n /\ n + k = i - 1 /\ ~(i <= n) /\ ~(i <= n + 1) /\ i # n + 1
            BY <1>1, <2>3
        <3>2. ((a \o m) \o b)[i] = b[k]
            BY <1>6, <3>1
        <3> HIDE DEF k
        <3>3. b[k] = q[i - 1]
            BY <1>3, <3>1
        <3>4. i - 1 \in 1 .. Len(q)
            BY <1>1, <2>3
        <3> QED BY <3>2, <3>3, <3>4
    <2> QED BY <2>1, <2>2, <2>3
<1> QED BY <1>6, <1>7 DEF a, b, m

\* The first n and the others.
LEMMA Cut ==
    ASSUME NEW S, NEW q \in Seq(S), NEW n \in 0 .. Len(q)
    PROVE  LET a == SubSeq(q, 1, n)
               b == SubSeq(q, n + 1, Len(q))
           IN  /\ a \in Seq(S) /\ Len(a) = n /\ \A i \in 1 .. n : a[i] = q[i]
               /\ b \in Seq(S) /\ Len(b) = Len(q) - n /\ \A i \in 1 .. Len(q) - n : b[i] = q[n + i]
<1>1. Len(q) \in Nat /\ \A i \in 1 .. Len(q) : q[i] \in S
    BY LenProperties, ElementOfSeq
<1> QED BY <1>1, SubSeqProperties

-----------------------------------------------------------------------------
(* Tasks and times.                                                        *)

\* Delays and due times are numbers, and a task goes into one queue only.
LEMMA Numbers ==
    /\ NoTask \notin Task /\ MaxMicro \in Nat /\ MaxTime \in Nat
    /\ \A t \in Task : Delay(t) \in Int /\ \A at \in 0 .. MaxTime : at + Delay(t) \in Times
    /\ Times \subseteq Int /\ 0 \in Times
    /\ UnrefTask \subseteq Task /\ RefTask \cup PollTask \subseteq Task
    /\ \A t \in Task : t \in UnrefTask <=> t \notin RefTask \cup PollTask
    /\ Intervals \subseteq RefTask
<1>1. \A t \in Task : Delay(t) \in Int
    BY TasksAssumption DEF Delay
<1>2. Times \subseteq Int
    BY <1>1, TasksAssumption DEF Times
<1> QED BY <1>1, <1>2, TasksAssumption DEF Times, Task

\* The first m elements of q are in the order of their keys d; the first n are those
\* with keys of at most at; r is q with t at the place n + 1; a and b are the parts of q.
InOrder(q, m, d) == \A i, j \in 1 .. m : i < j => q[i] # q[j] /\ d[q[i]] <= d[q[j]]
Front(q, m, n, d, at) == \A i \in 1 .. m : d[q[i]] <= at <=> i <= n
Put(q, m, n, t, r) ==
    \A i \in 1 .. m + 1 : /\ i <= n => r[i] = q[i]
                          /\ i = n + 1 => r[i] = t
                          /\ i > n + 1 => r[i] = q[i - 1] /\ i - 1 \in 1 .. m
Parts(q, m, n, a, b) ==
    (\A i \in 1 .. n : a[i] = q[i]) /\ (\A i \in 1 .. m - n : b[i] = q[n + i])
Rekeyed(q, m, d, e, t) == \A i \in 1 .. m : d[q[i]] \in Int /\ e[q[i]] = d[q[i]] /\ q[i] # t

\* r has the elements of q and t; the elements of a and b are those of q, none in both.
Adds(q, m, t, r) ==
    /\ \A i \in 1 .. m + 1 : r[i] = t \/ \E k \in 1 .. m : r[i] = q[k]
    /\ \A k \in 1 .. m : \E i \in 1 .. m + 1 : r[i] = q[k]
    /\ \E i \in 1 .. m + 1 : r[i] = t
Splits(q, m, n, a, b) ==
    /\ \A i \in 1 .. n, j \in 1 .. m - n : a[i] # b[j]
    /\ \A i \in 1 .. n : i \in 1 .. m /\ a[i] = q[i]
    /\ \A i \in 1 .. m - n : n + i \in 1 .. m /\ b[i] = q[n + i]
    /\ \A k \in 1 .. m : \/ \E i \in 1 .. n : q[k] = a[i]
                         \/ \E i \in 1 .. m - n : q[k] = b[i]

\* A sequence in order gets an element behind those with no greater key.
LEMMA InsertedInOrder ==
    ASSUME NEW m \in Nat, NEW n \in 0 .. m, NEW q, NEW r, NEW t, NEW at \in Int, NEW d, NEW e,
           Rekeyed(q, m, d, e, t), e[t] = at, InOrder(q, m, d), Front(q, m, n, d, at),
           Put(q, m, n, t, r)
    PROVE  InOrder(r, m + 1, e) /\ Adds(q, m, t, r)
<1> USE DEF Rekeyed, InOrder, Front, Put, Adds
<1>1. ASSUME NEW i \in 1 .. m + 1, NEW j \in 1 .. m + 1, i < j
      PROVE  r[i] # r[j] /\ e[r[i]] <= e[r[j]]
    <2>1. CASE j <= n
        <3>1. i \in 1 .. m /\ j \in 1 .. m /\ i <= n
            BY <1>1, <2>1
        <3>2. r[i] = q[i] /\ r[j] = q[j]
            BY <2>1, <3>1
        <3> QED BY <1>1, <3>1, <3>2
    <2>2. CASE j = n + 1
        <3>1. i \in 1 .. m /\ i <= n
            BY <1>1, <2>2
        <3>2. r[i] = q[i] /\ r[j] = t
            BY <2>2, <3>1
        <3> QED BY <3>1, <3>2
    <2>3. CASE j > n + 1
        <3>1. r[j] = q[j - 1] /\ j - 1 \in 1 .. m /\ ~(j - 1 <= n)
            BY <2>3
        <3>2. d[q[j - 1]] > at
            BY <3>1
        <3>3. CASE i <= n
            <4>1. i \in 1 .. m /\ i < j - 1
                BY <2>3, <3>3
            <4>2. r[i] = q[i]
                BY <3>3
            <4> QED BY <3>1, <4>1, <4>2
        <3>4. CASE i = n + 1
            BY <3>1, <3>2, <3>4
        <3>5. CASE i > n + 1
            <4>1. i - 1 \in 1 .. m /\ r[i] = q[i - 1] /\ i - 1 < j - 1
                BY <1>1, <3>5
            <4> QED BY <3>1, <4>1
        <3> QED BY <3>3, <3>4, <3>5
    <2> QED BY <2>1, <2>2, <2>3
<1>2. ASSUME NEW i \in 1 .. m + 1 PROVE r[i] = t \/ \E k \in 1 .. m : r[i] = q[k]
    <2>1. CASE i <= n
        <3>1. i \in 1 .. m
            BY <2>1
        <3> QED BY <2>1, <3>1
    <2>2. CASE i = n + 1
        BY <2>2
    <2>3. CASE i > n + 1
        BY <2>3
    <2> QED BY <2>1, <2>2, <2>3
<1>3. ASSUME NEW k \in 1 .. m PROVE \E i \in 1 .. m + 1 : r[i] = q[k]
    <2>1. CASE k <= n
        <3>1. k \in 1 .. m + 1
            OBVIOUS
        <3> QED BY <2>1, <3>1
    <2>2. CASE k > n
        <3>1. k + 1 \in 1 .. m + 1 /\ k + 1 > n + 1 /\ (k + 1) - 1 = k
            BY <2>2
        <3>2. r[k + 1] = q[(k + 1) - 1]
            BY <3>1
        <3> QED BY <3>1, <3>2
    <2> QED BY <2>1, <2>2
<1>4. n + 1 \in 1 .. m + 1 /\ r[n + 1] = t
    OBVIOUS
<1> QED BY <1>1, <1>2, <1>3, <1>4

\* The two parts of a sequence in order are in order and share no element.
LEMMA CutInOrder ==
    ASSUME NEW m \in Nat, NEW n \in 0 .. m, NEW q, NEW a, NEW b, NEW d,
           InOrder(q, m, d), Parts(q, m, n, a, b)
    PROVE  InOrder(a, n, d) /\ InOrder(b, m - n, d) /\ Splits(q, m, n, a, b)
<1> USE DEF InOrder, Parts, Splits
<1>1. /\ \A i \in 1 .. n : i \in 1 .. m
      /\ \A i \in 1 .. m - n : n + i \in 1 .. m
      /\ \A i, j \in 1 .. m - n : i < j => n + i < n + j
      /\ \A i \in 1 .. n, j \in 1 .. m - n : i < n + j
    OBVIOUS
<1>2. \A i, j \in 1 .. n : i < j => a[i] # a[j] /\ d[a[i]] <= d[a[j]]
    BY <1>1
<1>3. \A i, j \in 1 .. m - n : i < j => b[i] # b[j] /\ d[b[i]] <= d[b[j]]
    <2> TAKE i, j \in 1 .. m - n
    <2> HAVE i < j
    <2>1. n + i \in 1 .. m /\ n + j \in 1 .. m /\ n + i < n + j /\ b[i] = q[n + i] /\ b[j] = q[n + j]
        BY <1>1
    <2> QED BY <2>1
<1>4. \A i \in 1 .. n, j \in 1 .. m - n : a[i] # b[j]
    <2> TAKE i \in 1 .. n, j \in 1 .. m - n
    <2>1. i \in 1 .. m /\ n + j \in 1 .. m /\ i < n + j /\ a[i] = q[i] /\ b[j] = q[n + j]
        BY <1>1
    <2> QED BY <2>1
<1>5. ASSUME NEW k \in 1 .. m
      PROVE  (\E i \in 1 .. n : q[k] = a[i]) \/ (\E i \in 1 .. m - n : q[k] = b[i])
    <2>1. CASE k <= n
        <3>1. k \in 1 .. n
            BY <2>1
        <3> QED BY <3>1
    <2>2. CASE k > n
        <3>1. k - n \in 1 .. m - n /\ n + (k - n) = k
            BY <2>2
        <3>2. b[k - n] = q[n + (k - n)]
            BY <3>1
        <3> QED BY <3>1, <3>2
    <2> QED BY <2>1, <2>2
<1> QED BY <1>1, <1>2, <1>3, <1>4, <1>5

\* The queue q with t put after its first n tasks.
With(q, n, t) == SubSeq(q, 1, n) \o <<t>> \o SubSeq(q, n + 1, Len(q))

\* insert() of a task that is not in the queue: the queue stays in order, as the
\* task goes behind those that are due no later and in front of the others.
LEMMA QueueInsert ==
    ASSUME NEW S, NEW q \in Seq(S), InOrder(q, Len(q), due),
           NEW t \in S, t \notin Ref!Tasks(q), NEW at \in Int,
           due \in [Task -> Int], S \subseteq Task, due' = [due EXCEPT ![t] = at]
    PROVE  LET r == With(q, Ref!DueBy(q, due, at), t)
           IN  /\ r \in Seq(S) /\ Ref!Tasks(r) = Ref!Tasks(q) \cup {t}
               /\ InOrder(r, Len(r), due')
<1> DEFINE n == Ref!DueBy(q, due, at)
           r == With(q, n, t)
           m == Len(q)
<1>1. m \in Nat /\ \A i \in 1 .. m : q[i] \in S /\ q[i] \in Task
    BY LenProperties, ElementOfSeq
<1>2. Rekeyed(q, m, due, due', t) /\ due'[t] = at /\ \A i \in 1 .. m : due[q[i]] \in Int
    BY <1>1 DEF Ref!Tasks, Rekeyed
<1>3. n \in 0 .. m /\ Front(q, m, n, due, at)
    <2>1. \A i, j \in 1 .. m : i < j => due[q[i]] <= due[q[j]]
        BY DEF InOrder
    <2> QED BY <1>2, <2>1, DueByIsFront DEF Front
<1> HIDE DEF n
<1>4. r \in Seq(S) /\ Len(r) = m + 1 /\ Put(q, m, n, t, r)
    BY <1>3, Between1 DEF Put, With
<1> HIDE DEF r
<1>5. InOrder(r, m + 1, due') /\ Adds(q, m, t, r)
    <2>1. InOrder(q, m, due)
        OBVIOUS
    <2> HIDE DEF m
    <2> QED BY <1>1, <1>2, <1>3, <1>4, <2>1, InsertedInOrder
<1>6. Ref!Tasks(q) = {q[i] : i \in 1 .. m} /\ Ref!Tasks(r) = {r[i] : i \in 1 .. m + 1}
    BY <1>4 DEF Ref!Tasks
<1> HIDE DEF m
<1>7. Ref!Tasks(r) = Ref!Tasks(q) \cup {t}
    <2>1. \A i \in 1 .. m + 1 : r[i] \in Ref!Tasks(q) \cup {t}
        BY <1>5, <1>6 DEF Adds
    <2>2. \A k \in 1 .. m : q[k] \in Ref!Tasks(r)
        BY <1>5, <1>6 DEF Adds
    <2>3. t \in Ref!Tasks(r)
        BY <1>5, <1>6 DEF Adds
    <2> QED BY <1>6, <2>1, <2>2, <2>3
<1> QED BY <1>4, <1>5, <1>7 DEF m, n, r

\* The first n tasks of q, and the others.
FrontOf(q, n) == SubSeq(q, 1, n)
RestOf(q, n)  == SubSeq(q, n + 1, Len(q))

\* sliceActiveQueue() of a queue in order: the front is what is due, both parts are
\* in order and no task is in both.
LEMMA QueueSlice ==
    ASSUME NEW S, NEW q \in Seq(S), InOrder(q, Len(q), due), NEW at \in Int,
           due \in [Task -> Int], S \subseteq Task
    PROVE  LET n == Ref!DueBy(q, due, at)
               a == FrontOf(q, n)
               b == RestOf(q, n)
           IN  /\ a \in Seq(S) /\ b \in Seq(S)
               /\ Ref!Tasks(q) = Ref!Tasks(a) \cup Ref!Tasks(b)
               /\ Ref!Tasks(a) \cap Ref!Tasks(b) = {}
               /\ \A t \in Ref!Tasks(a) : due[t] <= at
               /\ InOrder(a, Len(a), due) /\ InOrder(b, Len(b), due)
<1> DEFINE n == Ref!DueBy(q, due, at)
           a == FrontOf(q, n)
           b == RestOf(q, n)
           m == Len(q)
<1>1. m \in Nat /\ \A i \in 1 .. m : due[q[i]] \in Int
    BY LenProperties, ElementOfSeq
<1>2. \A i, j \in 1 .. m : i < j => due[q[i]] <= due[q[j]]
    BY DEF InOrder
<1>3. n \in 0 .. m /\ \A i \in 1 .. m : due[q[i]] <= at <=> i <= n
    BY <1>1, <1>2, DueByIsFront
<1> HIDE DEF n
<1>4. a \in Seq(S) /\ Len(a) = n /\ b \in Seq(S) /\ Len(b) = m - n /\ Parts(q, m, n, a, b)
    <2>1. /\ a \in Seq(S) /\ Len(a) = n /\ \A i \in 1 .. n : a[i] = q[i]
          /\ b \in Seq(S) /\ Len(b) = Len(q) - n /\ \A i \in 1 .. Len(q) - n : b[i] = q[n + i]
        BY <1>3, Cut, Zenon DEF FrontOf, RestOf
    <2> HIDE DEF a, b
    <2> QED BY <2>1 DEF Parts
<1> HIDE DEF a, b
<1>5. InOrder(a, n, due) /\ InOrder(b, m - n, due) /\ Splits(q, m, n, a, b)
    <2>1. InOrder(q, m, due)
        OBVIOUS
    <2> HIDE DEF m
    <2> QED BY <1>1, <1>3, <1>4, <2>1, CutInOrder
<1>6. Ref!Tasks(a) = {a[i] : i \in 1 .. n} /\ Ref!Tasks(b) = {b[i] : i \in 1 .. m - n}
    BY <1>4 DEF Ref!Tasks
<1>7. Ref!Tasks(q) = {q[i] : i \in 1 .. m}
    BY DEF Ref!Tasks
<1> HIDE DEF m
<1>8. Ref!Tasks(q) = Ref!Tasks(a) \cup Ref!Tasks(b)
    <2>1. \A k \in 1 .. m : q[k] \in Ref!Tasks(a) \cup Ref!Tasks(b)
        BY <1>5, <1>6 DEF Splits
    <2>2. \A i \in 1 .. n : a[i] \in Ref!Tasks(q)
        BY <1>5, <1>7 DEF Splits
    <2>3. \A i \in 1 .. m - n : b[i] \in Ref!Tasks(q)
        BY <1>5, <1>7 DEF Splits
    <2> QED BY <1>6, <1>7, <2>1, <2>2, <2>3
<1>9. Ref!Tasks(a) \cap Ref!Tasks(b) = {}
    BY <1>5, <1>6 DEF Splits
<1>10. \A t \in Ref!Tasks(a) : due[t] <= at
    <2>1. ASSUME NEW i \in 1 .. n PROVE due[a[i]] <= at
        <3>1. i \in 1 .. m /\ i <= n /\ a[i] = q[i]
            BY <1>1, <1>3, <1>5 DEF Splits
        <3> QED BY <1>3, <3>1
    <2> QED BY <1>6, <2>1
<1> QED BY <1>3, <1>4, <1>5, <1>8, <1>9, <1>10 DEF m, n, a, b

\* pop() of a queue in order that is not empty.
LEMMA QueuePop ==
    ASSUME NEW S, NEW q \in Seq(S), InOrder(q, Len(q), due), q # <<>>
    PROVE  /\ Head(q) \in S /\ Tail(q) \in Seq(S) /\ InOrder(Tail(q), Len(Tail(q)), due)
           /\ Ref!Tasks(q) = Ref!Tasks(Tail(q)) \cup {Head(q)}
           /\ \A u \in Ref!Tasks(Tail(q)) : Head(q) # u /\ due[Head(q)] <= due[u]
<1> DEFINE r == Tail(q)
<1>1. Len(q) \in Nat \ {0} /\ Head(q) = q[1]
    BY EmptySeq
<1>2. Head(q) \in S /\ r \in Seq(S) /\ Len(r) = Len(q) - 1 /\ \A i \in 1 .. Len(r) : r[i] = q[i + 1]
    BY HeadTailProperties
<1> HIDE DEF r
<1>3. /\ 1 \in 1 .. Len(q) /\ \A i \in 1 .. Len(r) : i + 1 \in 1 .. Len(q) /\ 1 < i + 1
      /\ \A i, j \in 1 .. Len(r) : i < j => i + 1 < j + 1
    BY <1>1, <1>2
<1>4. InOrder(r, Len(r), due)
    <2> SUFFICES ASSUME NEW i \in 1 .. Len(r), NEW j \in 1 .. Len(r), i < j
                 PROVE  r[i] # r[j] /\ due[r[i]] <= due[r[j]]
        BY DEF InOrder
    <2>1. r[i] = q[i + 1] /\ r[j] = q[j + 1]
        BY <1>2
    <2> QED BY <1>3, <2>1 DEF InOrder
<1>5. \A i \in 1 .. Len(r) : q[1] # r[i] /\ due[q[1]] <= due[r[i]]
    <2> TAKE i \in 1 .. Len(r)
    <2>1. r[i] = q[i + 1]
        BY <1>2
    <2> QED BY <1>3, <2>1 DEF InOrder
<1>6. Ref!Tasks(q) = Ref!Tasks(r) \cup {q[1]}
    <2>1. ASSUME NEW k \in 1 .. Len(q) PROVE q[k] \in Ref!Tasks(r) \cup {q[1]}
        <3>1. CASE k = 1
            BY <3>1
        <3>2. CASE k # 1
            <4>1. k - 1 \in 1 .. Len(r) /\ (k - 1) + 1 = k
                BY <1>1, <1>2, <3>2
            <4>2. r[k - 1] = q[k]
                BY <1>2, <4>1
            <4> QED BY <4>1, <4>2 DEF Ref!Tasks
        <3> QED BY <3>1, <3>2
    <2>2. \A i \in 1 .. Len(r) : r[i] \in Ref!Tasks(q)
        BY <1>2, <1>3 DEF Ref!Tasks
    <2> QED BY <1>3, <2>1, <2>2 DEF Ref!Tasks
<1>7. \A u \in Ref!Tasks(r) : q[1] # u /\ due[q[1]] <= due[u]
    BY <1>5 DEF Ref!Tasks
<1> QED BY <1>1, <1>2, <1>4, <1>6, <1>7 DEF r

\* The order depends on the times of the tasks in the queue only.
LEMMA SameOrder ==
    ASSUME NEW q, InOrder(q, Len(q), due), NEW d, \A u \in Ref!Tasks(q) : d[u] = due[u]
    PROVE  InOrder(q, Len(q), d)
<1>1. \A i \in 1 .. Len(q) : d[q[i]] = due[q[i]]
    BY DEF Ref!Tasks
<1> QED BY <1>1 DEF InOrder

\* What is in a queue of tasks of a set is of that set.
LEMMA TasksOf ==
    ASSUME NEW S, NEW q \in Seq(S)
    PROVE  Ref!Tasks(q) \subseteq S /\ (q = <<>> <=> Ref!Tasks(q) = {})
<1>1. \A i \in 1 .. Len(q) : q[i] \in S
    BY ElementOfSeq
<1>2. ASSUME q # <<>> PROVE Ref!Tasks(q) # {}
    <2>1. Len(q) \in Nat \ {0}
        BY <1>2, EmptySeq
    <2>2. 1 \in 1 .. Len(q)
        BY <2>1
    <2> QED BY <2>2 DEF Ref!Tasks
<1>3. ASSUME q = <<>> PROVE Ref!Tasks(q) = {}
    <2>1. Len(q) = 0
        BY <1>3
    <2> QED BY <2>1 DEF Ref!Tasks
<1>4. Ref!Tasks(q) \subseteq S
    BY <1>1 DEF Ref!Tasks
<1> QED BY <1>2, <1>3, <1>4

\* The two queues have the same operators.
LEMMA SameOperators ==
    /\ \A q : Unref!Tasks(q) = Ref!Tasks(q)
    /\ \A q, d, at : Unref!DueBy(q, d, at) = Ref!DueBy(q, d, at)
BY DEF Ref!Tasks, Unref!Tasks, Ref!DueBy, Unref!DueBy

-----------------------------------------------------------------------------
(* Steps of the loop.                                                      *)

\* The invariant as long as no clear cut a queue.  What is in the queues is scheduled, as
\* QueuesOK says: of NothingDropped the other half is left.
Kept ==
    \A t \in RefTask \cup PollTask :
        state[t] = "queued" => t \in Waiting \cup Ref!Tasks(refPending)
Regular ==
    /\ ~astray /\ phase # "astray"
    /\ TypeOK /\ QueuesOK /\ PhasesOK /\ Kept /\ NoOversleep

LEMMA RegularIs ==
    /\ IInv <=> TypeOK /\ IF astray THEN phase \in {"astray", "stopped"} ELSE Regular
    /\ IInv' <=> TypeOK' /\ IF astray' THEN phase' \in {"astray", "stopped"} ELSE Regular'
<1>1. ASSUME ~astray, QueuesOK PROVE Kept <=> NothingDropped
    BY <1>1 DEF Kept, NothingDropped, QueuesOK, Pending
<1>2. ASSUME ~astray', QueuesOK' PROVE Kept' <=> NothingDropped'
    BY <1>2 DEF Kept, NothingDropped, QueuesOK, Pending
<1> QED BY <1>1, <1>2 DEF IInv, Regular

\* Insert, of a task that waits nowhere: it gets its time, the others keep theirs,
\* and the queue it goes to stays in order.
LEMMA InsertOne ==
    ASSUME TypeOK, QueuesOK, NEW t \in Task, t \notin Pending, Insert(t)
    PROVE  /\ due' \in [Task -> Times] /\ due'[t] = now + Delay(t)
           /\ \A u \in Task \ {t} : due'[u] = due[u]
           /\ refActive' = refActive /\ unrefActive' = unrefActive
           /\ refPending' \in Seq(RefTask \cup PollTask) /\ unrefPending' \in Seq(UnrefTask)
           /\ InOrder(refPending', Len(refPending'), due')
           /\ InOrder(unrefPending', Len(unrefPending'), due')
           /\ t \in UnrefTask => /\ Ref!Tasks(unrefPending') = Ref!Tasks(unrefPending) \cup {t}
                                /\ refPending' = refPending
           /\ t \notin UnrefTask => /\ Ref!Tasks(refPending') = Ref!Tasks(refPending) \cup {t}
                                   /\ unrefPending' = unrefPending
<1> DEFINE at == now + Delay(t)
<1>1. at \in Times /\ at \in Int /\ due \in [Task -> Int] /\ due \in [Task -> Times]
    BY Numbers DEF TypeOK
<1>2. /\ refPending \in Seq(RefTask \cup PollTask) /\ unrefPending \in Seq(UnrefTask)
      /\ InOrder(refPending, Len(refPending), due)
      /\ InOrder(unrefPending, Len(unrefPending), due)
    BY DEF QueuesOK, TypeOK, Ordered, InOrder
<1>3. t \notin Ref!Tasks(refPending) /\ t \notin Ref!Tasks(unrefPending)
    BY DEF Pending
<1> HIDE DEF at
<1>4. due' = [due EXCEPT ![t] = at]
    BY DEF Insert, Ref!Insert, Unref!Insert, at
<1>5. due' \in [Task -> Times] /\ due'[t] = at /\ \A u \in Task \ {t} : due'[u] = due[u]
    BY <1>1, <1>4
<1>6. CASE t \in UnrefTask
    <2>1. /\ unrefPending' = With(unrefPending, Ref!DueBy(unrefPending, due, at), t)
          /\ unrefActive' = unrefActive /\ refPending' = refPending /\ refActive' = refActive
        BY <1>6, SameOperators DEF Insert, Unref!Insert, refQueue, at, With
    <2>2. /\ unrefPending' \in Seq(UnrefTask)
          /\ Ref!Tasks(unrefPending') = Ref!Tasks(unrefPending) \cup {t}
          /\ InOrder(unrefPending', Len(unrefPending'), due')
        <3>1. UnrefTask \subseteq Task /\ t \in UnrefTask
            BY <1>6, Numbers
        <3>2. \A q \in Seq(UnrefTask) :
                  InOrder(q, Len(q), due) /\ t \notin Ref!Tasks(q) =>
                      LET r == With(q, Ref!DueBy(q, due, at), t)
                      IN  /\ r \in Seq(UnrefTask) /\ Ref!Tasks(r) = Ref!Tasks(q) \cup {t}
                          /\ InOrder(r, Len(r), due')
            BY <1>1, <1>4, <3>1, QueueInsert
        <3> QED BY <1>2, <1>3, <2>1, <3>2
    <2>3. \A u \in Ref!Tasks(refPending) : due'[u] = due[u]
        BY <1>2, <1>3, <1>5, TasksOf, Numbers
    <2>4. InOrder(refPending, Len(refPending), due')
        BY <1>2, <2>3, SameOrder
    <2> QED BY <1>2, <1>5, <1>6, <2>1, <2>2, <2>4 DEF at
<1>7. CASE t \notin UnrefTask
    <2>1. /\ refPending' = With(refPending, Ref!DueBy(refPending, due, at), t)
          /\ refActive' = refActive /\ unrefPending' = unrefPending /\ unrefActive' = unrefActive
        BY <1>7 DEF Insert, Ref!Insert, unrefQueue, at, With
    <2>2. t \in RefTask \cup PollTask
        BY <1>7, Numbers
    <2>3. /\ refPending' \in Seq(RefTask \cup PollTask)
          /\ Ref!Tasks(refPending') = Ref!Tasks(refPending) \cup {t}
          /\ InOrder(refPending', Len(refPending'), due')
        <3>1. RefTask \cup PollTask \subseteq Task
            BY Numbers
        <3>2. \A q \in Seq(RefTask \cup PollTask) :
                  InOrder(q, Len(q), due) /\ t \notin Ref!Tasks(q) =>
                      LET r == With(q, Ref!DueBy(q, due, at), t)
                      IN  /\ r \in Seq(RefTask \cup PollTask) /\ Ref!Tasks(r) = Ref!Tasks(q) \cup {t}
                          /\ InOrder(r, Len(r), due')
            BY <1>1, <1>4, <2>2, <3>1, QueueInsert
        <3> QED BY <1>2, <1>3, <2>1, <3>2
    <2>4. \A u \in Ref!Tasks(unrefPending) : due'[u] = due[u]
        BY <1>2, <1>3, <1>5, TasksOf, Numbers
    <2>5. InOrder(unrefPending, Len(unrefPending), due')
        BY <1>2, <2>4, SameOrder
    <2> QED BY <1>2, <1>5, <1>7, <2>1, <2>3, <2>5 DEF at
<1> QED BY <1>6, <1>7

\* The order of a queue, as the lemmas above have it.
LEMMA OrderedIs ==
    /\ \A q : Ordered(q) <=> InOrder(q, Len(q), due)
    /\ Ordered(refPending)' <=> InOrder(refPending', Len(refPending'), due')
    /\ Ordered(unrefPending)' <=> InOrder(unrefPending', Len(unrefPending'), due')
    /\ Ordered(refActive)' <=> InOrder(refActive', Len(refActive'), due')
    /\ Ordered(unrefActive)' <=> InOrder(unrefActive', Len(unrefActive'), due')
BY DEF Ordered, InOrder

\* A batch stays in order when its tasks keep their times and its first task may go.
LEMMA SameBatch ==
    ASSUME NEW q, NEW t, BatchOrdered(t, q), NEW d, 
           \A u \in Ref!Tasks(q) \cup ({t} \ {NoTask}) : d[u] = due[u]
    PROVE  /\ InOrder(q, Len(q), d)
           /\ t # NoTask => \A u \in Ref!Tasks(q) : t # u /\ d[t] <= d[u]
<1>1. InOrder(q, Len(q), d)
    BY OrderedIs, SameOrder DEF BatchOrdered
<1> QED BY <1>1 DEF BatchOrdered

\* Steps that leave queues, picked tasks and history alone; time may pass.
LEMMA CalmStep ==
    ASSUME Regular, UNCHANGED <<refQueue, unrefQueue, due, picked, state>>,
           now' \in 0 .. MaxTime, now <= now'
    PROVE  QueuesOK' /\ Kept'
<1>1. /\ refPending' = refPending /\ refActive' = refActive /\ unrefPending' = unrefPending
      /\ unrefActive' = unrefActive /\ due' = due /\ refTask' = refTask /\ unrefTask' = unrefTask
      /\ state' = state
    BY DEF refQueue, unrefQueue, picked
<1>2. Waiting' = Waiting /\ Pending' = Pending
    BY <1>1 DEF Waiting, Pending
<1>3. Kept'
    BY <1>1, <1>2 DEF Regular, Kept
<1>4. \A t \in Waiting' : due'[t] <= now'
    <2>1. \A t \in Waiting : t \in Task
        BY TasksOf, Numbers DEF Waiting, Regular, TypeOK
    <2>2. \A t \in Waiting : due[t] \in Int /\ due[t] <= now
        BY <2>1, Numbers DEF Regular, TypeOK, QueuesOK
    <2>3. now \in Int /\ now' \in Int
        BY TasksAssumption DEF Regular, TypeOK
    <2> QED BY <1>1, <1>2, <2>2, <2>3
<1>5. Ordered(refPending)' /\ BatchOrdered(refTask, refActive)'
      /\ Ordered(unrefPending)' /\ BatchOrdered(unrefTask, unrefActive)'
    BY <1>1 DEF Regular, QueuesOK, BatchOrdered, Ordered
<1> QED BY <1>1, <1>2, <1>3, <1>4, <1>5 DEF Regular, QueuesOK

\* What Regular says of the sets of tasks.
LEMMA Places ==
    ASSUME Regular
    PROVE  /\ Ref!Tasks(refPending) \subseteq RefTask \cup PollTask
           /\ Ref!Tasks(refActive) \subseteq RefTask \cup PollTask
           /\ Ref!Tasks(unrefPending) \subseteq UnrefTask
           /\ Ref!Tasks(unrefActive) \subseteq UnrefTask
           /\ Waiting \subseteq Task /\ Pending \subseteq Task
           /\ \A t \in Task : due[t] \in Int
           /\ now \in Int /\ NoTask \notin Task
<1>1. /\ Ref!Tasks(refPending) \subseteq RefTask \cup PollTask
      /\ Ref!Tasks(refActive) \subseteq RefTask \cup PollTask
      /\ Ref!Tasks(unrefPending) \subseteq UnrefTask
      /\ Ref!Tasks(unrefActive) \subseteq UnrefTask
    BY TasksOf DEF Regular, TypeOK
<1>2. Waiting \subseteq Task /\ Pending \subseteq Task
    BY <1>1, Numbers DEF Waiting, Pending, Regular, TypeOK
<1>3. \A t \in Task : due[t] \in Int
    BY Numbers DEF Regular, TypeOK
<1>4. now \in Int /\ NoTask \notin Task
    BY Numbers DEF Regular, TypeOK
<1> QED BY <1>1, <1>2, <1>3, <1>4

\* Insert as a part of a step, of a new task or of the task that is picked: it waits
\* in its queue, and what waited elsewhere still does.
LEMMA InsertStep ==
    ASSUME Regular, NEW t \in Task, t \notin Pending, Insert(t),
           state' = [state EXCEPT ![t] = "queued"], now' = now,
           refTask' \in {refTask, NoTask}, unrefTask' \in {unrefTask, NoTask},
           t \notin Ref!Tasks(refActive) \cup Ref!Tasks(unrefActive),
           t \notin {refTask', unrefTask'}, {refTask, unrefTask} \subseteq {refTask', unrefTask', t, NoTask}
    PROVE  /\ QueuesOK' /\ Kept'
           /\ due' \in [Task -> Times] /\ state' \in [Task -> {"new", "queued", "executed", "cleared"}]
           /\ refPending' \in Seq(RefTask \cup PollTask) /\ unrefPending' \in Seq(UnrefTask)
           /\ refActive' = refActive /\ unrefActive' = unrefActive
<1> USE Places
<1>1. TypeOK /\ QueuesOK /\ Kept
    BY DEF Regular
<1>2. /\ due' \in [Task -> Times] /\ due'[t] = now + Delay(t)
      /\ \A u \in Task \ {t} : due'[u] = due[u]
      /\ refActive' = refActive /\ unrefActive' = unrefActive
      /\ refPending' \in Seq(RefTask \cup PollTask) /\ unrefPending' \in Seq(UnrefTask)
      /\ InOrder(refPending', Len(refPending'), due')
      /\ InOrder(unrefPending', Len(unrefPending'), due')
      /\ t \in UnrefTask => /\ Ref!Tasks(unrefPending') = Ref!Tasks(unrefPending) \cup {t}
                           /\ refPending' = refPending
      /\ t \notin UnrefTask => /\ Ref!Tasks(refPending') = Ref!Tasks(refPending) \cup {t}
                              /\ unrefPending' = unrefPending
    BY <1>1, InsertOne
<1>3. Pending' = Pending \cup {t}
    BY <1>2 DEF Pending
<1>4. Waiting' \subseteq Waiting \ {t} /\ Waiting \subseteq Waiting' \cup {t}
    BY <1>2 DEF Waiting
<1>5. Ordered(refPending)' /\ Ordered(unrefPending)'
    BY <1>2, OrderedIs
<1>6. BatchOrdered(refTask, refActive)' /\ BatchOrdered(unrefTask, unrefActive)'
    <2>1. /\ \A u \in Ref!Tasks(refActive) : due'[u] = due[u]
          /\ \A u \in Ref!Tasks(unrefActive) : due'[u] = due[u]
          /\ refTask' # NoTask => refTask' = refTask /\ due'[refTask] = due[refTask]
          /\ unrefTask' # NoTask => unrefTask' = unrefTask /\ due'[unrefTask] = due[unrefTask]
        BY <1>1, <1>2, Numbers DEF TypeOK
    <2>2. BatchOrdered(refTask, refActive) /\ BatchOrdered(unrefTask, unrefActive)
        BY <1>1 DEF QueuesOK
    <2>3. Ordered(refActive)' /\ Ordered(unrefActive)'
        BY <1>2, <2>1, <2>2, OrderedIs, SameOrder DEF BatchOrdered
    <2> QED BY <1>2, <2>1, <2>2, <2>3 DEF BatchOrdered
<1>7. \A u \in Waiting' : u \notin Pending'
    BY <1>1, <1>3, <1>4 DEF QueuesOK
<1>8. state' \in [Task -> {"new", "queued", "executed", "cleared"}] /\ \A u \in Waiting' \cup Pending' : state'[u] = "queued"
    BY <1>1, <1>3, <1>4 DEF QueuesOK, TypeOK
<1>9. \A u \in Waiting' : due'[u] <= now'
    BY <1>1, <1>2, <1>4 DEF QueuesOK
<1>10. Kept'
    <2> SUFFICES ASSUME NEW u \in RefTask \cup PollTask, state'[u] = "queued"
                 PROVE  u \in Waiting' \cup Ref!Tasks(refPending')
        BY DEF Kept
    <2>1. CASE u = t
        BY <1>2, <2>1, Numbers
    <2>2. CASE u # t
        <3>1. state[u] = "queued"
            BY <1>1, <2>2, Numbers DEF TypeOK
        <3>2. u \in Waiting \cup Ref!Tasks(refPending)
            BY <1>1, <3>1 DEF Kept
        <3> QED BY <1>2, <1>4, <2>2, <3>2
    <2> QED BY <2>1, <2>2
<1> QED BY <1>2, <1>5, <1>6, <1>7, <1>8, <1>9, <1>10 DEF QueuesOK

\* exec() of the picked task, which leaves its variable.
LEMMA ExecStep ==
    ASSUME Regular, NEW t \in Task, Exec(t), now' = now,
           \/ t = refTask /\ refTask' = NoTask /\ unrefTask' = unrefTask
           \/ t = unrefTask /\ unrefTask' = NoTask /\ refTask' = refTask
    PROVE  /\ QueuesOK' /\ Kept'
           /\ due' \in [Task -> Times] /\ state' \in [Task -> {"new", "queued", "executed", "cleared"}]
           /\ refPending' \in Seq(RefTask \cup PollTask) /\ unrefPending' \in Seq(UnrefTask)
           /\ refActive' = refActive /\ unrefActive' = unrefActive
<1> USE Places
<1>1. TypeOK /\ QueuesOK /\ Kept
    BY DEF Regular
<1>2. /\ t \in Waiting /\ t \notin Pending
      /\ t \notin Ref!Tasks(refActive) \cup Ref!Tasks(unrefActive)
      /\ refTask = t => t \in RefTask \cup PollTask
      /\ unrefTask = t => t \in UnrefTask
    BY <1>1, Numbers DEF Waiting, QueuesOK, BatchOrdered, TypeOK
<1>3. /\ t \notin {refTask', unrefTask'}
      /\ {refTask, unrefTask} \subseteq {refTask', unrefTask', t, NoTask}
      /\ refTask' \in {refTask, NoTask} /\ unrefTask' \in {unrefTask, NoTask}
    BY <1>2, Numbers
<1>4. CASE t \in Intervals
    <2>1. Insert(t) /\ state' = [state EXCEPT ![t] = "queued"]
        BY <1>4 DEF Exec
    <2> QED BY <1>2, <1>3, <2>1, InsertStep
<1>5. CASE t \notin Intervals
    <2>1. /\ state' = [state EXCEPT ![t] = "executed"] /\ due' = due
          /\ refPending' = refPending /\ refActive' = refActive
          /\ unrefPending' = unrefPending /\ unrefActive' = unrefActive
        BY <1>5 DEF Exec, refQueue, unrefQueue
    <2>2. Pending' = Pending /\ Waiting' = Waiting \ {t}
        BY <1>2, <1>3, <2>1 DEF Pending, Waiting
    <2>3. /\ Ordered(refPending)' /\ BatchOrdered(refTask, refActive)'
          /\ Ordered(unrefPending)' /\ BatchOrdered(unrefTask, unrefActive)'
        BY <1>1, <1>3, <2>1 DEF QueuesOK, BatchOrdered, Ordered
    <2>4. /\ \A u \in Waiting' : u \notin Pending' /\ due'[u] <= now'
          /\ \A u \in Waiting' \cup Pending' : state'[u] = "queued"
        BY <1>1, <1>2, <2>1, <2>2 DEF QueuesOK, TypeOK
    <2>5. Kept'
        BY <1>1, <1>2, <2>1, <2>2, Numbers DEF Kept, TypeOK
    <2>6. QueuesOK'
        BY <2>3, <2>4 DEF QueuesOK
    <2>7. state' \in [Task -> {"new", "queued", "executed", "cleared"}]
        BY <1>1, <2>1 DEF TypeOK
    <2> QED BY <1>1, <2>1, <2>5, <2>6, <2>7 DEF TypeOK
<1> QED BY <1>4, <1>5

\* refQueue.cycle(), after the last batch was handed out.
LEMMA CycleRefStep ==
    ASSUME Regular, CycleRef
    PROVE  /\ QueuesOK' /\ Kept'
           /\ refPending' \in Seq(RefTask \cup PollTask) /\ refActive' \in Seq(RefTask \cup PollTask)
<1> USE Places
<1>1. TypeOK /\ QueuesOK /\ Kept /\ PhasesOK
    BY DEF Regular
<1>2. /\ phase = "cycle" /\ SliceRef /\ due' = due /\ state' = state /\ now' = now
      /\ unrefPending' = unrefPending /\ unrefActive' = unrefActive
      /\ refTask' = refTask /\ unrefTask' = unrefTask
    BY DEF CycleRef, Goto, unrefQueue, picked
<1>3. refActive = <<>> /\ refTask = NoTask /\ unrefTask = NoTask
    BY <1>1, <1>2 DEF PhasesOK, Between
<1> DEFINE n == Ref!DueBy(refPending, due, now)
<1>4. CASE n = 0
    <2>1. UNCHANGED refQueue
        BY <1>2, <1>4 DEF SliceRef
    <2>2. QueuesOK' /\ Kept'
        BY <1>1, <1>2, <2>1, CalmStep DEF unrefQueue, picked, TypeOK
    <2> QED BY <1>1, <2>1, <2>2 DEF TypeOK, refQueue
<1>5. CASE n # 0
    <2>1. /\ refActive' = FrontOf(refPending, n)
          /\ refPending' = RestOf(refPending, n)
        BY <1>2, <1>5 DEF SliceRef, FrontOf, RestOf
    <2> HIDE DEF n
    <2>2. /\ refActive' \in Seq(RefTask \cup PollTask) /\ refPending' \in Seq(RefTask \cup PollTask)
          /\ Ref!Tasks(refPending) = Ref!Tasks(refActive') \cup Ref!Tasks(refPending')
          /\ Ref!Tasks(refActive') \cap Ref!Tasks(refPending') = {}
          /\ \A t \in Ref!Tasks(refActive') : due[t] <= now
          /\ InOrder(refActive', Len(refActive'), due)
          /\ InOrder(refPending', Len(refPending'), due)
        <3>1. /\ refPending \in Seq(RefTask \cup PollTask) /\ InOrder(refPending, Len(refPending), due)
              /\ now \in Int /\ due \in [Task -> Int] /\ RefTask \cup PollTask \subseteq Task
            BY <1>1, OrderedIs, Numbers DEF TypeOK, QueuesOK
        <3>2. \A q \in Seq(RefTask \cup PollTask) : InOrder(q, Len(q), due) =>
                  LET k == Ref!DueBy(q, due, now)
                      a == FrontOf(q, k)
                      b == RestOf(q, k)
                  IN  /\ a \in Seq(RefTask \cup PollTask) /\ b \in Seq(RefTask \cup PollTask)
                      /\ Ref!Tasks(q) = Ref!Tasks(a) \cup Ref!Tasks(b)
                      /\ Ref!Tasks(a) \cap Ref!Tasks(b) = {}
                      /\ \A t \in Ref!Tasks(a) : due[t] <= now
                      /\ InOrder(a, Len(a), due) /\ InOrder(b, Len(b), due)
            BY <3>1, QueueSlice
        <3> QED BY <2>1, <3>1, <3>2 DEF n
    <2>3. Ref!Tasks(refActive) = {}
        BY <1>1, <1>3, TasksOf DEF TypeOK
    <2>4. /\ Waiting = Ref!Tasks(unrefActive) /\ Waiting' = Ref!Tasks(refActive') \cup Ref!Tasks(unrefActive)
          /\ Pending' = Ref!Tasks(refPending') \cup Ref!Tasks(unrefPending)
          /\ Pending = Ref!Tasks(refPending) \cup Ref!Tasks(unrefPending)
        BY <1>2, <1>3, <2>3 DEF Waiting, Pending
    <2>5. Ordered(refPending)' /\ BatchOrdered(refTask, refActive)'
        BY <1>2, <1>3, <2>2, OrderedIs DEF BatchOrdered
    <2>6. Ordered(unrefPending)' /\ BatchOrdered(unrefTask, unrefActive)'
        BY <1>1, <1>2 DEF QueuesOK, BatchOrdered, Ordered
    <2>7. \A t \in Waiting' : t \notin Pending'
        BY <1>1, <2>2, <2>4, Numbers DEF QueuesOK
    <2>8. \A t \in Waiting' \cup Pending' : state'[t] = "queued"
        BY <1>1, <1>2, <2>2, <2>4 DEF QueuesOK
    <2>9. \A t \in Waiting' : due'[t] <= now'
        BY <1>1, <1>2, <2>2, <2>4 DEF QueuesOK
    <2>10. Kept'
        BY <1>1, <1>2, <2>2, <2>4 DEF Kept
    <2> QED BY <2>2, <2>5, <2>6, <2>7, <2>8, <2>9, <2>10 DEF QueuesOK
<1> QED BY <1>4, <1>5

\* unrefQueue.cycle().  What is left of the last batch is lost: nothing that is proved
\* here speaks of it.
LEMMA CycleUnrefStep ==
    ASSUME Regular, CycleUnref
    PROVE  /\ QueuesOK' /\ Kept'
           /\ unrefPending' \in Seq(UnrefTask) /\ unrefActive' \in Seq(UnrefTask)
<1> USE Places
<1>1. TypeOK /\ QueuesOK /\ Kept /\ PhasesOK
    BY DEF Regular
<1>2. /\ phase = "cycleUnref" /\ due' = due /\ state' = state /\ now' = now
      /\ refPending' = refPending /\ refActive' = refActive
      /\ refTask' = refTask /\ unrefTask' = unrefTask
    BY DEF CycleUnref, Goto, refQueue, picked
<1>3. refTask = NoTask /\ unrefTask = NoTask
    BY <1>1, <1>2 DEF PhasesOK, Between
<1> DEFINE n == Ref!DueBy(unrefPending, due, now)
<1>4. CASE n = 0
    <2>1. UNCHANGED unrefQueue
        BY <1>4, SameOperators DEF CycleUnref
    <2>2. QueuesOK' /\ Kept'
        BY <1>1, <1>2, <2>1, CalmStep DEF refQueue, picked, TypeOK
    <2> QED BY <1>1, <2>1, <2>2 DEF TypeOK, unrefQueue
<1>5. CASE n # 0
    <2>1. /\ unrefActive' = FrontOf(unrefPending, n)
          /\ unrefPending' = RestOf(unrefPending, n)
        BY <1>5, SameOperators DEF CycleUnref, FrontOf, RestOf
    <2> HIDE DEF n
    <2>2. /\ unrefActive' \in Seq(UnrefTask) /\ unrefPending' \in Seq(UnrefTask)
          /\ Ref!Tasks(unrefPending) = Ref!Tasks(unrefActive') \cup Ref!Tasks(unrefPending')
          /\ Ref!Tasks(unrefActive') \cap Ref!Tasks(unrefPending') = {}
          /\ \A t \in Ref!Tasks(unrefActive') : due[t] <= now
          /\ InOrder(unrefActive', Len(unrefActive'), due)
          /\ InOrder(unrefPending', Len(unrefPending'), due)
        <3>1. /\ unrefPending \in Seq(UnrefTask) /\ InOrder(unrefPending, Len(unrefPending), due)
              /\ now \in Int /\ due \in [Task -> Int] /\ UnrefTask \subseteq Task
            BY <1>1, OrderedIs, Numbers DEF TypeOK, QueuesOK
        <3>2. \A q \in Seq(UnrefTask) : InOrder(q, Len(q), due) =>
                  LET k == Ref!DueBy(q, due, now)
                      a == FrontOf(q, k)
                      b == RestOf(q, k)
                  IN  /\ a \in Seq(UnrefTask) /\ b \in Seq(UnrefTask)
                      /\ Ref!Tasks(q) = Ref!Tasks(a) \cup Ref!Tasks(b)
                      /\ Ref!Tasks(a) \cap Ref!Tasks(b) = {}
                      /\ \A t \in Ref!Tasks(a) : due[t] <= now
                      /\ InOrder(a, Len(a), due) /\ InOrder(b, Len(b), due)
            BY <3>1, QueueSlice
        <3> QED BY <2>1, <3>1, <3>2 DEF n
    <2>3. /\ Waiting = Ref!Tasks(refActive) \cup Ref!Tasks(unrefActive)
          /\ Waiting' = Ref!Tasks(refActive) \cup Ref!Tasks(unrefActive')
          /\ Pending' = Ref!Tasks(refPending) \cup Ref!Tasks(unrefPending')
          /\ Pending = Ref!Tasks(refPending) \cup Ref!Tasks(unrefPending)
        BY <1>2, <1>3 DEF Waiting, Pending
    <2>4. Ordered(unrefPending)' /\ BatchOrdered(unrefTask, unrefActive)'
        <3>1. Ordered(unrefPending)' /\ Ordered(unrefActive)'
            BY <1>2, <2>2, OrderedIs
        <3>2. unrefTask' = NoTask
            BY <1>2, <1>3
        <3> QED BY <3>1, <3>2 DEF BatchOrdered
    <2>5. Ordered(refPending)' /\ BatchOrdered(refTask, refActive)'
        BY <1>1, <1>2 DEF QueuesOK, BatchOrdered, Ordered
    <2>6. \A t \in Waiting' : t \notin Pending'
        BY <1>1, <2>2, <2>3, Numbers DEF QueuesOK
    <2>7. \A t \in Waiting' \cup Pending' : state'[t] = "queued"
        BY <1>1, <1>2, <2>2, <2>3 DEF QueuesOK
    <2>8. \A t \in Waiting' : due'[t] <= now'
        BY <1>1, <1>2, <2>2, <2>3 DEF QueuesOK
    <2>9. Kept'
        <3>1. \A t \in RefTask \cup PollTask : t \notin Ref!Tasks(unrefActive)
            BY Numbers
        <3> QED BY <1>1, <1>2, <2>3, <3>1 DEF Kept
    <2> QED BY <2>2, <2>4, <2>5, <2>6, <2>7, <2>8, <2>9 DEF QueuesOK
<1> QED BY <1>4, <1>5

\* pop() of the batches into the two variables of start().
LEMMA PopRefStep ==
    ASSUME Regular, refTask = NoTask, PopRef
    PROVE  /\ refPending' = refPending
           /\ refActive' \in Seq(RefTask \cup PollTask) /\ refTask' \in RefTask \cup PollTask \cup {NoTask}
           /\ Ref!Tasks(refActive') \cup ({refTask'} \ {NoTask}) = Ref!Tasks(refActive)
           /\ due' = due => BatchOrdered(refTask, refActive)'
           /\ refTask' = NoTask => refActive' = <<>>
<1>1. /\ refActive \in Seq(RefTask \cup PollTask) /\ InOrder(refActive, Len(refActive), due)
      /\ NoTask \notin RefTask \cup PollTask
    BY OrderedIs, Numbers DEF Regular, TypeOK, QueuesOK, BatchOrdered
<1>2. CASE refActive = <<>>
    <2>1. refTask' = NoTask /\ refActive' = refActive /\ refPending' = refPending
        BY <1>2 DEF PopRef, refQueue
    <2>2. due' = due => Ordered(refActive)'
        BY <1>1, <2>1, OrderedIs
    <2> QED BY <1>1, <1>2, <2>1, <2>2 DEF BatchOrdered
<1>3. CASE refActive # <<>>
    <2>1. refTask' = Head(refActive) /\ refActive' = Tail(refActive) /\ refPending' = refPending
        BY <1>3 DEF PopRef
    <2>2. /\ Head(refActive) \in RefTask \cup PollTask /\ Tail(refActive) \in Seq(RefTask \cup PollTask)
          /\ InOrder(Tail(refActive), Len(Tail(refActive)), due)
          /\ Ref!Tasks(refActive) = Ref!Tasks(Tail(refActive)) \cup {Head(refActive)}
          /\ \A u \in Ref!Tasks(Tail(refActive)) : Head(refActive) # u /\ due[Head(refActive)] <= due[u]
        BY <1>1, <1>3, QueuePop
    <2>3. due' = due => Ordered(refActive)'
        BY <2>1, <2>2, OrderedIs
    <2>4. due' = due => BatchOrdered(refTask, refActive)'
        BY <2>1, <2>2, <2>3 DEF BatchOrdered
    <2> QED BY <1>1, <2>1, <2>2, <2>4
<1> QED BY <1>2, <1>3

LEMMA PopUnrefStep ==
    ASSUME Regular, PopUnref
    PROVE  /\ unrefPending' = unrefPending
           /\ unrefActive' \in Seq(UnrefTask) /\ unrefTask' \in UnrefTask \cup {NoTask}
           /\ Ref!Tasks(unrefActive') \cup ({unrefTask'} \ {NoTask}) = Ref!Tasks(unrefActive)
           /\ due' = due => BatchOrdered(unrefTask, unrefActive)'
           /\ unrefTask' = NoTask => unrefActive' = <<>>
<1>1. /\ unrefActive \in Seq(UnrefTask) /\ InOrder(unrefActive, Len(unrefActive), due)
      /\ NoTask \notin UnrefTask
    BY OrderedIs, Numbers DEF Regular, TypeOK, QueuesOK, BatchOrdered
<1>2. CASE unrefActive = <<>>
    <2>1. unrefTask' = NoTask /\ unrefActive' = unrefActive /\ unrefPending' = unrefPending
        BY <1>2 DEF PopUnref, unrefQueue
    <2>2. due' = due => Ordered(unrefActive)'
        BY <1>1, <2>1, OrderedIs
    <2> QED BY <1>1, <1>2, <2>1, <2>2 DEF BatchOrdered
<1>3. CASE unrefActive # <<>>
    <2>1. /\ unrefTask' = Head(unrefActive) /\ unrefActive' = Tail(unrefActive)
          /\ unrefPending' = unrefPending
        BY <1>3 DEF PopUnref
    <2>2. /\ Head(unrefActive) \in UnrefTask /\ Tail(unrefActive) \in Seq(UnrefTask)
          /\ InOrder(Tail(unrefActive), Len(Tail(unrefActive)), due)
          /\ Ref!Tasks(unrefActive) = Ref!Tasks(Tail(unrefActive)) \cup {Head(unrefActive)}
          /\ \A u \in Ref!Tasks(Tail(unrefActive)) :
                 Head(unrefActive) # u /\ due[Head(unrefActive)] <= due[u]
        BY <1>1, <1>3, QueuePop
    <2>3. due' = due => Ordered(unrefActive)'
        BY <2>1, <2>2, OrderedIs
    <2>4. due' = due => BatchOrdered(unrefTask, unrefActive)'
        BY <2>1, <2>2, <2>3 DEF BatchOrdered
    <2> QED BY <1>1, <2>1, <2>2, <2>4
<1> QED BY <1>2, <1>3

\* A step that only moves tasks from the batches to the variables; a task of unrefTask
\* may be lost by it.
LEMMA PopStep ==
    ASSUME Regular, PopBoth \/ PopOne
    PROVE  /\ QueuesOK' /\ Kept' /\ TypeOK'
           /\ refTask' = NoTask => refActive' = <<>>
           /\ refPending' = refPending /\ unrefPending' = unrefPending
<1> USE Places
<1>1. TypeOK /\ QueuesOK /\ Kept /\ PhasesOK
    BY DEF Regular
<1>2. /\ due' = due /\ running' = running /\ micro' = micro /\ queued' = queued /\ state' = state
      /\ pollRefs' = pollRefs /\ now' = now /\ phase' = "pick" /\ astray' = astray
    BY DEF PopBoth, PopOne, Goto, micros
<1>3. /\ \/ refTask = NoTask /\ PopRef
         \/ refTask # NoTask /\ refTask' = refTask /\ refActive' = refActive /\ refPending' = refPending
      /\ \/ PopUnref
         \/ unrefTask' = unrefTask /\ unrefActive' = unrefActive /\ unrefPending' = unrefPending
    BY <1>1 DEF PopBoth, PopOne, Goto, PhasesOK, Between, refQueue, unrefQueue
<1>4. /\ refPending' = refPending
      /\ refActive' \in Seq(RefTask \cup PollTask) /\ refTask' \in RefTask \cup PollTask \cup {NoTask}
      /\ Ref!Tasks(refActive') \cup ({refTask'} \ {NoTask}) = Ref!Tasks(refActive) \cup ({refTask} \ {NoTask})
      /\ BatchOrdered(refTask, refActive)'
      /\ refTask' = NoTask => refActive' = <<>>
    <2>1. CASE refTask = NoTask /\ PopRef
        BY <1>2, <2>1, PopRefStep
    <2>2. CASE /\ refTask # NoTask /\ refTask' = refTask
               /\ refActive' = refActive /\ refPending' = refPending
        BY <1>1, <1>2, <2>2 DEF TypeOK, QueuesOK, BatchOrdered, Ordered
    <2> QED BY <1>3, <2>1, <2>2
<1>5. /\ unrefPending' = unrefPending
      /\ unrefActive' \in Seq(UnrefTask) /\ unrefTask' \in UnrefTask \cup {NoTask}
      /\ Ref!Tasks(unrefActive') \cup ({unrefTask'} \ {NoTask})
             \subseteq Ref!Tasks(unrefActive) \cup ({unrefTask} \ {NoTask})
      /\ BatchOrdered(unrefTask, unrefActive)'
    <2>1. CASE PopUnref
        BY <1>2, <2>1, PopUnrefStep
    <2>2. CASE unrefTask' = unrefTask /\ unrefActive' = unrefActive /\ unrefPending' = unrefPending
        BY <1>1, <1>2, <2>2 DEF TypeOK, QueuesOK, BatchOrdered, Ordered
    <2> QED BY <1>3, <2>1, <2>2
<1>6. /\ Waiting' \subseteq Waiting /\ Pending' = Pending
      /\ \A t \in RefTask \cup PollTask : t \in Waiting => t \in Waiting'
    <2> DEFINE r == Ref!Tasks(refActive) \cup ({refTask} \ {NoTask})
               u == Ref!Tasks(unrefActive) \cup ({unrefTask} \ {NoTask})
    <2>1. Waiting = r \cup u /\ Waiting' = r' \cup u'
        BY DEF Waiting
    <2>2. r' = r /\ u' \subseteq u
        BY <1>4, <1>5
    <2>3. \A t \in RefTask \cup PollTask : t \notin u
        <3>1. \A t \in RefTask \cup PollTask : t \notin UnrefTask
            BY Numbers DEF Task
        <3>2. Ref!Tasks(unrefActive) \subseteq UnrefTask
            BY <1>1 DEF TypeOK
        <3>3. unrefTask \in UnrefTask \cup {NoTask}
            BY <1>1 DEF TypeOK
        <3> QED BY <3>1, <3>2, <3>3
    <2>4. Pending' = Pending
        BY <1>4, <1>5 DEF Pending
    <2> HIDE DEF r, u
    <2> QED BY <2>1, <2>2, <2>3, <2>4
<1>7. Kept'
    BY <1>1, <1>2, <1>4, <1>6 DEF Kept
<1>8. Ordered(refPending)' /\ Ordered(unrefPending)'
    BY <1>1, <1>2, <1>4, <1>5 DEF QueuesOK, Ordered
<1>9. QueuesOK'
    BY <1>1, <1>2, <1>4, <1>5, <1>6, <1>8 DEF QueuesOK
<1>10. TypeOK'
    BY <1>1, <1>2, <1>4, <1>5 DEF TypeOK
<1> QED BY <1>4, <1>5, <1>7, <1>9, <1>10

-----------------------------------------------------------------------------
(* The invariant.                                                          *)

LEMMA InitOK ==
    ASSUME Init
    PROVE  Regular
<1>1. /\ <<>> \in Seq(RefTask \cup PollTask) /\ <<>> \in Seq(UnrefTask)
      /\ Ref!Tasks(<<>>) = {} /\ Len(<<>>) = 0
    BY TasksOf, EmptySeq
<1>2. TypeOK
    <2>1. astray \in BOOLEAN
        BY DEF Init
    <2> QED BY <1>1, <2>1, Numbers DEF Init, TypeOK
<1>3. Waiting = {} /\ Pending = {}
    BY <1>1 DEF Init, Waiting, Pending
<1>4. Ordered(<<>>)
    BY <1>1 DEF Ordered
<1>5. QueuesOK
    BY <1>3, <1>4 DEF Init, QueuesOK, BatchOrdered
<1>6. PhasesOK
    BY DEF Init, PhasesOK, Between
<1>7. Kept /\ NoOversleep
    BY <1>3, Numbers DEF Init, Kept, NoOversleep, Asleep
<1> QED BY <1>2, <1>5, <1>6, <1>7 DEF Init, Regular

\* The steps that leave the queues and the tasks alone.
Calm == \/ NextTick \/ Bind \/ EndCallback \/ StartMicro \/ NoMicro \/ EndBatch
        \/ Stop \/ Decide \/ Wake \/ SocketEvent \/ Tick

LEMMA CalmActions ==
    ASSUME Regular, Calm
    PROVE  QueuesOK' /\ Kept' /\ TypeOK'
<1> USE DEF NextTick, Bind, EndCallback, EndMacro, EndMicro, EndHandler, StartMicro, NoMicro,
            EndBatch, Stop, Decide, Wake, SocketEvent, Tick, Goto, AfterMicro
<1>1. TypeOK /\ PhasesOK /\ phase # "astray"
    BY DEF Regular
<1>2. UNCHANGED <<refQueue, unrefQueue, due, picked, state>>
    BY DEF Calm
<1>3. now' \in 0 .. MaxTime /\ now <= now'
    BY <1>1, TasksAssumption DEF Calm, TypeOK
<1>4. QueuesOK' /\ Kept'
    BY <1>2, <1>3, CalmStep
<1>5. queued' \in 0 .. MaxMicro /\ micro' \in 0 .. queued'
    BY <1>1, TasksAssumption DEF Calm, TypeOK, PhasesOK, micros
<1>6. /\ phase' \in {"cycle", "cycleUnref", "pop", "pick", "macro", "micro", "inMicro",
                      "popOne", "decide", "sleep", "poll", "handler", "rearm", "stopped"}
      /\ running' \in Task \cup {NoTask} /\ pollRefs' \in {0, 1}
    BY <1>1 DEF Calm, TypeOK
<1>7. astray' = astray
    BY Zenon DEF Calm
<1> QED BY <1>1, <1>2, <1>3, <1>4, <1>5, <1>6, <1>7 DEF TypeOK, refQueue, unrefQueue, picked

\* A task that was never scheduled is inserted, by a callback or by poll.wait.
LEMMA NewTask ==
    ASSUME Regular, NEW t \in Task, state[t] = "new", Insert(t),
           state' = [state EXCEPT ![t] = "queued"], now' = now, UNCHANGED picked
    PROVE  /\ QueuesOK' /\ Kept'
           /\ due' \in [Task -> Times] /\ state' \in [Task -> {"new", "queued", "executed", "cleared"}]
           /\ refPending' \in Seq(RefTask \cup PollTask) /\ unrefPending' \in Seq(UnrefTask)
           /\ refActive' = refActive /\ unrefActive' = unrefActive
<1>1. t \notin Waiting /\ t \notin Pending
    BY DEF Regular, QueuesOK
<1>2. t # NoTask
    BY Numbers
<1>3. /\ t \notin Ref!Tasks(refActive) \cup Ref!Tasks(unrefActive)
      /\ t \notin {refTask, unrefTask}
    BY <1>1, <1>2 DEF Waiting
<1>4. refTask' = refTask /\ unrefTask' = unrefTask
    BY DEF picked
<1> QED BY <1>1, <1>3, <1>4, InsertStep

LEMMA ScheduleStep ==
    ASSUME Regular, NEW t \in RefTask \cup UnrefTask, Schedule(t)
    PROVE  QueuesOK' /\ Kept' /\ TypeOK' /\ refActive' = refActive /\ unrefActive' = unrefActive
<1>1. t \in Task /\ TypeOK
    BY DEF Regular, Task
<1>2. /\ state[t] = "new" /\ Insert(t) /\ state' = [state EXCEPT ![t] = "queued"] /\ now' = now
      /\ phase' = phase /\ refTask' = refTask /\ unrefTask' = unrefTask /\ running' = running
      /\ micro' = micro /\ queued' = queued /\ pollRefs' = pollRefs /\ astray' = astray
    BY DEF Schedule, picked, micros
<1>3. /\ QueuesOK' /\ Kept'
      /\ due' \in [Task -> Times] /\ state' \in [Task -> {"new", "queued", "executed", "cleared"}]
      /\ refPending' \in Seq(RefTask \cup PollTask) /\ unrefPending' \in Seq(UnrefTask)
      /\ refActive' = refActive /\ unrefActive' = unrefActive
    BY <1>1, <1>2, NewTask DEF picked
<1>4. TypeOK'
    BY <1>1, <1>2, <1>3 DEF TypeOK
<1> QED BY <1>3, <1>4

\* A queue in order without a task.
LEMMA WithoutOne ==
    ASSUME NEW S, NEW q \in Seq(S), InOrder(q, Len(q), due), NEW t
    PROVE  LET r == Ref!Without(q, t)
           IN  /\ r \in Seq(S) /\ Ref!Tasks(r) = Ref!Tasks(q) \ {t}
               /\ InOrder(r, Len(r), due) /\ (q = <<>> => r = <<>>)
<1>1. CASE t \notin Ref!Tasks(q)
    <2>1. Ref!Without(q, t) = q
        BY <1>1 DEF Ref!Without
    <2> QED BY <1>1, <2>1
<1>2. CASE t \in Ref!Tasks(q)
    <2> DEFINE n == CHOOSE k \in 1 .. Len(q) : q[k] = t
               a == SubSeq(q, 1, n - 1)
               b == SubSeq(q, n + 1, Len(q))
               r == a \o b
               m == Len(q)
    <2>1. m \in Nat /\ \A i \in 1 .. m : q[i] \in S
        BY LenProperties, ElementOfSeq
    <2>2. n \in 1 .. m /\ q[n] = t /\ Ref!Without(q, t) = r
        BY <1>2 DEF Ref!Without, Ref!Tasks
    <2>3. m >= 1 /\ q # <<>>
        BY <2>1, <2>2, EmptySeq
    <2>4. InOrder(q, m, due) /\ Ref!Tasks(q) = {q[i] : i \in 1 .. m}
        BY DEF Ref!Tasks
    <2> HIDE DEF n
    <2>5. a \in Seq(S) /\ Len(a) = n - 1 /\ \A i \in 1 .. n - 1 : a[i] = q[i]
        <3>1. n - 1 \in 0 .. Len(q)
            BY <2>1, <2>2
        <3> QED BY <3>1, Cut
    <2>6. b \in Seq(S) /\ Len(b) = m - n /\ \A i \in 1 .. m - n : b[i] = q[n + i]
        <3>1. n \in 0 .. Len(q)
            BY <2>1, <2>2
        <3> QED BY <3>1, Cut
    <2> HIDE DEF a, b
    <2>7. /\ r \in Seq(S) /\ Len(r) = (n - 1) + (m - n)
          /\ \A i \in 1 .. (n - 1) + (m - n) : r[i] = IF i <= n - 1 THEN a[i] ELSE b[i - (n - 1)]
        <3>1. /\ a \o b \in Seq(S) /\ Len(a \o b) = Len(a) + Len(b)
              /\ \A i \in 1 .. Len(a) + Len(b) :
                     (a \o b)[i] = IF i <= Len(a) THEN a[i] ELSE b[i - Len(a)]
            BY <2>5, <2>6, ConcatProperties, Zenon
        <3> QED BY <2>5, <2>6, <3>1, Zenon
    <2> HIDE DEF r, m
    <2>8. Len(r) = m - 1 /\ (n - 1) + (m - n) = m - 1
        BY <2>1, <2>2, <2>7
    <2>9. ASSUME NEW i \in 1 .. m - 1
          PROVE  /\ i < n => r[i] = q[i] /\ i \in 1 .. m
                 /\ i >= n => r[i] = q[i + 1] /\ i + 1 \in 1 .. m
        <3>1. CASE i < n
            <4>1. i \in 1 .. n - 1 /\ i <= n - 1 /\ i \in 1 .. m
                BY <2>1, <2>2, <3>1
            <4> QED BY <2>2, <2>5, <2>7, <2>8, <3>1, <4>1
        <3>2. CASE i >= n
            <4> DEFINE k == i - (n - 1)
            <4>1. k \in 1 .. m - n /\ n + k = i + 1 /\ ~(i <= n - 1) /\ i + 1 \in 1 .. m
                BY <2>1, <2>2, <3>2
            <4>2. r[i] = b[k]
                BY <2>7, <2>8, <4>1
            <4> HIDE DEF k
            <4>3. b[k] = q[i + 1]
                BY <2>6, <4>1
            <4> QED BY <2>2, <3>2, <4>1, <4>2, <4>3
        <3> QED BY <2>2, <3>1, <3>2
    <2>10. InOrder(r, m - 1, due)
        <3> SUFFICES ASSUME NEW i \in 1 .. m - 1, NEW j \in 1 .. m - 1, i < j
                     PROVE  r[i] # r[j] /\ due[r[i]] <= due[r[j]]
            BY DEF InOrder
        <3>1. CASE j < n
            BY <2>2, <2>4, <2>9, <3>1 DEF InOrder
        <3>2. CASE j >= n /\ i < n
            <4>1. i < j + 1 /\ r[i] = q[i] /\ r[j] = q[j + 1] /\ i \in 1 .. m /\ j + 1 \in 1 .. m
                BY <2>2, <2>9, <3>2
            <4> QED BY <2>4, <4>1 DEF InOrder
        <3>3. CASE j >= n /\ i >= n
            <4>1. i + 1 < j + 1 /\ r[i] = q[i + 1] /\ r[j] = q[j + 1] /\ i + 1 \in 1 .. m /\ j + 1 \in 1 .. m
                BY <2>2, <2>9, <3>3
            <4> QED BY <2>4, <4>1 DEF InOrder
        <3> QED BY <2>2, <3>1, <3>2, <3>3
    <2>11. Ref!Tasks(r) = {r[i] : i \in 1 .. m - 1}
        BY <2>8 DEF Ref!Tasks
    <2>12. \A i, j \in 1 .. m : i # j => q[i] # q[j]
        BY <2>1, <2>4 DEF InOrder
    <2>13. Ref!Tasks(r) = Ref!Tasks(q) \ {t}
        <3>1. ASSUME NEW i \in 1 .. m - 1 PROVE r[i] \in Ref!Tasks(q) \ {t}
            <4>1. PICK k \in 1 .. m : r[i] = q[k] /\ k # n
                BY <2>2, <2>9
            <4> QED BY <2>2, <2>4, <2>12, <4>1
        <3>2. ASSUME NEW k \in 1 .. m, q[k] # t PROVE q[k] \in Ref!Tasks(r)
            <4>1. k < n \/ k > n
                BY <2>2, <3>2
            <4>2. CASE k < n
                <5>1. k \in 1 .. m - 1
                    BY <2>1, <2>2, <4>2
                <5> QED BY <2>9, <2>11, <4>2, <5>1
            <4>3. CASE k > n
                <5>1. k - 1 \in 1 .. m - 1 /\ k - 1 >= n /\ (k - 1) + 1 = k
                    BY <2>1, <2>2, <4>3
                <5>2. r[k - 1] = q[k]
                    BY <2>9, <5>1
                <5> QED BY <2>11, <5>1, <5>2
            <4> QED BY <4>1, <4>2, <4>3
        <3> QED BY <2>4, <2>11, <3>1, <3>2
    <2> QED BY <2>2, <2>3, <2>7, <2>8, <2>10, <2>13
<1> QED BY <1>1, <1>2

\* clearTimeout() of a task that is pending, or behind the head of a batch.
LEMMA ClearStep ==
    ASSUME Regular, NEW t \in Handles, Clear(t)
    PROVE  /\ QueuesOK' /\ Kept' /\ TypeOK'
           /\ refActive = <<>> => refActive' = <<>>
           /\ unrefActive = <<>> => unrefActive' = <<>>
<1> USE Places
<1>1. TypeOK /\ QueuesOK /\ Kept
    BY DEF Regular
<1>2. /\ t \in Task
      /\ Cancel(t) /\ state' = [state EXCEPT ![t] = "cleared"] /\ due' = due
      /\ phase' = phase /\ refTask' = refTask /\ unrefTask' = unrefTask /\ running' = running
      /\ micro' = micro /\ queued' = queued /\ pollRefs' = pollRefs /\ astray' = astray
      /\ now' = now
    BY TasksAssumption DEF Clear, Cancel, Ref!Cancel, Unref!Cancel, picked, micros, Task
<1>3. /\ \A q : Unref!Without(q, t) = Ref!Without(q, t)
      /\ t \in UnrefTask => /\ unrefPending' = Ref!Without(unrefPending, t)
                            /\ unrefActive' = Ref!Without(unrefActive, t)
                            /\ refPending' = refPending /\ refActive' = refActive
      /\ t \notin UnrefTask => /\ refPending' = Ref!Without(refPending, t)
                               /\ refActive' = Ref!Without(refActive, t)
                               /\ unrefPending' = unrefPending /\ unrefActive' = unrefActive
    <2>1. \A q : Unref!Without(q, t) = Ref!Without(q, t)
        BY DEF Unref!Without, Ref!Without, Unref!Tasks, Ref!Tasks
    <2> QED BY <1>2, <2>1 DEF Cancel, Unref!Cancel, Ref!Cancel, refQueue, unrefQueue
<1>4. /\ refPending \in Seq(RefTask \cup PollTask) /\ InOrder(refPending, Len(refPending), due)
      /\ refActive \in Seq(RefTask \cup PollTask) /\ InOrder(refActive, Len(refActive), due)
      /\ unrefPending \in Seq(UnrefTask) /\ InOrder(unrefPending, Len(unrefPending), due)
      /\ unrefActive \in Seq(UnrefTask) /\ InOrder(unrefActive, Len(unrefActive), due)
    BY <1>1, OrderedIs DEF TypeOK, QueuesOK, BatchOrdered
<1>5. /\ refPending' \in Seq(RefTask \cup PollTask) /\ InOrder(refPending', Len(refPending'), due)
      /\ refActive' \in Seq(RefTask \cup PollTask) /\ InOrder(refActive', Len(refActive'), due)
      /\ Ref!Tasks(refPending') = Ref!Tasks(refPending) \ {t}
      /\ Ref!Tasks(refActive') = Ref!Tasks(refActive) \ {t}
      /\ refActive = <<>> => refActive' = <<>>
    <2>1. CASE t \notin UnrefTask
        BY <1>3, <1>4, <2>1, WithoutOne
    <2>2. CASE t \in UnrefTask
        <3>1. t \notin Ref!Tasks(refPending) /\ t \notin Ref!Tasks(refActive)
            BY <1>2, <2>2, Numbers
        <3> QED BY <1>3, <1>4, <2>2, <3>1
    <2> QED BY <2>1, <2>2
<1>6. /\ unrefPending' \in Seq(UnrefTask) /\ InOrder(unrefPending', Len(unrefPending'), due)
      /\ unrefActive' \in Seq(UnrefTask) /\ InOrder(unrefActive', Len(unrefActive'), due)
      /\ Ref!Tasks(unrefPending') = Ref!Tasks(unrefPending) \ {t}
      /\ Ref!Tasks(unrefActive') = Ref!Tasks(unrefActive) \ {t}
      /\ unrefActive = <<>> => unrefActive' = <<>>
    <2>1. CASE t \in UnrefTask
        BY <1>3, <1>4, <2>1, WithoutOne
    <2>2. CASE t \notin UnrefTask
        <3>1. t \notin Ref!Tasks(unrefPending) /\ t \notin Ref!Tasks(unrefActive)
            BY <2>2
        <3> QED BY <1>3, <1>4, <2>2, <3>1
    <2> QED BY <2>1, <2>2
<1>7. t \notin {refTask, unrefTask}
    <2>1. t \in Pending \cup Ref!Tasks(refActive) \cup Ref!Tasks(unrefActive)
        <3>1. Len(refActive) \in Nat /\ Len(unrefActive) \in Nat
            BY <1>4, LenProperties
        <3>2. \A i \in 2 .. Len(refActive) : i \in 1 .. Len(refActive)
            BY <3>1
        <3>3. \A i \in 2 .. Len(unrefActive) : i \in 1 .. Len(unrefActive)
            BY <3>1
        <3> QED BY <3>2, <3>3 DEF Clear, Behind, Ref!Tasks
    <2>2. CASE t \in Pending
        <3>1. t \notin Waiting
            BY <1>1, <2>2 DEF QueuesOK
        <3> QED BY <1>2, <3>1 DEF Waiting
    <2>3. CASE t \in Ref!Tasks(refActive)
        <3>1. refTask # NoTask => refTask # t
            BY <1>1, <2>3 DEF QueuesOK, BatchOrdered
        <3>2. unrefTask # t
            BY <1>1, <1>2, <2>3, Numbers DEF TypeOK
        <3> QED BY <1>2, <3>1, <3>2
    <2>4. CASE t \in Ref!Tasks(unrefActive)
        <3>1. unrefTask # NoTask => unrefTask # t
            BY <1>1, <2>4 DEF QueuesOK, BatchOrdered
        <3>2. refTask # t
            BY <1>1, <1>2, <2>4, Numbers DEF TypeOK
        <3> QED BY <1>2, <3>1, <3>2
    <2> QED BY <2>1, <2>2, <2>3, <2>4
<1>8. Waiting' = Waiting \ {t} /\ Pending' = Pending \ {t}
    BY <1>2, <1>5, <1>6, <1>7 DEF Waiting, Pending
<1>9. /\ Ordered(refPending)' /\ BatchOrdered(refTask, refActive)'
      /\ Ordered(unrefPending)' /\ BatchOrdered(unrefTask, unrefActive)'
    <2>1. Ordered(refPending)' /\ Ordered(refActive)' /\ Ordered(unrefPending)' /\ Ordered(unrefActive)'
        BY <1>2, <1>5, <1>6, OrderedIs
    <2> QED BY <1>1, <1>2, <1>5, <1>6, <2>1 DEF QueuesOK, BatchOrdered
<1>10. /\ \A u \in Waiting' : u \notin Pending' /\ due'[u] <= now'
       /\ \A u \in Waiting' \cup Pending' : state'[u] = "queued"
    BY <1>1, <1>2, <1>8 DEF QueuesOK, TypeOK
<1>11. state' \in [Task -> {"new", "queued", "executed", "cleared"}]
    BY <1>1, <1>2 DEF TypeOK
<1>12. Kept'
    <2> SUFFICES ASSUME NEW u \in RefTask \cup PollTask, state'[u] = "queued"
                 PROVE  u \in Waiting' \cup Ref!Tasks(refPending')
        BY DEF Kept
    <2>1. u # t /\ state[u] = "queued"
        BY <1>1, <1>2, Numbers DEF TypeOK
    <2> QED BY <1>1, <1>5, <1>8, <2>1 DEF Kept
<1>13. TypeOK'
    BY <1>1, <1>2, <1>5, <1>6, <1>11 DEF TypeOK
<1> QED BY <1>5, <1>6, <1>9, <1>10, <1>12, <1>13 DEF QueuesOK

\* A clear that cuts a queue leaves its types alone.
LEMMA CutStep ==
    ASSUME Regular, NEW t \in Handles, ClearCuts(t)
    PROVE  TypeOK' /\ astray' /\ phase' = "astray"
<1>1. TypeOK /\ QueuesOK
    BY DEF Regular
<1>2. /\ due' = due /\ refTask' = refTask /\ unrefTask' = unrefTask /\ running' = running
      /\ micro' = micro /\ queued' = queued /\ pollRefs' = pollRefs /\ now' = now
      /\ state' = state /\ astray' = TRUE /\ phase' = "astray"
    BY DEF ClearCuts, picked, micros
<1>3. ASSUME NEW S, NEW p \in Seq(S), NEW a \in Seq(S), InOrder(p, Len(p), due), NEW q \in Cuts(t, p, a)
      PROVE  q[1] \in Seq(S) /\ q[2] \in Seq(S)
    <2>1. <<>> \in Seq(S)
        OBVIOUS
    <2>2. CASE t \in Ref!Tasks(p)
        <3>1. q = <<Ref!Without(p, t), a>>
            BY <1>3, <2>2 DEF Cuts
        <3> QED BY <1>3, <3>1, WithoutOne
    <2>3. CASE t \notin Ref!Tasks(p) /\ t \in Ref!Tasks(a)
        <3>1. t \in S /\ q = <<p, <<t>>>>
            BY <1>3, <2>3, TasksOf DEF Cuts
        <3>2. q[1] = p /\ q[2] = <<t>>
            BY <3>1
        <3> QED BY <1>3, <3>1, <3>2
    <2>4. CASE t \notin Ref!Tasks(p) /\ t \notin Ref!Tasks(a)
        <3>1. q \in {<<<<>>, a>>, <<a, a>>}
            BY <1>3, <2>4 DEF Cuts
        <3>2. (q[1] = <<>> \/ q[1] = a) /\ q[2] = a
            BY <3>1
        <3> QED BY <1>3, <2>1, <3>2
    <2> QED BY <2>2, <2>3, <2>4
<1>4. /\ refPending \in Seq(RefTask \cup PollTask) /\ InOrder(refPending, Len(refPending), due)
      /\ refActive \in Seq(RefTask \cup PollTask)
      /\ unrefPending \in Seq(UnrefTask) /\ InOrder(unrefPending, Len(unrefPending), due)
      /\ unrefActive \in Seq(UnrefTask)
    BY <1>1, OrderedIs DEF TypeOK, QueuesOK
<1>5. /\ refPending' \in Seq(RefTask \cup PollTask) /\ refActive' \in Seq(RefTask \cup PollTask)
      /\ unrefPending' \in Seq(UnrefTask) /\ unrefActive' \in Seq(UnrefTask)
    <2>1. CASE t \in UnrefTask
        <3>1. PICK q \in Cuts(t, unrefPending, unrefActive) : unrefPending' = q[1] /\ unrefActive' = q[2]
            BY <2>1 DEF ClearCuts
        <3>2. refPending' = refPending /\ refActive' = refActive
            BY <2>1 DEF ClearCuts, refQueue
        <3> QED BY <1>3, <1>4, <3>1, <3>2
    <2>2. CASE t \notin UnrefTask
        <3>1. PICK q \in Cuts(t, refPending, refActive) : refPending' = q[1] /\ refActive' = q[2]
            BY <2>2 DEF ClearCuts
        <3>2. unrefPending' = unrefPending /\ unrefActive' = unrefActive
            BY <2>2 DEF ClearCuts, unrefQueue
        <3> QED BY <1>3, <1>4, <3>1, <3>2
    <2> QED BY <2>1, <2>2
<1> QED BY <1>1, <1>2, <1>5 DEF TypeOK

LEMMA PollStep ==
    ASSUME Regular, PollReturns
    PROVE  QueuesOK' /\ Kept' /\ TypeOK' /\ refActive' = refActive /\ unrefActive' = unrefActive
<1>1. TypeOK /\ QueuesOK /\ Kept
    BY DEF Regular
<1>2. /\ phase' \in {"cycle", "micro"} /\ running' = NoTask
      /\ refTask' = refTask /\ unrefTask' = unrefTask
      /\ micro' = micro /\ queued' = queued /\ pollRefs' = pollRefs /\ now' = now
      /\ astray' = astray
    BY DEF PollReturns, picked, micros
<1>3. CASE \E t \in PollTask : state[t] = "new"
    <2> DEFINE t == CHOOSE u \in PollTask : state[u] = "new"
    <2>1. t \in PollTask /\ state[t] = "new"
        BY <1>3
    <2>2. Insert(t) /\ state' = [state EXCEPT ![t] = "queued"]
        BY <1>3 DEF PollReturns
    <2> HIDE DEF t
    <2>3. t \in Task
        BY <2>1 DEF Task
    <2>4. /\ QueuesOK' /\ Kept'
          /\ due' \in [Task -> Times] /\ state' \in [Task -> {"new", "queued", "executed", "cleared"}]
          /\ refPending' \in Seq(RefTask \cup PollTask) /\ unrefPending' \in Seq(UnrefTask)
          /\ refActive' = refActive /\ unrefActive' = unrefActive
        BY <1>2, <2>1, <2>2, <2>3, NewTask DEF picked
    <2>5. TypeOK'
        BY <1>1, <1>2, <2>4 DEF TypeOK
    <2> QED BY <2>4, <2>5
<1>4. CASE ~\E t \in PollTask : state[t] = "new"
    <2>1. UNCHANGED <<refQueue, unrefQueue, due, picked, state>>
        BY <1>4 DEF PollReturns
    <2>2. QueuesOK' /\ Kept'
        BY <1>1, <1>2, <2>1, CalmStep, TasksAssumption DEF TypeOK
    <2> QED BY <1>1, <1>2, <2>1, <2>2 DEF TypeOK, refQueue, unrefQueue
<1> QED BY <1>3, <1>4

LEMMA PickStep ==
    ASSUME Regular, PickRef \/ PickUnref
    PROVE  /\ QueuesOK' /\ Kept' /\ TypeOK'
           /\ refActive' = refActive /\ unrefActive' = unrefActive
<1>1. TypeOK
    BY DEF Regular
<1>2. /\ micro' = micro /\ queued' = queued /\ pollRefs' = pollRefs /\ now' = now
      /\ phase' \in {"macro", "poll"} /\ astray' = astray
    BY DEF PickRef, PickUnref, Goto, micros
<1>3. PICK t \in Task :
          /\ Exec(t)
          /\ \/ t = refTask /\ refTask' = NoTask /\ unrefTask' = unrefTask
             \/ t = unrefTask /\ unrefTask' = NoTask /\ refTask' = refTask
    BY <1>1, Numbers DEF PickRef, PickUnref, RefFirst, TypeOK
<1>4. /\ QueuesOK' /\ Kept'
      /\ due' \in [Task -> Times] /\ state' \in [Task -> {"new", "queued", "executed", "cleared"}]
      /\ refPending' \in Seq(RefTask \cup PollTask) /\ unrefPending' \in Seq(UnrefTask)
      /\ refActive' = refActive /\ unrefActive' = unrefActive
    BY <1>2, <1>3, ExecStep
<1>5. running' \in Task
    BY <1>3 DEF Exec
<1>6. TypeOK'
    BY <1>1, <1>2, <1>3, <1>4, <1>5 DEF TypeOK
<1> QED BY <1>4, <1>6

LEMMA CycleStep ==
    ASSUME Regular, CycleRef \/ CycleUnref
    PROVE  QueuesOK' /\ Kept' /\ TypeOK'
<1>1. TypeOK
    BY DEF Regular
<1>2. /\ phase' \in {"cycleUnref", "pop"} /\ due' = due /\ state' = state /\ now' = now
      /\ refTask' = refTask /\ unrefTask' = unrefTask /\ running' = running
      /\ micro' = micro /\ queued' = queued /\ pollRefs' = pollRefs /\ astray' = astray
    BY DEF CycleRef, CycleUnref, Goto, picked, micros
<1>3. CASE CycleRef
    <2>1. unrefPending' = unrefPending /\ unrefActive' = unrefActive
        BY <1>3 DEF CycleRef, unrefQueue
    <2> QED BY <1>1, <1>2, <1>3, <2>1, CycleRefStep DEF TypeOK
<1>4. CASE CycleUnref
    <2>1. refPending' = refPending /\ refActive' = refActive
        BY <1>4 DEF CycleUnref, refQueue
    <2> QED BY <1>1, <1>2, <1>4, <2>1, CycleUnrefStep DEF TypeOK
<1> QED BY <1>3, <1>4

\* Queues, tasks and types after any step.
LEMMA QueuesStep ==
    ASSUME Regular, [Next]_vars, ~astray'
    PROVE  QueuesOK' /\ Kept' /\ TypeOK'
<1>1. CASE Calm
    BY <1>1, CalmActions
<1>2. CASE \E t \in RefTask \cup UnrefTask : Schedule(t)
    BY <1>2, ScheduleStep
<1>3. CASE CycleRef \/ CycleUnref
    BY <1>3, CycleStep
<1>4. CASE PopBoth \/ PopOne
    BY <1>4, PopStep
<1>5. CASE PickRef \/ PickUnref
    BY <1>5, PickStep
<1>6. CASE PollReturns
    BY <1>6, PollStep
<1>7. CASE UNCHANGED vars
    <2>1. UNCHANGED <<refQueue, unrefQueue, due, picked, state>> /\ now' \in 0 .. MaxTime /\ now <= now'
        BY <1>7, TasksAssumption DEF vars, Regular, TypeOK
    <2>2. QueuesOK' /\ Kept'
        BY <2>1, CalmStep
    <2>3. TypeOK'
        BY <1>7 DEF vars, Regular, TypeOK, refQueue, unrefQueue, picked, micros
    <2> QED BY <2>2, <2>3
<1>8. CASE \E t \in Handles : Clear(t) \/ ClearCuts(t)
    BY <1>8, ClearStep DEF ClearCuts
<1> QED BY <1>1, <1>2, <1>3, <1>4, <1>5, <1>6, <1>7, <1>8 DEF Next, Program, Loop, Calm, StopAstray, Goto, Regular

\* The loop's places, after any step.
LEMMA PhasesStep ==
    ASSUME Regular, [Next]_vars, ~astray'
    PROVE  PhasesOK'
<1>1. PhasesOK /\ TypeOK
    BY DEF Regular
<1> USE DEF PhasesOK, Between, Goto, refQueue, unrefQueue, picked, micros
<1>2. CASE NextTick \/ Bind
    BY <1>1, <1>2 DEF NextTick, Bind, InCallback, TypeOK
<1>3. CASE EndMacro
    BY <1>1, <1>3 DEF EndMacro
<1>4. CASE EndMicro
    BY <1>1, <1>4 DEF EndMicro, AfterMicro
<1>5. CASE EndHandler
    BY <1>1, <1>5 DEF EndHandler
<1>6. CASE StartMicro
    BY <1>1, <1>6 DEF StartMicro
<1>7. CASE NoMicro
    BY <1>1, <1>7 DEF NoMicro
<1>8. CASE EndBatch
    BY <1>1, <1>8 DEF EndBatch
<1>9. CASE Stop
    BY <1>1, <1>9 DEF Stop, ShouldStop
<1>10. CASE Decide
    BY <1>1, <1>10 DEF Decide
<1>11. CASE Wake
    BY <1>1, <1>11 DEF Wake
<1>12. CASE SocketEvent
    BY <1>1, <1>12 DEF SocketEvent
<1>13. CASE Tick
    BY <1>1, <1>13 DEF Tick
<1>14. CASE \E t \in RefTask \cup UnrefTask : Schedule(t)
    <2>1. refActive' = refActive /\ unrefActive' = unrefActive
        BY <1>14, ScheduleStep
    <2> QED BY <1>1, <1>14, <2>1 DEF Schedule, InCallback
<1>15. CASE CycleRef
    BY <1>1, <1>15 DEF CycleRef
<1>16. CASE CycleUnref
    BY <1>1, <1>16 DEF CycleUnref
<1>17. CASE PopBoth
    <2>1. refTask' = NoTask => refActive' = <<>>
        BY <1>17, PopStep
    <2>2. unrefTask' = NoTask => unrefActive' = <<>>
        BY <1>17, PopUnrefStep DEF PopBoth
    <2> QED BY <1>1, <1>17, <2>1, <2>2 DEF PopBoth
<1>18. CASE PopOne
    <2>1. refTask' = NoTask => refActive' = <<>>
        BY <1>18, PopStep
    <2>2. CASE refTask = NoTask
        <3>1. PopRef /\ unrefTask' = unrefTask /\ unrefActive' = unrefActive
            BY <1>18, <2>2 DEF PopOne
        <3>2. refActive = <<>> => refTask' = NoTask
            BY <3>1 DEF PopRef
        <3>3. refActive # <<>> /\ unrefTask' = NoTask => unrefActive' = <<>>
            BY <1>1, <1>18, <2>2, <3>1 DEF PopOne
        <3>4. /\ phase = "popOne" /\ phase' = "pick" /\ running' = running /\ micro' = micro
              /\ pollRefs' = pollRefs /\ refPending' = refPending
            BY <1>18, PopStep DEF PopOne
        <3>5. running' = NoTask /\ (pollRefs' = 0 => micro' = 0)
            BY <1>1, <3>4
        <3>6. ~Between'
            BY <3>4
        <3>7. refTask' # NoTask => refActive # <<>>
            BY <3>2
        <3>8. refTask' # NoTask => (unrefTask' = NoTask => unrefActive' = <<>>)
            BY <3>3, <3>7
        <3> QED BY <2>1, <3>4, <3>5, <3>6, <3>8
    <2>3. CASE refTask # NoTask
        <3>1. PopUnref /\ refTask' = refTask /\ refActive' = refActive
            BY <1>18, <2>3 DEF PopOne
        <3>2. unrefTask' = NoTask => unrefActive' = <<>>
            BY <3>1, PopUnrefStep
        <3> QED BY <1>1, <1>18, <2>1, <2>3, <3>1, <3>2 DEF PopOne
    <2> QED BY <2>2, <2>3
<1>19. CASE PickRef
    <2>1. refActive' = refActive /\ unrefActive' = unrefActive
        BY <1>19, PickStep
    <2>2. running' # NoTask /\ refTask # NoTask
        BY <1>19 DEF PickRef, RefFirst, Exec
    <2> QED BY <1>1, <1>19, <2>1, <2>2 DEF PickRef
<1>20. CASE PickUnref
    <2>1. refActive' = refActive /\ unrefActive' = unrefActive
        BY <1>20, PickStep
    <2> QED BY <1>1, <1>20, <2>1 DEF PickUnref
<1>21. CASE PollReturns
    <2>1. refActive' = refActive /\ unrefActive' = unrefActive
        BY <1>21, PollStep
    <2> QED BY <1>1, <1>21, <2>1 DEF PollReturns
<1>22. CASE UNCHANGED vars
    BY <1>1, <1>22 DEF vars
<1>23. CASE \E t \in Handles : Clear(t) \/ ClearCuts(t)
    <2>1. PICK t \in Handles : Clear(t)
        BY <1>23 DEF ClearCuts
    <2>2. /\ refActive = <<>> => refActive' = <<>>
          /\ unrefActive = <<>> => unrefActive' = <<>>
        BY <2>1, ClearStep
    <2>3. /\ phase' = phase /\ running' = running /\ refTask' = refTask /\ unrefTask' = unrefTask
          /\ micro' = micro /\ pollRefs' = pollRefs /\ phase \in {"macro", "inMicro", "handler"}
        BY <2>1 DEF Clear, InCallback
    <2> QED BY <1>1, <2>2, <2>3
<1> QED BY <1>2, <1>3, <1>4, <1>5, <1>6, <1>7, <1>8, <1>9, <1>10, <1>11, <1>12, <1>13, <1>14,
          <1>15, <1>16, <1>17, <1>18, <1>19, <1>20, <1>21, <1>22, <1>23
          DEF Next, Program, EndCallback, Loop, StopAstray, Regular

\* The time to sleep until is no later than any timer in a queue.
LEMMA NextTaskIsFirst ==
    ASSUME Regular, NEW t \in Pending
    PROVE  NextTask <= due[t]
<1> USE Places
<1>1. /\ refPending \in Seq(RefTask \cup PollTask) /\ unrefPending \in Seq(UnrefTask)
      /\ InOrder(refPending, Len(refPending), due) /\ InOrder(unrefPending, Len(unrefPending), due)
    BY OrderedIs DEF Regular, TypeOK, QueuesOK
<1>2. /\ \A u \in Task : due[u] \in Int
      /\ now \in Int
    OBVIOUS
<1>3. ASSUME NEW S \in SUBSET Task, NEW q \in Seq(S), InOrder(q, Len(q), due)
      PROVE  /\ First(q) = {} \/ \E at \in Int : First(q) = {at}
             /\ \A u \in Ref!Tasks(q) : \E at \in First(q) : at \in Int /\ at <= due[u]
    <2>1. CASE q = <<>>
        <3>1. Ref!Tasks(q) = {} /\ First(q) = {}
            BY <2>1, TasksOf DEF First
        <3> QED BY <3>1
    <2>2. CASE q # <<>>
        <3>1. /\ Head(q) \in S /\ Ref!Tasks(q) = Ref!Tasks(Tail(q)) \cup {Head(q)}
              /\ \A u \in Ref!Tasks(Tail(q)) : due[Head(q)] <= due[u]
            BY <1>3, <2>2, QueuePop
        <3>2. First(q) = {due[Head(q)]} /\ due[Head(q)] \in Int
            BY <2>2, <3>1 DEF First
        <3>3. \A u \in Ref!Tasks(q) : due[Head(q)] <= due[u]
            BY <3>1, <3>2
        <3> QED BY <3>2, <3>3
    <2> QED BY <2>1, <2>2
<1>4. RefTask \cup PollTask \in SUBSET Task /\ UnrefTask \in SUBSET Task
    BY Numbers
<1> DEFINE times == First(refPending) \cup First(unrefPending) \cup {now + CAP}
<1>5. /\ First(refPending) = {} \/ \E at \in Int : First(refPending) = {at}
      /\ First(unrefPending) = {} \/ \E at \in Int : First(unrefPending) = {at}
      /\ now + CAP \in Int
    BY <1>1, <1>2, <1>3, <1>4 DEF CAP
<1>6. \E at \in times : \A other \in times : at <= other
    BY <1>5
<1>7. NextTask \in times /\ \A other \in times : NextTask <= other
    BY <1>6 DEF NextTask
<1>8. times \subseteq Int
    BY <1>5
<1>9. PICK at \in First(refPending) \cup First(unrefPending) : at \in Int /\ at <= due[t]
    <2>1. t \in Ref!Tasks(refPending) \/ t \in Ref!Tasks(unrefPending)
        BY DEF Pending
    <2> QED BY <1>1, <1>3, <1>4, <2>1
<1>10. t \in Task /\ due[t] \in Int
    OBVIOUS
<1>11. at \in times
    OBVIOUS
<1> HIDE DEF times
<1> QED BY <1>7, <1>8, <1>9, <1>10, <1>11

LEMMA SleepStep ==
    ASSUME Regular, [Next]_vars
    PROVE  NoOversleep'
<1> SUFFICES ASSUME Asleep' PROVE \A t \in Pending' : wake' <= due'[t]
    BY DEF NoOversleep
<1>1. NoOversleep /\ TypeOK
    BY DEF Regular
<1>2. CASE Decide
    <2>1. /\ phase' \in {"sleep", "poll"} => wake' = NextTask
          /\ due' = due /\ refPending' = refPending /\ unrefPending' = unrefPending
        BY <1>2 DEF Decide, refQueue, unrefQueue
    <2>2. Pending' = Pending
        BY <2>1 DEF Pending
    <2>3. wake' = NextTask
        BY <2>1 DEF Asleep
    <2> QED BY <2>1, <2>2, <2>3, NextTaskIsFirst
<1>3. CASE Tick \/ UNCHANGED vars
    <2>1. /\ phase' = phase /\ running' = running /\ wake' = wake /\ due' = due
          /\ refPending' = refPending /\ unrefPending' = unrefPending
        BY <1>3 DEF Tick, vars, refQueue, unrefQueue
    <2>2. Pending' = Pending /\ Asleep
        BY <2>1 DEF Pending, Asleep
    <2> QED BY <1>1, <2>1, <2>2 DEF NoOversleep
<1>4. CASE Program
    BY <1>4 DEF Program, NextTick, Bind, Schedule, Clear, ClearCuts, InCallback, Asleep
<1>5. CASE EndCallback \/ SocketEvent \/ StopAstray
    BY <1>5 DEF EndCallback, EndMacro, EndMicro, EndHandler, SocketEvent, StopAstray, Goto, AfterMicro, Asleep
<1>6. CASE Loop /\ ~Decide
    <2>1. CASE PickRef
        BY <2>1 DEF PickRef, RefFirst, Exec, Goto, Asleep
    <2>2. CASE ~PickRef
        BY <1>6, <2>2 DEF Loop, CycleRef, CycleUnref, PopBoth, PickUnref, StartMicro, NoMicro,
                PopOne, EndBatch, Stop, Wake, PollReturns, Goto, Asleep
    <2> QED BY <2>1, <2>2
<1> QED BY <1>2, <1>3, <1>4, <1>5, <1>6 DEF Next

\* After a cut the loop may stop, and nothing else is said of it.
LEMMA AstrayStep ==
    ASSUME TypeOK, astray, phase \in {"astray", "stopped"}, [Next]_vars
    PROVE  TypeOK' /\ astray' /\ phase' \in {"astray", "stopped"}
<1>1. CASE StopAstray
    BY <1>1 DEF StopAstray, Goto, TypeOK, refQueue, unrefQueue, picked, micros
<1>2. CASE UNCHANGED vars
    BY <1>2 DEF vars, TypeOK, refQueue, unrefQueue, picked, micros
<1>3. ~Program /\ ~EndCallback /\ ~Loop /\ ~SocketEvent /\ ~Tick
    <2>1. ~Program
        BY DEF Program, NextTick, Bind, Schedule, Clear, ClearCuts, InCallback
    <2>2. ~EndCallback /\ ~SocketEvent /\ ~Tick
        BY DEF EndCallback, EndMacro, EndMicro, EndHandler, SocketEvent, Tick, Goto
    <2>3. ~Loop
        BY DEF Loop, CycleRef, CycleUnref, PopBoth, PickRef, PickUnref, StartMicro, NoMicro,
               PopOne, EndBatch, Stop, Decide, Wake, PollReturns, Goto
    <2> QED BY <2>1, <2>2, <2>3
<1> QED BY <1>1, <1>2, <1>3 DEF Next

\* A step of a regular state.
LEMMA RegularStep ==
    ASSUME Regular, [Next]_vars
    PROVE  TypeOK' /\ IF astray' THEN phase' = "astray" ELSE Regular'
<1>1. CASE \E t \in Handles : ClearCuts(t)
    BY <1>1, CutStep
<1>2. CASE ~\E t \in Handles : ClearCuts(t)
    <2>1. ~astray' /\ phase' # "astray"
        <3>1. ~astray /\ phase # "astray"
            BY DEF Regular
        <3>2. CASE Program
            BY <1>2, <3>1, <3>2 DEF Program, NextTick, Bind, Schedule, Clear
        <3>3. CASE EndCallback \/ SocketEvent \/ Tick \/ StopAstray
            BY <3>1, <3>3 DEF EndCallback, EndMacro, EndMicro, EndHandler, SocketEvent, Tick,
                              StopAstray, Goto, AfterMicro
        <3>4. CASE Loop
            BY <3>1, <3>4 DEF Loop, CycleRef, CycleUnref, PopBoth, PickRef, PickUnref, StartMicro, NoMicro,
                              PopOne, EndBatch, Stop, Decide, Wake, PollReturns, Goto
        <3>5. CASE UNCHANGED vars
            BY <3>1, <3>5 DEF vars
        <3> QED BY <3>2, <3>3, <3>4, <3>5 DEF Next
    <2> QED BY <2>1, QueuesStep, PhasesStep, SleepStep DEF Regular
<1> QED BY <1>1, <1>2

\* For every program: until a clear cuts a queue, each task stands in one place, queues
\* and batches are in order, and no batch ends with a ref task in it.
THEOREM Invariance == Spec => []IInv
<1>1. Init => IInv
    BY InitOK, RegularIs DEF Regular
<1>2. IInv /\ [Next]_vars => IInv'
    BY RegularIs, RegularStep, AstrayStep
<1> QED BY <1>1, <1>2, PTL DEF Spec

\* No timer fires before the time it was set for.
THEOREM NeverEarlyEver == Spec => []NeverEarly
<1>1. IInv => NeverEarly
    BY DEF IInv, QueuesOK, NeverEarly
<1> QED BY <1>1, Invariance, PTL

\* Unless a clear cuts a queue, no scheduled ref task, and no timer of poll.wait, is
\* dropped before it ran or was cleared.
THEOREM NothingEverDropped == Spec => []NothingDropped
<1>1. IInv => NothingDropped
    BY DEF IInv, NothingDropped
<1> QED BY <1>1, Invariance, PTL

\* As long as no socket is bound, microtasks run before the next macro task.
THEOREM MicrotasksAreFirst == Spec => []MicrotasksFirst
<1>1. IInv => MicrotasksFirst
    BY DEF IInv, PhasesOK, MicrotasksFirst
<1> QED BY <1>1, Invariance, PTL

\* Unless a clear cuts a queue, the process ends only when no ref task, no socket and no
\* microtask is left.
THEOREM StopsOnlyWhenIdle == Spec => []StopsWhenIdle
<1>1. ASSUME Regular, phase = "stopped"
      PROVE  (\A t \in RefTask \cup PollTask : state[t] # "queued") /\ pollRefs = 0 /\ micro = 0
    <2>1. /\ refPending = <<>> /\ pollRefs = 0 /\ micro = 0
          /\ refActive = <<>> /\ refTask = NoTask /\ unrefTask = NoTask
        BY <1>1 DEF Regular, PhasesOK, Between
    <2>2. Ref!Tasks(refPending) = {} /\ Ref!Tasks(refActive) = {}
        BY <1>1, <2>1, TasksOf DEF Regular, TypeOK
    <2>3. Ref!Tasks(unrefActive) \subseteq UnrefTask
        BY <1>1, Places
    <2>4. \A t \in RefTask \cup PollTask : t \notin Waiting
        BY <2>1, <2>2, <2>3, Numbers DEF Waiting
    <2> QED BY <1>1, <2>1, <2>2, <2>4 DEF Regular, Kept
<1>2. IInv => StopsWhenIdle
    BY <1>1, RegularIs DEF StopsWhenIdle
<1> QED BY <1>2, Invariance, PTL

\* The thread never sleeps through a timer that is in a queue.
THEOREM NeverOversleeps == Spec => []NoOversleep
<1>1. IInv => NoOversleep
    BY DEF IInv, NoOversleep, Asleep
<1> QED BY <1>1, Invariance, PTL

-----------------------------------------------------------------------------
(* Batches run in order.                                                   *)

\* Only the two steps that pick a task set running to a task.
LEMMA OnlyPicksRun ==
    ASSUME [Next]_vars, running' # running, running' # NoTask
    PROVE  PickRef \/ PickUnref
<1>1. CASE Program
    BY <1>1 DEF Program, NextTick, Bind, Schedule, Clear, ClearCuts
<1>2. CASE EndCallback \/ SocketEvent \/ StopAstray \/ Tick
    BY <1>2 DEF EndCallback, EndMacro, EndMicro, EndHandler, SocketEvent, StopAstray, Tick
<1>3. CASE Loop
    BY <1>3 DEF Loop, CycleRef, CycleUnref, PopBoth, StartMicro, NoMicro, PopOne, EndBatch,
                Stop, Decide, Wake, PollReturns
<1>4. CASE UNCHANGED vars
    BY <1>4 DEF vars
<1> QED BY <1>1, <1>2, <1>3, <1>4 DEF Next

\* No task of the batch is due before the one that is picked.
LEMMA PicksFirst ==
    ASSUME Regular, PickRef \/ PickUnref, NEW u \in Waiting
    PROVE  due[running'] <= due[u]
<1> USE Places
<1>1. TypeOK /\ QueuesOK /\ PhasesOK
    BY DEF Regular
<1>2. phase = "pick"
    BY DEF PickRef, PickUnref, Goto
<1>3. /\ \A t \in Waiting : due[t] \in Int
      /\ Ref!Tasks(refActive) \cup Ref!Tasks(unrefActive) \subseteq Waiting
      /\ refTask # NoTask => refTask \in Waiting
      /\ unrefTask # NoTask => unrefTask \in Waiting
      /\ u \in Ref!Tasks(refActive) \cup Ref!Tasks(unrefActive) \/ u \in {refTask, unrefTask} \ {NoTask}
    BY DEF Waiting
<1>4. /\ refTask # NoTask => \A t \in Ref!Tasks(refActive) : due[refTask] <= due[t]
      /\ unrefTask # NoTask => \A t \in Ref!Tasks(unrefActive) : due[unrefTask] <= due[t]
    BY <1>1 DEF QueuesOK, BatchOrdered
<1>5. /\ refTask = NoTask => Ref!Tasks(refActive) = {}
      /\ refTask # NoTask /\ unrefTask = NoTask => Ref!Tasks(unrefActive) = {}
    BY <1>1, <1>2, TasksOf DEF PhasesOK, TypeOK
<1>6. CASE PickRef
    <2>1. /\ running' = refTask /\ refTask # NoTask
          /\ unrefTask # NoTask => due[refTask] <= due[unrefTask]
        BY <1>6 DEF PickRef, RefFirst, Exec
    <2>2. CASE u \in Ref!Tasks(refActive)
        BY <1>4, <2>1, <2>2
    <2>3. CASE u \in Ref!Tasks(unrefActive)
        <3>1. unrefTask # NoTask
            BY <1>5, <2>1, <2>3
        <3>2. due[refTask] <= due[unrefTask] /\ due[unrefTask] <= due[u]
            BY <1>4, <2>1, <2>3, <3>1
        <3>3. due[refTask] \in Int /\ due[unrefTask] \in Int /\ due[u] \in Int
            BY <1>3, <2>1, <3>1
        <3> QED BY <2>1, <3>2, <3>3
    <2>4. CASE u \in {refTask, unrefTask} \ {NoTask}
        BY <1>3, <2>1, <2>4
    <2> QED BY <1>3, <2>2, <2>3, <2>4
<1>7. CASE PickUnref
    <2>1. /\ running' = unrefTask /\ unrefTask # NoTask
          /\ refTask # NoTask => ~(due[refTask] <= due[unrefTask])
        BY <1>7 DEF PickUnref, RefFirst, Exec
    <2>2. refTask # NoTask => due[unrefTask] <= due[refTask]
        BY <1>3, <2>1
    <2>3. CASE u \in Ref!Tasks(unrefActive)
        BY <1>4, <2>1, <2>3
    <2>4. CASE u \in Ref!Tasks(refActive)
        <3>1. refTask # NoTask
            BY <1>5, <2>4
        <3>2. due[unrefTask] <= due[refTask] /\ due[refTask] <= due[u]
            BY <1>4, <2>2, <2>4, <3>1
        <3>3. due[refTask] \in Int /\ due[unrefTask] \in Int /\ due[u] \in Int
            BY <1>3, <2>1, <3>1
        <3> QED BY <2>1, <3>2, <3>3
    <2>5. CASE u \in {refTask, unrefTask} \ {NoTask}
        BY <1>3, <2>1, <2>2, <2>5
    <2> QED BY <1>3, <2>3, <2>4, <2>5
<1> QED BY <1>6, <1>7

\* The tasks of a batch, of both queues, run in the order they are due.
THEOREM BatchesInOrder == Spec => BatchInOrder
<1>1. IInv /\ [Next]_vars =>
        [running' # running /\ running' # NoTask => \A t \in Waiting : due[running'] <= due[t]]_vars
    <2>1. ASSUME IInv, PickRef \/ PickUnref PROVE Regular
        BY <2>1, RegularIs DEF PickRef, PickUnref, Goto
    <2> QED BY <2>1, OnlyPicksRun, PicksFirst
<1> QED BY <1>1, Invariance, PTL DEF Spec, BatchInOrder

-----------------------------------------------------------------------------
(* The loop uses the queue of ref tasks as TimerQueue expects.             *)

RefTasks == RefTask \cup PollTask
RefDue == [t \in RefTasks |-> due[t]]

\* The place of the last task due is the end of the front of those due.
LEMMA DueByIs ==
    ASSUME NEW q \in Seq(RefTasks), InOrder(q, Len(q), due), due \in [Task -> Int],
           NEW at \in Int, NEW k \in 0 .. Len(q), Front(q, Len(q), k, due, at)
    PROVE  RefQueue!DueBy(q, RefDue, at) = k /\ Ref!DueBy(q, due, at) = k
<1>1. Len(q) \in Nat /\ \A i \in 1 .. Len(q) : q[i] \in RefTasks /\ q[i] \in Task
    BY LenProperties, ElementOfSeq, Numbers DEF RefTasks
<1>2. \A i \in 1 .. Len(q) : RefDue[q[i]] = due[q[i]] /\ due[q[i]] \in Int
    BY <1>1 DEF RefDue
<1>3. \A i, j \in 1 .. Len(q) : i < j => due[q[i]] <= due[q[j]]
    BY DEF InOrder
<1>4. \A i, j \in 1 .. Len(q) : i < j => RefDue[q[i]] <= RefDue[q[j]]
    BY <1>2, <1>3
<1>5. \A i \in 1 .. Len(q) : RefDue[q[i]] \in Int
    BY <1>2
<1>6. RefQueue!DueBy(q, RefDue, at) = Ref!DueBy(q, RefDue, at)
    BY DEF RefQueue!DueBy, Ref!DueBy
<1> DEFINE n == Ref!DueBy(q, due, at)
           m == Ref!DueBy(q, RefDue, at)
<1> HIDE DEF n, m
<1>7. n \in 0 .. Len(q) /\ \A i \in 1 .. Len(q) : due[q[i]] <= at <=> i <= n
    BY <1>2, <1>3, DueByIsFront DEF n
<1>8. m \in 0 .. Len(q) /\ \A i \in 1 .. Len(q) : RefDue[q[i]] <= at <=> i <= m
    BY <1>4, <1>5, DueByIsFront DEF m
<1>9. /\ \A i \in 1 .. Len(q) : i <= k <=> i <= n
      /\ \A i \in 1 .. Len(q) : i <= k <=> i <= m
    BY <1>2, <1>7, <1>8 DEF Front
<1>10. k = n /\ k = m
    BY <1>1, <1>7, <1>8, <1>9
<1> QED BY <1>6, <1>10 DEF n, m

\* The place of DueBy, for the queue of ref tasks, by either name.
LEMMA DueByRef ==
    ASSUME Regular, NEW at \in Int
    PROVE  /\ RefQueue!DueBy(refPending, RefDue, at) = Ref!DueBy(refPending, due, at)
           /\ Ref!DueBy(refPending, due, at) \in 0 .. Len(refPending)
           /\ Front(refPending, Len(refPending), Ref!DueBy(refPending, due, at), due, at)
<1>1. /\ refPending \in Seq(RefTasks) /\ InOrder(refPending, Len(refPending), due)
      /\ due \in [Task -> Int]
    BY OrderedIs, Numbers DEF Regular, TypeOK, QueuesOK, RefTasks
<1>2. /\ \A i \in 1 .. Len(refPending) : due[refPending[i]] \in Int
      /\ \A i, j \in 1 .. Len(refPending) : i < j => due[refPending[i]] <= due[refPending[j]]
    BY <1>1, ElementOfSeq, Numbers DEF InOrder, RefTasks
<1>3. /\ Ref!DueBy(refPending, due, at) \in 0 .. Len(refPending)
      /\ Front(refPending, Len(refPending), Ref!DueBy(refPending, due, at), due, at)
    BY <1>1, <1>2, DueByIsFront DEF Front
<1> QED BY <1>1, <1>3, DueByIs

\* The variables of that queue.
LEMMA RefVars ==
    RefQueue!vars = <<refPending, refActive, RefDue>>
BY DEF RefQueue!vars, RefDue, RefTasks

\* insert() is an Insert of the ref queue, or leaves it alone.
LEMMA InsertIsInsert ==
    ASSUME Regular, NEW t \in Task, t \notin Pending, Insert(t)
    PROVE  RefQueue!Next \/ UNCHANGED RefQueue!vars
<1>1. TypeOK /\ QueuesOK
    BY DEF Regular
<1>2. /\ \A u \in Task \ {t} : due'[u] = due[u]
      /\ due'[t] = now + Delay(t) /\ refActive' = refActive
      /\ t \in UnrefTask => refPending' = refPending
    BY <1>1, InsertOne
<1>3. CASE t \in UnrefTask
    <2>1. \A u \in RefTasks : due'[u] = due[u]
        BY <1>2, <1>3, Numbers DEF RefTasks
    <2>2. RefDue' = RefDue
        BY <2>1 DEF RefDue
    <2> QED BY <1>2, <1>3, <2>2 DEF RefQueue!vars, RefDue, RefTasks
<1>4. CASE t \notin UnrefTask
    <2>1. PICK at \in Times : at = now + Delay(t) /\ at \in Int /\ t \in RefTasks
        BY <1>1, <1>4, Numbers DEF TypeOK, RefTasks
    <2> DEFINE n == Ref!DueBy(refPending, due, at)
    <2>2. refPending' = SubSeq(refPending, 1, n) \o <<t>> \o SubSeq(refPending, n + 1, Len(refPending))
        BY <1>4, <2>1 DEF Insert, Ref!Insert
    <2>3. RefQueue!DueBy(refPending, RefDue, at) = n
        BY <2>1, DueByRef
    <2>4. RefDue' = [RefDue EXCEPT ![t] = at]
        <3>1. \A u \in RefTasks : due'[u] = IF u = t THEN at ELSE due[u]
            BY <1>2, <2>1, Numbers DEF RefTasks
        <3> QED BY <3>1 DEF RefDue
    <2>5. t \notin RefQueue!Tasks(refPending)
        BY DEF Pending, Ref!Tasks, RefQueue!Tasks
    <2> HIDE DEF n
    <2>6. RefQueue!Insert(t, at)
        BY <1>2, <2>2, <2>3, <2>4, <2>5 DEF RefQueue!Insert, RefDue, RefTasks
    <2> QED BY <2>1, <2>6 DEF RefQueue!Next, RefTasks
<1> QED BY <1>3, <1>4

\* refQueue.cycle() is a Cycle at the time the last task it takes was due.
LEMMA SliceIsCycle ==
    ASSUME Regular, CycleRef
    PROVE  RefQueue!Next \/ UNCHANGED RefQueue!vars
<1> DEFINE n == Ref!DueBy(refPending, due, now)
<1>1. /\ refPending \in Seq(RefTasks) /\ InOrder(refPending, Len(refPending), due)
      /\ due \in [Task -> Int] /\ due \in [Task -> Times] /\ now \in Int
    <2>1. TypeOK /\ Ordered(refPending)
        BY DEF Regular, QueuesOK
    <2>2. InOrder(refPending, Len(refPending), due)
        BY <2>1, OrderedIs
    <2>3. refPending \in Seq(RefTasks)
        BY <2>1 DEF TypeOK, RefTasks
    <2>4. due \in [Task -> Times] /\ now \in 0 .. MaxTime
        BY <2>1 DEF TypeOK
    <2>5. due \in [Task -> Int] /\ now \in Int
        <3>1. Times \subseteq Int
            BY Numbers
        <3>2. now \in Int
            BY <2>4, TasksAssumption
        <3> QED BY <2>4, <3>1, <3>2
    <2> QED BY <2>2, <2>3, <2>4, <2>5
<1>2. SliceRef /\ due' = due /\ refActive = <<>>
    BY DEF CycleRef, Regular, PhasesOK, Between, Goto
<1>3. RefDue' = RefDue
    BY <1>2 DEF RefDue
<1>4. n \in 0 .. Len(refPending) /\ Front(refPending, Len(refPending), n, due, now)
    BY <1>1, DueByRef
<1>5. CASE n = 0
    <2>1. refPending' = refPending /\ refActive' = refActive
        BY <1>2, <1>5 DEF SliceRef, refQueue
    <2> QED BY <1>3, <2>1 DEF RefQueue!vars, RefDue, RefTasks
<1>6. CASE n # 0
    <2> DEFINE at == due[refPending[n]]
    <2>1. /\ refActive' = SubSeq(refPending, 1, n)
          /\ refPending' = SubSeq(refPending, n + 1, Len(refPending))
        BY <1>2, <1>6 DEF SliceRef
    <2> HIDE DEF n
    <2>2. /\ Len(refPending) \in Nat
          /\ \A i \in 1 .. Len(refPending) : refPending[i] \in Task /\ due[refPending[i]] \in Int
        BY <1>1, LenProperties, ElementOfSeq, Numbers DEF RefTasks
    <2>3. n \in 1 .. Len(refPending)
        BY <1>4, <1>6, <2>2
    <2>4. at \in Times /\ at \in Int /\ at <= now
        BY <1>1, <1>4, <2>2, <2>3 DEF Front
    <2>5. Front(refPending, Len(refPending), n, due, at)
        <3> SUFFICES ASSUME NEW i \in 1 .. Len(refPending)
                     PROVE  due[refPending[i]] <= at <=> i <= n
            BY DEF Front
        <3>1. CASE i <= n
            <4>1. i = n \/ i < n
                BY <2>2, <2>3, <3>1
            <4> QED BY <1>1, <2>2, <2>3, <3>1, <4>1 DEF InOrder
        <3>2. CASE ~(i <= n)
            <4>1. ~(due[refPending[i]] <= now)
                BY <1>4, <3>2 DEF Front
            <4> QED BY <1>1, <2>2, <2>4, <3>2, <4>1
        <3> QED BY <3>1, <3>2
    <2> HIDE DEF at
    <2>6. RefQueue!DueBy(refPending, RefDue, at) = n
        BY <1>1, <1>4, <2>4, <2>5, DueByIs
    <2>7. n > 0
        BY <2>2, <2>3
    <2>8. RefQueue!Cycle(at)
        BY <1>2, <1>3, <2>1, <2>6, <2>7 DEF RefQueue!Cycle, RefDue, RefTasks
    <2> QED BY <2>4, <2>8 DEF RefQueue!Next
<1> QED BY <1>5, <1>6

\* A clear that cuts no queue is a Cancel of the ref queue, or leaves it alone.
LEMMA ClearIsCancel ==
    ASSUME Regular, NEW t \in Handles, Clear(t)
    PROVE  RefQueue!Next \/ UNCHANGED RefQueue!vars
<1>1. t \in Task /\ Cancel(t)
    BY TasksAssumption DEF Clear, Task
<1>2. CASE t \in UnrefTask
    <2>1. refPending' = refPending /\ refActive' = refActive /\ due' = due
        BY <1>1, <1>2 DEF Cancel, Unref!Cancel, refQueue
    <2> QED BY <2>1 DEF RefQueue!vars
<1>3. CASE t \notin UnrefTask
    <2>1. Ref!Cancel(t) /\ t \in RefTasks
        BY <1>1, <1>3, Numbers DEF Cancel, RefTasks
    <2>2. RefDue' = RefDue
        BY <2>1 DEF Ref!Cancel, RefDue
    <2>3. /\ \A q : RefQueue!Tasks(q) = Ref!Tasks(q)
          /\ \A q : RefQueue!Without(q, t) = Ref!Without(q, t)
        BY DEF RefQueue!Tasks, Ref!Tasks, RefQueue!Without, Ref!Without
    <2>4. RefQueue!Cancel(t)
        BY <2>1, <2>2, <2>3 DEF RefQueue!Cancel, Ref!Cancel, RefDue, RefTasks
    <2> QED BY <2>1, <2>4 DEF RefQueue!Next, RefTasks
<1> QED BY <1>2, <1>3

\* Every step of the loop and of the program is a step of the ref queue, or none.
LEMMA StepIsStep ==
    ASSUME Regular, [Next]_vars, ~astray'
    PROVE  RefQueue!Next \/ UNCHANGED RefQueue!vars
<1>1. ASSUME refPending' = refPending, refActive' = refActive, due' = due
      PROVE  UNCHANGED RefQueue!vars
    BY <1>1 DEF RefQueue!vars
<1>2. \A t \in Task : t \in Pending \cup Waiting => state[t] = "queued"
    BY DEF Regular, QueuesOK
<1>3. CASE Calm
    <2>1. refPending' = refPending /\ refActive' = refActive /\ due' = due
        BY <1>3 DEF Calm, NextTick, Bind, EndCallback, EndMacro, EndMicro, EndHandler, StartMicro, NoMicro,
                    EndBatch, Stop, Decide, Wake, SocketEvent, Tick, refQueue
    <2> QED BY <1>1, <2>1
<1>4. CASE \E t \in RefTask \cup UnrefTask : Schedule(t)
    <2>1. PICK t \in RefTask \cup UnrefTask : Insert(t) /\ state[t] = "new"
        BY <1>4 DEF Schedule
    <2>2. t \in Task /\ t \notin Pending
        BY <1>2, <2>1 DEF Task
    <2> QED BY <2>1, <2>2, InsertIsInsert
<1>5. CASE PollReturns
    <2>1. CASE \E t \in PollTask : state[t] = "new"
        <3> DEFINE t == CHOOSE u \in PollTask : state[u] = "new"
        <3>1. t \in PollTask /\ state[t] = "new"
            BY <2>1
        <3>2. Insert(t)
            BY <1>5, <2>1 DEF PollReturns
        <3> HIDE DEF t
        <3>3. t \in Task /\ t \notin Pending
            BY <1>2, <3>1 DEF Task
        <3> QED BY <3>2, <3>3, InsertIsInsert
    <2>2. CASE ~\E t \in PollTask : state[t] = "new"
        <3>1. refPending' = refPending /\ refActive' = refActive /\ due' = due
            BY <1>5, <2>2 DEF PollReturns, refQueue
        <3> QED BY <1>1, <3>1
    <2> QED BY <2>1, <2>2
<1>6. CASE PickRef \/ PickUnref
    <2>1. PICK t \in Task : Exec(t) /\ t \in Waiting
        BY <1>6, Numbers DEF PickRef, PickUnref, RefFirst, Waiting, Regular, TypeOK
    <2>2. CASE t \in Intervals
        <3>1. Insert(t) /\ t \notin Pending
            BY <2>1, <2>2 DEF Exec, Regular, QueuesOK
        <3> QED BY <3>1, InsertIsInsert
    <2>3. CASE t \notin Intervals
        <3>1. refPending' = refPending /\ refActive' = refActive /\ due' = due
            BY <2>1, <2>3 DEF Exec, refQueue
        <3> QED BY <1>1, <3>1
    <2> QED BY <2>2, <2>3
<1>7. CASE CycleRef
    BY <1>7, SliceIsCycle
<1>8. CASE CycleUnref
    <2>1. refPending' = refPending /\ refActive' = refActive /\ due' = due
        BY <1>8 DEF CycleUnref, refQueue
    <2> QED BY <1>1, <2>1
<1>9. CASE PopBoth \/ PopOne
    <2>1. /\ due' = due
          /\ PopRef \/ UNCHANGED refQueue
        BY <1>9 DEF PopBoth, PopOne
    <2>2. CASE UNCHANGED refQueue \/ (PopRef /\ refActive = <<>>)
        <3>1. refPending' = refPending /\ refActive' = refActive
            BY <2>2 DEF PopRef, refQueue
        <3> QED BY <1>1, <2>1, <3>1
    <2>3. CASE PopRef /\ refActive # <<>>
        <3>1. refActive' = Tail(refActive) /\ refPending' = refPending
            BY <2>3 DEF PopRef
        <3>2. RefQueue!Pop
            BY <2>1, <2>3, <3>1 DEF RefQueue!Pop
        <3> QED BY <3>2 DEF RefQueue!Next
    <2> QED BY <2>1, <2>2, <2>3
<1>10. CASE UNCHANGED vars
    <2>1. refPending' = refPending /\ refActive' = refActive /\ due' = due
        BY <1>10 DEF vars, refQueue
    <2> QED BY <1>1, <2>1
<1>11. CASE \E t \in Handles : Clear(t) \/ ClearCuts(t)
    BY <1>11, ClearIsCancel DEF ClearCuts
<1> QED BY <1>3, <1>4, <1>5, <1>6, <1>7, <1>8, <1>9, <1>10, <1>11
        DEF Next, Program, Loop, Calm, StopAstray, Goto, Regular

\* The loop implements TimerQueue with its ref queue, until a clear cuts a queue: it
\* inserts no task that is in the queue, and slices a batch only after it handed out the
\* last one.
THEOREM RefQueueUsedRight == Spec => UsesRefQueueRight
<1>1. Init => RefQueue!Init
    <2>1. Init => /\ refPending = <<>> /\ refActive = <<>>
                  /\ \A t \in RefTasks : due[t] \in Times
        BY Numbers DEF Init, RefTasks
    <2> QED BY <2>1 DEF RefQueue!Init, RefTasks
<1>2. IInv /\ [Next]_vars => [RefQueue!Next \/ astray']_(RefQueue!vars)
    <2> SUFFICES ASSUME IInv, [Next]_vars, ~astray'
                 PROVE  RefQueue!Next \/ UNCHANGED RefQueue!vars
        OBVIOUS
    <2>1. ~astray
        BY AstrayStep DEF IInv
    <2>2. Regular
        BY <2>1, RegularIs
    <2> QED BY <2>2, StepIsStep
<1> QED BY <1>1, <1>2, Invariance, PTL DEF Spec, UsesRefQueueRight

=============================================================================
