-------------------------- MODULE EventQueueProofs --------------------------
(***************************************************************************)
(* What EventQueue keeps for any number of tasks, any classes of delays    *)
(* and a clock that steps back, as long as the program cancels only tasks  *)
(* that wait and that no deep pointer of another class names, or that are  *)
(* in the batch behind the one popped next: the links, the deep pointers   *)
(* and the order of the list are consistent, no task is lost, none runs    *)
(* after it was cancelled, and every step is one that TimerQueue allows.   *)
(*                                                                         *)
(* The argument: the pending list is a sequence in order, next and prev    *)
(* are its two readings, and wherever in it a deep pointer makes a walk    *)
(* start, the walk ends at the one place where the order wants the task.   *)
(***************************************************************************)
EXTENDS EventQueue, FiniteSetTheorems, SequenceTheorems, WellFoundedInduction, TLAPS

-----------------------------------------------------------------------------
(* Lists that hang along a link.                                           *)

Links == [Task -> Task \cup {Null}]
Distinct(q) == \A i, j \in 1 .. Len(q) : q[i] = q[j] => i = j

\* A set of naturals that is not empty has a least element.
LEMMA Least ==
    ASSUME NEW T, T \subseteq Nat, T # {}
    PROVE  \E m \in T : \A k \in T : m <= k
<1>1. PICK m \in T : \A k \in T : ~ (<<k, m>> \in OpToRel(<, Nat))
    BY NatLessThanWellFounded, WFMin
<1>2. \A k \in T : ~ (k < m)
    BY <1>1 DEF OpToRel
<1> QED BY <1>2

\* 0 stands for no task.
LEMMA NoTask == Null \notin Task /\ MaxTask \in Nat
BY BoundsAssumption DEF Task, Null

\* Only one sequence hangs from a task.
LEMMA HangsOnce ==
    ASSUME NEW link, NEW head, NEW s \in Seq(Task), NEW r \in Seq(Task),
           Hangs(link, head, s), Hangs(link, head, r)
    PROVE  s = r
<1>1. /\ Len(s) \in Nat /\ Len(r) \in Nat
      /\ \A i \in 1 .. Len(s) : s[i] # Null
      /\ \A i \in 1 .. Len(r) : r[i] # Null
      /\ s = <<>> <=> Len(s) = 0
      /\ r = <<>> <=> Len(r) = 0
    BY LenProperties, ElementOfSeq, EmptySeq, NoTask
<1>2. s = <<>> <=> r = <<>>
    BY <1>1 DEF Hangs
<1> DEFINE T == {i \in Nat : i \in 1 .. Len(s) /\ i \in 1 .. Len(r) /\ s[i] # r[i]}
<1>3. T = {}
    <2> SUFFICES ASSUME T # {} PROVE FALSE
        OBVIOUS
    <2>1. PICK m \in T : \A k \in T : m <= k
        BY Least
    <2>2. m # 1
        BY <1>1, <2>1 DEF Hangs
    <2>3. m - 1 \in 1 .. Len(s) /\ m - 1 \in 1 .. Len(r) /\ m - 1 \in Nat /\ (m - 1) + 1 = m
        BY <1>1, <2>1, <2>2
    <2>4. s[m - 1] = r[m - 1]
        BY <2>1, <2>3
    <2>5. link[s[m - 1]] = s[m] /\ link[r[m - 1]] = r[m]
        <3>1. m - 1 # Len(s) /\ m - 1 # Len(r)
            BY <1>1, <2>1
        <3> QED BY <2>3, <3>1 DEF Hangs
    <2> QED BY <2>1, <2>4, <2>5
<1>4. ASSUME NEW p \in Seq(Task), NEW q \in Seq(Task), Len(p) \in Nat, Len(q) \in Nat, Len(p) > 0,
             \A i \in 1 .. Len(q) : q[i] # Null,
             \A i \in Nat : i \in 1 .. Len(p) /\ i \in 1 .. Len(q) => p[i] = q[i],
             Hangs(link, head, p), Hangs(link, head, q)
      PROVE  ~ (Len(p) < Len(q))
    <2> SUFFICES ASSUME Len(p) < Len(q) PROVE FALSE
        OBVIOUS
    <2>1. Len(p) \in 1 .. Len(p) /\ Len(p) \in 1 .. Len(q) /\ Len(p) # Len(q) /\ Len(p) + 1 \in 1 .. Len(q)
        BY <1>4
    <2>2. link[p[Len(p)]] = Null /\ link[q[Len(p)]] = q[Len(p) + 1]
        BY <1>4, <2>1 DEF Hangs
    <2> QED BY <1>4, <2>1, <2>2
<1>5. \A i \in Nat : i \in 1 .. Len(s) /\ i \in 1 .. Len(r) => s[i] = r[i]
    BY <1>3
<1>6. Len(s) = Len(r)
    <2>1. CASE Len(s) = 0 \/ Len(r) = 0
        BY <1>1, <1>2, <2>1
    <2>2. CASE Len(s) > 0 /\ Len(r) > 0
        BY <1>1, <1>4, <1>5, <2>2
    <2> QED BY <1>1, <2>1, <2>2
<1> QED BY <1>1, <1>5, <1>6, SeqEqual

\* Lists are the sequences of tasks in which none comes twice: they are not longer
\* than there are tasks.
LEMMA ListsAre == \A s : s \in Lists <=> s \in Seq(Task) /\ Distinct(s)
<1>1. ASSUME NEW s \in Lists PROVE s \in Seq(Task) /\ Distinct(s)
    <2>1. PICK all \in [Task -> Task], n \in 0 .. MaxTask : s = SubSeq(all, 1, n)
        BY DEF Lists
    <2>2. \A i \in 1 .. n : all[i] \in Task
        BY NoTask DEF Task
    <2>3. s \in Seq(Task)
        BY <2>1, <2>2, SubSeqProperties
    <2> QED BY <2>3 DEF Lists, Distinct
<1>2. ASSUME NEW s \in Seq(Task), Distinct(s) PROVE s \in Lists
    <2> DEFINE n == Len(s)
               all == [i \in Task |-> IF i \in 1 .. n THEN s[i] ELSE i]
    <2>1. n \in Nat /\ s \in [1 .. n -> Task] /\ \A i \in 1 .. n : s[i] \in Task
        BY LenProperties, ElementOfSeq
    <2>2. n <= MaxTask
        <3>1. s \in Injection(1 .. n, Task)
            BY <1>2, <2>1 DEF Distinct, Injection, IsInjective
        <3>2. IsFiniteSet(Task) /\ Cardinality(Task) = MaxTask
            BY NoTask, FS_Interval DEF Task
        <3>3. Cardinality(1 .. n) = n
            BY <2>1, FS_Interval, SMTT(30)
        <3>4. Cardinality(1 .. n) <= Cardinality(Task)
            BY <3>1, <3>2, FS_Injection
        <3> QED BY <3>2, <3>3, <3>4
    <2>3. all \in [Task -> Task] /\ \A i \in 1 .. n : all[i] = s[i]
        BY <2>1, <2>2, NoTask DEF Task
    <2> HIDE DEF all
    <2>4. SubSeq(all, 1, n) = s
        <3>1. /\ SubSeq(all, 1, n) \in Seq(Task)
              /\ Len(SubSeq(all, 1, n)) = n
              /\ \A i \in 1 .. n : SubSeq(all, 1, n)[i] = all[i]
            <4>1. \A i \in 1 .. n : all[i] \in Task
                BY <2>1, <2>3
            <4>2. /\ SubSeq(all, 1, n) \in Seq(Task)
                  /\ Len(SubSeq(all, 1, n)) = IF 1 <= n THEN n - 1 + 1 ELSE 0
                  /\ \A i \in 1 .. n - 1 + 1 : SubSeq(all, 1, n)[i] = all[1 + i - 1]
                BY <2>1, <4>1, SubSeqProperties
            <4> QED BY <2>1, <4>2
        <3> QED BY <2>1, <2>3, <3>1, SeqEqual
    <2>5. s \in {SubSeq(f, 1, k) : f \in [Task -> Task], k \in 0 .. MaxTask}
        <3>1. n \in 0 .. MaxTask
            BY <2>1, <2>2, NoTask
        <3>2. all \in [Task -> Task] /\ SubSeq(all, 1, n) = s
            BY <2>3, <2>4
        <3> HIDE DEF n
        <3> QED BY <3>1, <3>2
    <2> QED BY <1>2, <2>5 DEF Lists, Distinct
<1> QED BY <1>1, <1>2

\* ListAlong finds the list that hangs from a task.
LEMMA ListIs ==
    ASSUME NEW link, NEW head, NEW s \in Seq(Task), Distinct(s), Hangs(link, head, s)
    PROVE  ListAlong(link, head) = s
<1>1. s \in Lists
    BY ListsAre
<1>2. ListAlong(link, head) \in Lists /\ Hangs(link, head, ListAlong(link, head))
    BY <1>1 DEF ListAlong
<1> QED BY <1>2, ListsAre, HangsOnce

\* In a sequence in order, what is due by a time is a front of it.
LEMMA DueIsFront ==
    ASSUME NEW S, NEW q \in Seq(S), NEW d, NEW at \in Int,
           \A i \in 1 .. Len(q) : d[q[i]] \in Int,
           \A i, j \in 1 .. Len(q) : i < j => d[q[i]] <= d[q[j]]
    PROVE  \E n \in 0 .. Len(q) : \A i \in 1 .. Len(q) : d[q[i]] <= at <=> i <= n
<1> DEFINE D == {i \in 1 .. Len(q) : d[q[i]] <= at}
           n == Cardinality(D)
<1>1. Len(q) \in Nat /\ IsFiniteSet(1 .. Len(q)) /\ Cardinality(1 .. Len(q)) = Len(q)
    <2> DEFINE m == Len(q)
    <2>1. m \in Nat
        BY LenProperties
    <2> HIDE DEF m
    <2>2. IsFiniteSet(1 .. m) /\ Cardinality(1 .. m) = IF 1 > m THEN 0 ELSE m - 1 + 1
        BY <2>1, FS_Interval
    <2>3. Cardinality(1 .. m) = m
        BY <2>1, <2>2
    <2> QED BY <2>1, <2>2, <2>3 DEF m
<1>2. IsFiniteSet(D) /\ n \in Nat /\ n <= Len(q)
    BY <1>1, FS_Subset, FS_CardinalityType
<1>3. ASSUME NEW i \in 1 .. Len(q), i \in D PROVE i <= n
    <2>1. ASSUME NEW j \in 1 .. i PROVE j \in D
        <3>1. j \in 1 .. Len(q) /\ (j < i \/ j = i) /\ d[q[i]] <= at
            BY <1>1, <1>3
        <3>2. d[q[i]] \in Int /\ d[q[j]] \in Int /\ d[q[j]] <= d[q[i]]
            BY <3>1
        <3>3. d[q[j]] <= at
            BY <3>1, <3>2
        <3> QED BY <3>1, <3>3
    <2>2. IsFiniteSet(1 .. i) /\ Cardinality(1 .. i) = i
        BY <1>1, FS_Interval
    <2> HIDE DEF D
    <2>3. 1 .. i \subseteq D
        BY <2>1
    <2>4. Cardinality(1 .. i) <= Cardinality(D)
        BY <1>2, <2>3, FS_Subset
    <2> QED BY <2>2, <2>4
<1>4. D \subseteq 1 .. n /\ IsFiniteSet(1 .. n) /\ Cardinality(1 .. n) = n
    <2>1. IsFiniteSet(1 .. n) /\ Cardinality(1 .. n) = n
        BY <1>2, FS_Interval
    <2>2. \A i \in D : i \in 1 .. Len(q)
        OBVIOUS
    <2> HIDE DEF D
    <2>3. \A i \in D : i \in 1 .. n
        BY <1>1, <1>2, <1>3, <2>2
    <2> QED BY <2>1, <2>3
<1>5. D = 1 .. n
    BY <1>4, FS_Subset
<1> HIDE DEF D
<1>6. n \in 0 .. Len(q)
    BY <1>1, <1>2
<1>7. \A i \in 1 .. Len(q) : i \in D <=> i <= n
    BY <1>2, <1>5
<1> QED BY <1>6, <1>7 DEF D

\* So DueBy, the place of the last that is due, is the end of that front.
LEMMA DueByIsFront ==
    ASSUME NEW S, NEW q \in Seq(S), NEW d, NEW at \in Int,
           \A i \in 1 .. Len(q) : d[q[i]] \in Int,
           \A i, j \in 1 .. Len(q) : i < j => d[q[i]] <= d[q[j]]
    PROVE  /\ Promise!DueBy(q, d, at) \in 0 .. Len(q)
           /\ \A i \in 1 .. Len(q) : d[q[i]] <= at <=> i <= Promise!DueBy(q, d, at)
<1> DEFINE P(n) == /\ n > 0 => d[q[n]] <= at
                   /\ \A i \in n + 1 .. Len(q) : d[q[i]] > at
           n == Promise!DueBy(q, d, at)
<1>1. Len(q) \in Nat
    BY LenProperties
<1>2. PICK k \in 0 .. Len(q) : \A i \in 1 .. Len(q) : d[q[i]] <= at <=> i <= k
    BY DueIsFront
<1>3. P(k)
    <2>1. k > 0 => k \in 1 .. Len(q)
        BY <1>1
    <2>2. \A i \in k + 1 .. Len(q) : i \in 1 .. Len(q) /\ ~(i <= k)
        BY <1>1
    <2> QED BY <1>2, <2>1, <2>2
<1>4. n = CHOOSE m \in 0 .. Len(q) : P(m)
    BY DEF Promise!DueBy
<1> HIDE DEF n, P
<1>5. n \in 0 .. Len(q) /\ P(n)
    BY <1>3, <1>4
<1>6. ASSUME NEW i \in 1 .. Len(q) PROVE d[q[i]] <= at <=> i <= n
    <2>1. CASE i <= n
        <3>1. n \in 1 .. Len(q) /\ n > 0 /\ (i < n \/ i = n)
            BY <1>1, <1>5, <2>1
        <3>2. d[q[n]] <= at
            BY <1>5, <3>1 DEF P
        <3>3. d[q[i]] \in Int /\ d[q[n]] \in Int /\ d[q[i]] <= d[q[n]]
            BY <3>1
        <3> QED BY <2>1, <3>2, <3>3
    <2>2. CASE i > n
        <3>1. i \in n + 1 .. Len(q)
            BY <1>1, <1>5, <2>2
        <3>2. d[q[i]] > at
            BY <1>5, <3>1 DEF P
        <3> QED BY <1>5, <2>2, <3>2
    <2> QED BY <1>5, <2>1, <2>2
<1> QED BY <1>5, <1>6 DEF n

\* The tasks of q in the order of their keys d; the first n are those with keys of
\* at most at; link is its reading from behind.
InOrder(q, d) == \A i, j \in 1 .. Len(q) : i < j => d[q[i]] <= d[q[j]]
Front(q, n, d, at) == \A i \in 1 .. Len(q) : d[q[i]] <= at <=> i <= n
Back(link, q) == \A i \in 1 .. Len(q) : link[q[i]] = IF i = 1 THEN Null ELSE q[i - 1]

\* A walk ends where the next task does not belong to it.
LEMMA WalkIs ==
    ASSUME NEW s \in Seq(Task), NEW While, NEW n \in 1 .. Len(s),
           \A k \in 2 .. n : s[k] \in While, n < Len(s) => s[n + 1] \notin While
    PROVE  Walk(s, While) = s[n]
<1> DEFINE P(m) == (\A k \in 2 .. m : s[k] \in While) /\ (m < Len(s) => s[m + 1] \notin While)
<1>1. Len(s) \in Nat
    BY LenProperties
<1>2. ASSUME NEW m \in 1 .. Len(s), P(m) PROVE m = n
    <2>1. ~ (m < n)
        <3> SUFFICES ASSUME m < n PROVE FALSE
            OBVIOUS
        <3>1. m + 1 \in 2 .. n /\ m < Len(s)
            BY <1>1
        <3> QED BY <1>2, <3>1
    <2>2. ~ (n < m)
        <3> SUFFICES ASSUME n < m PROVE FALSE
            OBVIOUS
        <3>1. n + 1 \in 2 .. m /\ n < Len(s)
            BY <1>1
        <3> QED BY <1>2, <3>1
    <2> QED BY <1>1, <2>1, <2>2
<1>3. P(n)
    OBVIOUS
<1>4. (CHOOSE m \in 1 .. Len(s) : P(m)) = n
    <2> HIDE DEF P
    <2> QED BY <1>2, <1>3
<1> QED BY <1>4 DEF Walk

\* From a task of the list the rest of the list hangs along next.
LEMMA RestHangs ==
    ASSUME NEW link, NEW head, NEW q \in Seq(Task), Distinct(q), Hangs(link, head, q),
           NEW k \in 1 .. Len(q)
    PROVE  LET s == SubSeq(q, k, Len(q))
           IN  /\ s \in Seq(Task) /\ Len(s) = Len(q) - k + 1
               /\ \A i \in 1 .. Len(q) - k + 1 : s[i] = q[k + i - 1]
               /\ ListAlong(link, q[k]) = s
<1> DEFINE s == SubSeq(q, k, Len(q))
<1>1. Len(q) \in Nat /\ \A i \in k .. Len(q) : q[i] \in Task
    BY LenProperties, ElementOfSeq
<1>2. /\ s \in Seq(Task) /\ Len(s) = Len(q) - k + 1
      /\ \A i \in 1 .. Len(q) - k + 1 : s[i] = q[k + i - 1]
    BY <1>1, SubSeqProperties
<1> HIDE DEF s
<1>3. Distinct(s)
    <2> SUFFICES ASSUME NEW i \in 1 .. Len(s), NEW j \in 1 .. Len(s), s[i] = s[j]
                 PROVE  i = j
        BY DEF Distinct
    <2>1. k + i - 1 \in 1 .. Len(q) /\ k + j - 1 \in 1 .. Len(q)
        BY <1>1, <1>2
    <2>2. q[k + i - 1] = q[k + j - 1]
        BY <1>2
    <2>3. k + i - 1 = k + j - 1
        BY <2>1, <2>2 DEF Distinct
    <2> QED BY <1>1, <1>2, <2>3
<1>4. Hangs(link, q[k], s)
    <2>1. s # <<>> /\ q[k] = s[1]
        <3>1. Len(s) > 0 /\ 1 \in 1 .. Len(q) - k + 1 /\ k + 1 - 1 = k
            BY <1>1, <1>2
        <3> QED BY <1>2, <3>1, EmptySeq
    <2>2. ASSUME NEW i \in 1 .. Len(s)
          PROVE  link[s[i]] = IF i = Len(s) THEN Null ELSE s[i + 1]
        <3>1. k + i - 1 \in 1 .. Len(q) /\ s[i] = q[k + i - 1] /\ (k + i - 1 = Len(q) <=> i = Len(s))
            BY <1>1, <1>2
        <3>2. i # Len(s) => s[i + 1] = q[(k + i - 1) + 1]
            <4> SUFFICES ASSUME i # Len(s) PROVE s[i + 1] = q[(k + i - 1) + 1]
                OBVIOUS
            <4>1. i \in 1 .. Len(q) - k + 1 /\ i # Len(q) - k + 1
                BY <1>2
            <4>2. i + 1 \in 1 .. Len(q) - k + 1 /\ k + (i + 1) - 1 = (k + i - 1) + 1
                BY <1>1, <4>1
            <4> QED BY <1>2, <4>2
        <3>3. link[q[k + i - 1]] = IF k + i - 1 = Len(q) THEN Null ELSE q[(k + i - 1) + 1]
            BY <3>1 DEF Hangs
        <3> QED BY <3>1, <3>2, <3>3
    <2> QED BY <2>1, <2>2 DEF Hangs
<1>5. ListAlong(link, q[k]) = s
    BY <1>2, <1>3, <1>4, ListIs
<1> QED BY <1>2, <1>5 DEF s

\* From a task of the list what is in front of it hangs along prev.
LEMMA FrontHangs ==
    ASSUME NEW link, NEW q \in Seq(Task), Distinct(q), Back(link, q), NEW k \in 1 .. Len(q)
    PROVE  LET s == ListAlong(link, q[k])
           IN  /\ s \in Seq(Task) /\ Len(s) = k
               /\ \A i \in 1 .. k : s[i] = q[k + 1 - i]
<1> DEFINE s == [i \in 1 .. k |-> q[k + 1 - i]]
<1>1. Len(q) \in Nat /\ \A i \in 1 .. Len(q) : q[i] \in Task
    BY LenProperties, ElementOfSeq
<1>2. s \in Seq(Task) /\ Len(s) = k /\ \A i \in 1 .. k : s[i] = q[k + 1 - i]
    <2>1. \A i \in 1 .. k : k + 1 - i \in 1 .. Len(q)
        BY <1>1
    <2>2. s \in [1 .. k -> Task]
        BY <1>1, <2>1
    <2>3. s \in Seq(Task)
        BY <1>1, <2>2, SeqDef
    <2> QED BY <1>1, <2>2, <2>3
<1> HIDE DEF s
<1>3. Distinct(s)
    <2> SUFFICES ASSUME NEW i \in 1 .. Len(s), NEW j \in 1 .. Len(s), s[i] = s[j]
                 PROVE  i = j
        BY DEF Distinct
    <2>1. k + 1 - i \in 1 .. Len(q) /\ k + 1 - j \in 1 .. Len(q)
        BY <1>1, <1>2
    <2>2. q[k + 1 - i] = q[k + 1 - j]
        BY <1>2
    <2>3. k + 1 - i = k + 1 - j
        BY <2>1, <2>2 DEF Distinct
    <2> QED BY <1>1, <1>2, <2>3
<1>4. Hangs(link, q[k], s)
    <2>1. s # <<>> /\ q[k] = s[1]
        <3>1. Len(s) > 0 /\ 1 \in 1 .. k /\ k + 1 - 1 = k
            BY <1>1, <1>2
        <3> QED BY <1>2, <3>1, EmptySeq
    <2>2. ASSUME NEW i \in 1 .. Len(s)
          PROVE  link[s[i]] = IF i = Len(s) THEN Null ELSE s[i + 1]
        <3>1. k + 1 - i \in 1 .. Len(q) /\ s[i] = q[k + 1 - i] /\ (k + 1 - i = 1 <=> i = Len(s))
            BY <1>1, <1>2
        <3>2. i # Len(s) => s[i + 1] = q[(k + 1 - i) - 1]
            <4> SUFFICES ASSUME i # Len(s) PROVE s[i + 1] = q[(k + 1 - i) - 1]
                OBVIOUS
            <4>1. i + 1 \in 1 .. k /\ k + 1 - (i + 1) = (k + 1 - i) - 1
                BY <1>1, <1>2
            <4> QED BY <1>2, <4>1
        <3>3. link[q[k + 1 - i]] = IF k + 1 - i = 1 THEN Null ELSE q[(k + 1 - i) - 1]
            BY <3>1 DEF Back
        <3> QED BY <3>1, <3>2, <3>3
    <2> QED BY <2>1, <2>2 DEF Hangs
<1>5. ListAlong(link, q[k]) = s
    BY <1>2, <1>3, <1>4, ListIs
<1> QED BY <1>2, <1>5

\* A walk along next that starts at a task due by a time ends at the last such task.
LEMMA WalkOn ==
    ASSUME NEW q \in Seq(Task), Distinct(q), Hangs(next, start, q),
           NEW at \in Int, NEW n \in 0 .. Len(q), Front(q, n, timeout, at),
           NEW k \in 1 .. Len(q), k <= n
    PROVE  LastDueBy(q[k], at) = q[n]
<1> DEFINE s == SubSeq(q, k, Len(q))
           D == {u \in Task : timeout[u] <= at}
<1>1. Len(q) \in Nat /\ \A i \in 1 .. Len(q) : q[i] \in Task
    BY LenProperties, ElementOfSeq
<1>2. /\ s \in Seq(Task) /\ Len(s) = Len(q) - k + 1
      /\ \A i \in 1 .. Len(q) - k + 1 : s[i] = q[k + i - 1]
      /\ ListAlong(next, q[k]) = s
    BY RestHangs
<1>3. \A i \in 1 .. Len(q) : q[i] \in D <=> i <= n
    BY <1>1 DEF Front
<1> HIDE DEF s, D
<1>4. n - k + 1 \in 1 .. Len(s) /\ s[n - k + 1] = q[n]
    <2>1. n - k + 1 \in 1 .. Len(q) - k + 1 /\ k + (n - k + 1) - 1 = n
        BY <1>1
    <2> QED BY <1>2, <2>1
<1>5. ASSUME NEW i \in 2 .. n - k + 1 PROVE s[i] \in D
    <2>1. i \in 1 .. Len(q) - k + 1 /\ k + i - 1 \in 1 .. Len(q) /\ k + i - 1 <= n
        BY <1>1
    <2> QED BY <1>2, <1>3, <2>1
<1>6. ASSUME n - k + 1 < Len(s) PROVE s[(n - k + 1) + 1] \notin D
    <2>1. /\ (n - k + 1) + 1 \in 1 .. Len(q) - k + 1 /\ k + ((n - k + 1) + 1) - 1 = n + 1
          /\ n + 1 \in 1 .. Len(q) /\ ~ (n + 1 <= n)
        BY <1>1, <1>2, <1>6
    <2> QED BY <1>2, <1>3, <2>1
<1>7. Walk(s, D) = s[n - k + 1]
    BY <1>2, <1>4, <1>5, <1>6, WalkIs
<1> QED BY <1>2, <1>4, <1>7 DEF D, LastDueBy

\* A walk along prev that starts at a task due later ends at the first such task.
LEMMA WalkBack ==
    ASSUME NEW q \in Seq(Task), Distinct(q), Back(prev, q), timeout \in [Task -> Int],
           NEW at \in Int, NEW n \in 0 .. Len(q), Front(q, n, timeout, at),
           NEW k \in 1 .. Len(q), k > n
    PROVE  FirstDueAfter(q[k], at) = q[n + 1]
<1> DEFINE s == ListAlong(prev, q[k])
           D == {u \in Task : timeout[u] > at}
<1>1. Len(q) \in Nat /\ \A i \in 1 .. Len(q) : q[i] \in Task
    BY LenProperties, ElementOfSeq
<1>2. s \in Seq(Task) /\ Len(s) = k
    BY FrontHangs
<1>3. \A i \in 1 .. k : s[i] = q[k + 1 - i]
    BY FrontHangs
<1>4. \A i \in 1 .. Len(q) : q[i] \in D <=> i > n
    <2> TAKE i \in 1 .. Len(q)
    <2>1. timeout[q[i]] \in Int /\ (timeout[q[i]] <= at <=> i <= n)
        BY <1>1 DEF Front
    <2> QED BY <1>1, <2>1
<1> HIDE DEF s, D
<1>5. k - n \in 1 .. Len(s) /\ s[k - n] = q[n + 1]
    <2>1. k - n \in 1 .. k /\ k + 1 - (k - n) = n + 1
        BY <1>1
    <2>2. s[k - n] = q[n + 1]
        BY <1>3, <2>1
    <2> QED BY <1>2, <2>1, <2>2
<1>6. ASSUME NEW i \in 2 .. k - n PROVE s[i] \in D
    <2>1. i \in 1 .. k /\ k + 1 - i \in 1 .. Len(q) /\ k + 1 - i > n
        BY <1>1
    <2>2. s[i] = q[k + 1 - i]
        BY <1>3, <2>1
    <2>3. q[k + 1 - i] \in D
        BY <1>4, <2>1
    <2> QED BY <2>2, <2>3
<1>7. ASSUME k - n < Len(s) PROVE s[(k - n) + 1] \notin D
    <2>1. (k - n) + 1 \in 1 .. k /\ k + 1 - ((k - n) + 1) = n
        BY <1>1, <1>2, <1>7
    <2>2. n \in 1 .. Len(q) /\ ~ (n > n)
        BY <1>1, <1>2, <1>7
    <2>3. s[(k - n) + 1] = q[n]
        BY <1>3, <2>1
    <2>4. q[n] \notin D
        BY <1>4, <2>2
    <2> QED BY <2>3, <2>4
<1>8. Walk(s, D) = s[k - n]
    <2> DEFINE m == k - n
    <2>1. m \in 1 .. Len(s)
        BY <1>5
    <2>2. \A i \in 2 .. m : s[i] \in D
        BY <1>6, Zenon
    <2>3. m < Len(s) => s[m + 1] \notin D
        BY <1>7, Zenon
    <2> HIDE DEF m
    <2>4. Walk(s, D) = s[m]
        BY <1>2, <2>1, <2>2, <2>3, WalkIs
    <2> QED BY <2>4 DEF m
<1> QED BY <1>5, <1>8 DEF s, D, FirstDueAfter

-----------------------------------------------------------------------------
(* A task put into a list, a list cut in two, a task taken out of one.     *)

\* r is q with t behind the first n tasks; q without the task at k; a and b are the
\* first n tasks of q and the others.
Put(q, n, t, r) ==
    /\ Len(r) = Len(q) + 1
    /\ \A i \in 1 .. Len(r) : /\ i <= n => r[i] = q[i] /\ i \in 1 .. Len(q)
                              /\ i = n + 1 => r[i] = t
                              /\ i > n + 1 => r[i] = q[i - 1] /\ i - 1 \in 1 .. Len(q)
Took(q, k, r) ==
    /\ Len(r) = Len(q) - 1
    /\ \A i \in 1 .. Len(r) : r[i] = IF i < k THEN q[i] ELSE q[i + 1]
Parts(q, n, a, b) ==
    /\ Len(a) = n /\ \A i \in 1 .. n : a[i] = q[i]
    /\ Len(b) = Len(q) - n /\ \A i \in 1 .. Len(b) : b[i] = q[n + i]

\* new is link with t linked between `from` and `to`.
Joined(new, link, t, from, to) ==
    \A u \in Task : new[u] = IF u = t THEN to ELSE IF u = from THEN t ELSE link[u]

\* new is link with `to` instead of t behind `from`.
Bypassed(new, link, t, from, to) ==
    \A u \in Task : u # t => new[u] = IF u = from THEN to ELSE link[u]

\* new is link without that of t.
Unlinked(new, link, t) == \A u \in Task : new[u] = IF u = t THEN Null ELSE link[u]

\* The neighbours of the place behind the first n tasks.
Before(q, n) == IF n = 0 THEN Null ELSE q[n]
After(q, n)  == IF n = Len(q) THEN Null ELSE q[n + 1]

\* The sequences of TimerQueue are these.
LEMMA PutIs ==
    ASSUME NEW q \in Seq(Task), NEW t \in Task, NEW n \in 0 .. Len(q)
    PROVE  LET r == SubSeq(q, 1, n) \o <<t>> \o SubSeq(q, n + 1, Len(q))
           IN  r \in Seq(Task) /\ Put(q, n, t, r)
<1> DEFINE a == SubSeq(q, 1, n)
           b == SubSeq(q, n + 1, Len(q))
           m == <<t>>
<1>1. Len(q) \in Nat /\ \A i \in 1 .. Len(q) : q[i] \in Task
    BY LenProperties, ElementOfSeq
<1>2. a \in Seq(Task) /\ Len(a) = n /\ \A i \in 1 .. n : a[i] = q[i]
    BY <1>1, SubSeqProperties
<1>3. b \in Seq(Task) /\ Len(b) = Len(q) - n /\ \A i \in 1 .. Len(q) - n : b[i] = q[n + i]
    BY <1>1, SubSeqProperties
<1>4. m \in Seq(Task) /\ Len(m) = 1 /\ m[1] = t
    OBVIOUS
<1> HIDE DEF a, b, m
<1> DEFINE c == a \o m
<1>5. /\ c \in Seq(Task) /\ Len(c) = n + 1
      /\ \A i \in 1 .. n + 1 : c[i] = IF i <= n THEN a[i] ELSE m[i - n]
    <2>1. /\ c \in Seq(Task) /\ Len(c) = Len(a) + Len(m)
          /\ \A i \in 1 .. Len(a) + Len(m) : c[i] = IF i <= Len(a) THEN a[i] ELSE m[i - Len(a)]
        BY <1>2, <1>4, ConcatProperties, Zenon
    <2> HIDE DEF c
    <2> QED BY <1>2, <1>4, <2>1
<1> HIDE DEF c
<1> DEFINE r == c \o b
<1>6. /\ r \in Seq(Task) /\ Len(r) = Len(q) + 1
      /\ \A i \in 1 .. Len(q) + 1 : r[i] = IF i <= n + 1 THEN c[i] ELSE b[i - (n + 1)]
    <2>1. /\ r \in Seq(Task) /\ Len(r) = Len(c) + Len(b)
          /\ \A i \in 1 .. Len(c) + Len(b) : r[i] = IF i <= Len(c) THEN c[i] ELSE b[i - Len(c)]
        BY <1>3, <1>5, ConcatProperties, Zenon
    <2> HIDE DEF r
    <2>2. Len(c) + Len(b) = Len(q) + 1
        BY <1>1, <1>3, <1>5
    <2> QED BY <1>5, <2>1, <2>2, Zenon
<1> HIDE DEF r
<1>7. ASSUME NEW i \in 1 .. Len(q) + 1
      PROVE  /\ i <= n => r[i] = q[i] /\ i \in 1 .. Len(q)
             /\ i = n + 1 => r[i] = t
             /\ i > n + 1 => r[i] = q[i - 1] /\ i - 1 \in 1 .. Len(q)
    <2>1. ASSUME i <= n PROVE r[i] = q[i] /\ i \in 1 .. Len(q)
        <3>1. i \in 1 .. n /\ i \in 1 .. n + 1 /\ i <= n + 1 /\ i \in 1 .. Len(q)
            BY <1>1, <2>1
        <3> QED BY <1>2, <1>5, <1>6, <2>1, <3>1
    <2>2. ASSUME i = n + 1 PROVE r[i] = t
        <3>1. i \in 1 .. n + 1 /\ ~ (i <= n) /\ i - n = 1
            BY <1>1, <2>2
        <3> QED BY <1>4, <1>5, <1>6, <2>2, <3>1
    <2>3. ASSUME i > n + 1 PROVE r[i] = q[i - 1] /\ i - 1 \in 1 .. Len(q)
        <3>1. i - 1 \in 1 .. Len(q) /\ i - (n + 1) \in 1 .. Len(q) - n /\ n + (i - (n + 1)) = i - 1 /\ ~ (i <= n + 1) /\ ~ (i <= n)
            BY <1>1, <2>3
        <3> QED BY <1>3, <1>6, <2>3, <3>1
    <2> QED BY <2>1, <2>2, <2>3
<1> QED BY <1>6, <1>7 DEF r, c, a, b, m, Put

\* The sequence of TimerQueue without the task at k.
LEMMA TookIs ==
    ASSUME NEW q \in Seq(Task), NEW k \in 1 .. Len(q)
    PROVE  LET r == SubSeq(q, 1, k - 1) \o SubSeq(q, k + 1, Len(q))
           IN  r \in Seq(Task) /\ Took(q, k, r)
<1> DEFINE a == SubSeq(q, 1, k - 1)
           b == SubSeq(q, k + 1, Len(q))
<1>1. Len(q) \in Nat /\ \A i \in 1 .. Len(q) : q[i] \in Task
    BY LenProperties, ElementOfSeq
<1>2. a \in Seq(Task) /\ Len(a) = k - 1 /\ \A i \in 1 .. k - 1 : a[i] = q[i]
    BY <1>1, SubSeqProperties
<1>3. b \in Seq(Task) /\ Len(b) = Len(q) - k /\ \A i \in 1 .. Len(q) - k : b[i] = q[k + i]
    BY <1>1, SubSeqProperties
<1> HIDE DEF a, b
<1> DEFINE r == a \o b
<1>4. /\ r \in Seq(Task) /\ Len(r) = Len(q) - 1
      /\ \A i \in 1 .. Len(q) - 1 : r[i] = IF i <= k - 1 THEN a[i] ELSE b[i - (k - 1)]
    <2>1. /\ r \in Seq(Task) /\ Len(r) = Len(a) + Len(b)
          /\ \A i \in 1 .. Len(a) + Len(b) : r[i] = IF i <= Len(a) THEN a[i] ELSE b[i - Len(a)]
        BY <1>2, <1>3, ConcatProperties, Zenon
    <2> HIDE DEF r
    <2>2. Len(a) + Len(b) = Len(q) - 1
        BY <1>1, <1>2, <1>3
    <2> QED BY <1>2, <2>1, <2>2, Zenon
<1> HIDE DEF r
<1>5. ASSUME NEW i \in 1 .. Len(q) - 1 PROVE r[i] = IF i < k THEN q[i] ELSE q[i + 1]
    <2>1. CASE i < k
        <3>1. i \in 1 .. k - 1 /\ i <= k - 1
            BY <1>1, <2>1
        <3> QED BY <1>2, <1>4, <2>1, <3>1
    <2>2. CASE ~ (i < k)
        <3>1. i - (k - 1) \in 1 .. Len(q) - k /\ k + (i - (k - 1)) = i + 1 /\ ~ (i <= k - 1)
            BY <1>1, <2>2
        <3> QED BY <1>3, <1>4, <2>2, <3>1
    <2> QED BY <2>1, <2>2
<1> QED BY <1>4, <1>5 DEF r, a, b, Took

\* The sequences of TimerQueue's batch and of what it leaves pending.
LEMMA PartsAre ==
    ASSUME NEW q \in Seq(Task), NEW n \in 0 .. Len(q)
    PROVE  LET a == SubSeq(q, 1, n)
               b == SubSeq(q, n + 1, Len(q))
           IN  a \in Seq(Task) /\ b \in Seq(Task) /\ Parts(q, n, a, b)
<1> DEFINE a == SubSeq(q, 1, n)
           b == SubSeq(q, n + 1, Len(q))
<1>1. Len(q) \in Nat /\ \A i \in 1 .. Len(q) : q[i] \in Task
    BY LenProperties, ElementOfSeq
<1>2. a \in Seq(Task) /\ Len(a) = n /\ \A i \in 1 .. n : a[i] = q[i]
    BY <1>1, SubSeqProperties
<1>3. b \in Seq(Task) /\ Len(b) = Len(q) - n /\ \A i \in 1 .. Len(q) - n : b[i] = q[n + i]
    BY <1>1, SubSeqProperties
<1> HIDE DEF a, b
<1>4. Parts(q, n, a, b)
    BY <1>2, <1>3 DEF Parts
<1> QED BY <1>2, <1>3, <1>4 DEF a, b

\* Where the tasks of r come from.
LEMMA PutTasks ==
    ASSUME NEW q \in Seq(Task), NEW r \in Seq(Task), NEW t, NEW n \in 0 .. Len(q), Put(q, n, t, r)
    PROVE  /\ \A i \in 1 .. Len(r) : r[i] = t \/ \E k \in 1 .. Len(q) : r[i] = q[k]
           /\ \A k \in 1 .. Len(q) : \E i \in 1 .. Len(r) : r[i] = q[k]
           /\ n + 1 \in 1 .. Len(r) /\ r[n + 1] = t
<1>1. Len(q) \in Nat /\ Len(r) = Len(q) + 1
    BY LenProperties DEF Put
<1>2. ASSUME NEW i \in 1 .. Len(r) PROVE r[i] = t \/ \E k \in 1 .. Len(q) : r[i] = q[k]
    <2>1. CASE i <= n
        <3>1. i \in 1 .. Len(q) /\ r[i] = q[i]
            BY <1>1, <2>1 DEF Put
        <3> QED BY <3>1
    <2>2. CASE i = n + 1
        BY <1>1, <2>2 DEF Put
    <2>3. CASE i > n + 1
        <3>1. i - 1 \in 1 .. Len(q) /\ r[i] = q[i - 1]
            BY <1>1, <2>3 DEF Put
        <3> QED BY <3>1
    <2> QED BY <1>1, <2>1, <2>2, <2>3
<1>3. ASSUME NEW k \in 1 .. Len(q) PROVE \E i \in 1 .. Len(r) : r[i] = q[k]
    <2>1. CASE k <= n
        <3>1. k \in 1 .. Len(r) /\ r[k] = q[k]
            BY <1>1, <2>1 DEF Put
        <3> QED BY <3>1
    <2>2. CASE k > n
        <3>1. k + 1 \in 1 .. Len(r) /\ ~ (k + 1 <= n) /\ k + 1 # n + 1 /\ (k + 1) - 1 = k
            BY <1>1, <2>2
        <3>2. r[k + 1] = q[k]
            BY <3>1 DEF Put
        <3> QED BY <3>1, <3>2
    <2> QED BY <1>1, <2>1, <2>2
<1>4. n + 1 \in 1 .. Len(r) /\ r[n + 1] = t
    BY <1>1 DEF Put
<1> QED BY <1>2, <1>3, <1>4

\* All but the one that was taken.
LEMMA TookTasks ==
    ASSUME NEW q \in Seq(Task), Distinct(q), NEW r \in Seq(Task), NEW k \in 1 .. Len(q), Took(q, k, r)
    PROVE  /\ \A i \in 1 .. Len(r) : r[i] # q[k] /\ \E j \in 1 .. Len(q) : r[i] = q[j]
           /\ \A j \in 1 .. Len(q) : j # k => \E i \in 1 .. Len(r) : r[i] = q[j]
<1>1. Len(q) \in Nat /\ Len(r) = Len(q) - 1
    BY LenProperties DEF Took
<1>2. ASSUME NEW i \in 1 .. Len(r)
      PROVE  r[i] # q[k] /\ \E j \in 1 .. Len(q) : r[i] = q[j]
    <2>1. CASE i < k
        <3>1. i \in 1 .. Len(q) /\ r[i] = q[i] /\ i # k
            BY <1>1, <2>1 DEF Took
        <3> QED BY <3>1 DEF Distinct
    <2>2. CASE ~ (i < k)
        <3>1. i + 1 \in 1 .. Len(q) /\ r[i] = q[i + 1] /\ i + 1 # k
            BY <1>1, <2>2 DEF Took
        <3> QED BY <3>1 DEF Distinct
    <2> QED BY <2>1, <2>2
<1>3. ASSUME NEW j \in 1 .. Len(q), j # k PROVE \E i \in 1 .. Len(r) : r[i] = q[j]
    <2>1. CASE j < k
        <3>1. j \in 1 .. Len(r) /\ r[j] = q[j]
            BY <1>1, <2>1 DEF Took
        <3> QED BY <3>1
    <2>2. CASE j > k
        <3>1. j - 1 \in 1 .. Len(r) /\ ~ (j - 1 < k) /\ (j - 1) + 1 = j
            BY <1>1, <2>2
        <3>2. r[j - 1] = q[j]
            BY <3>1 DEF Took
        <3> QED BY <3>1, <3>2
    <2> QED BY <1>1, <1>3, <2>1, <2>2
<1> QED BY <1>2, <1>3

\* Each task of q is in one of the parts.
LEMMA PartsTasks ==
    ASSUME NEW q \in Seq(Task), Distinct(q), NEW a \in Seq(Task), NEW b \in Seq(Task),
           NEW n \in 0 .. Len(q), Parts(q, n, a, b)
    PROVE  /\ \A i \in 1 .. Len(a), j \in 1 .. Len(b) : a[i] # b[j]
           /\ \A i \in 1 .. Len(a) : i \in 1 .. Len(q) /\ a[i] = q[i]
           /\ \A j \in 1 .. Len(b) : n + j \in 1 .. Len(q) /\ b[j] = q[n + j]
           /\ \A k \in 1 .. Len(q) : \/ k <= n /\ k \in 1 .. Len(a) /\ q[k] = a[k]
                                     \/ k > n /\ k - n \in 1 .. Len(b) /\ q[k] = b[k - n]
<1>1. Len(q) \in Nat /\ Len(a) = n /\ Len(b) = Len(q) - n
    BY LenProperties DEF Parts
<1>2. \A i \in 1 .. Len(a) : i \in 1 .. Len(q) /\ a[i] = q[i]
    BY <1>1 DEF Parts
<1>3. \A j \in 1 .. Len(b) : n + j \in 1 .. Len(q) /\ b[j] = q[n + j]
    BY <1>1 DEF Parts
<1>4. ASSUME NEW i \in 1 .. Len(a), NEW j \in 1 .. Len(b) PROVE a[i] # b[j]
    <2>1. i # n + j
        BY <1>1
    <2> QED BY <1>2, <1>3, <2>1 DEF Distinct
<1>5. ASSUME NEW k \in 1 .. Len(q)
      PROVE  \/ k <= n /\ k \in 1 .. Len(a) /\ q[k] = a[k]
             \/ k > n /\ k - n \in 1 .. Len(b) /\ q[k] = b[k - n]
    <2>1. CASE k <= n
        <3>1. k \in 1 .. Len(a)
            BY <1>1, <2>1
        <3> QED BY <1>2, <2>1, <3>1
    <2>2. CASE k > n
        <3>1. k - n \in 1 .. Len(b) /\ n + (k - n) = k
            BY <1>1, <2>2
        <3> QED BY <1>3, <2>2, <3>1
    <2> QED BY <1>1, <2>1, <2>2
<1> QED BY <1>2, <1>3, <1>4, <1>5

\* The links of a list whose tasks keep theirs.
LEMMA SameLinks ==
    ASSUME NEW q, NEW head, NEW nx, NEW new, \A i \in 1 .. Len(q) : new[q[i]] = nx[q[i]]
    PROVE  /\ Hangs(nx, head, q) => Hangs(new, head, q)
           /\ Back(nx, q) => Back(new, q)
BY DEF Hangs, Back

\* A list with a task put into it has none twice either.
LEMMA PutDistinct ==
    ASSUME NEW q \in Seq(Task), Distinct(q), NEW r \in Seq(Task), NEW n \in 0 .. Len(q),
           NEW t \in Task, \A i \in 1 .. Len(q) : q[i] # t, Put(q, n, t, r)
    PROVE  Distinct(r)
<1>1. Len(q) \in Nat /\ Len(r) = Len(q) + 1
    BY LenProperties DEF Put
<1>2. ASSUME NEW m \in 1 .. Len(r), m # n + 1
      PROVE  \E l \in 1 .. Len(q) : r[m] = q[l] /\ l = IF m <= n THEN m ELSE m - 1
    <2>1. CASE m <= n
        <3>1. m \in 1 .. Len(q) /\ r[m] = q[m]
            BY <2>1 DEF Put
        <3> QED BY <2>1, <3>1
    <2>2. CASE m > n + 1
        <3>1. m - 1 \in 1 .. Len(q) /\ r[m] = q[m - 1] /\ ~ (m <= n)
            BY <1>1, <2>2 DEF Put
        <3> QED BY <3>1
    <2> QED BY <1>1, <1>2, <2>1, <2>2
<1> SUFFICES ASSUME NEW i \in 1 .. Len(r), NEW j \in 1 .. Len(r), r[i] = r[j] PROVE i = j
    BY DEF Distinct
<1>3. CASE i # n + 1 /\ j # n + 1
    <2>1. PICK k \in 1 .. Len(q) : r[i] = q[k] /\ k = IF i <= n THEN i ELSE i - 1
        BY <1>2, <1>3
    <2>2. PICK l \in 1 .. Len(q) : r[j] = q[l] /\ l = IF j <= n THEN j ELSE j - 1
        BY <1>2, <1>3
    <2>3. k = l
        BY <2>1, <2>2 DEF Distinct
    <2> QED BY <1>1, <1>3, <2>1, <2>2, <2>3
<1>4. CASE i = n + 1 \/ j = n + 1
    <2>1. \A m \in 1 .. Len(r) : m # n + 1 => r[m] # t
        BY <1>2
    <2>2. \A m \in 1 .. Len(r) : m = n + 1 => r[m] = t
        BY DEF Put
    <2> QED BY <1>4, <2>1, <2>2
<1> QED BY <1>3, <1>4

\* Put: t is linked between its neighbours, in both directions.
LEMMA PutLinks ==
    ASSUME NEW q \in Seq(Task), Distinct(q), NEW r \in Seq(Task), NEW n \in 0 .. Len(q),
           NEW t \in Task, \A i \in 1 .. Len(q) : q[i] # t, Put(q, n, t, r),
           NEW head, NEW nx, NEW pv, Hangs(nx, head, q), Back(pv, q),
           NEW new, Joined(new, nx, t, Before(q, n), After(q, n)),
           NEW old, Joined(old, pv, t, After(q, n), Before(q, n))
    PROVE  /\ Distinct(r) /\ Back(old, r)
           /\ Hangs(new, IF n = 0 THEN t ELSE head, r)
<1>0. /\ \A u \in Task : new[u] = IF u = t THEN After(q, n) ELSE IF u = Before(q, n) THEN t ELSE nx[u]
      /\ \A u \in Task : old[u] = IF u = t THEN Before(q, n) ELSE IF u = After(q, n) THEN t ELSE pv[u]
    BY DEF Joined
<1>1. /\ Len(q) \in Nat /\ Len(r) = Len(q) + 1
      /\ \A i \in 1 .. Len(q) : q[i] \in Task /\ q[i] # Null
      /\ \A i \in 1 .. Len(q), j \in 1 .. Len(q) : q[i] = q[j] => i = j
    BY LenProperties, ElementOfSeq, NoTask DEF Put, Distinct
<1>2. \A i \in 1 .. Len(r) : /\ i <= n => r[i] = q[i] /\ i \in 1 .. Len(q)
                             /\ i = n + 1 => r[i] = t
                             /\ i > n + 1 => r[i] = q[i - 1] /\ i - 1 \in 1 .. Len(q)
    BY DEF Put
<1>3. Distinct(r)
    BY PutDistinct
<1>4. /\ n > 0 => Before(q, n) = q[n] /\ n \in 1 .. Len(q)
      /\ n = 0 => Before(q, n) = Null
      /\ n < Len(q) => After(q, n) = q[n + 1] /\ n + 1 \in 1 .. Len(q)
      /\ n = Len(q) => After(q, n) = Null
    BY <1>1 DEF Before, After
<1>5. ASSUME NEW i \in 1 .. Len(r)
      PROVE  new[r[i]] = IF i = Len(r) THEN Null ELSE r[i + 1]
    <2>1. CASE i < n
        <3>1. i \in 1 .. Len(q) /\ i # Len(q) /\ i # n /\ n > 0 /\ r[i] = q[i]
            BY <1>1, <1>2, <2>1
        <3>2. nx[q[i]] = q[i + 1]
            BY <3>1 DEF Hangs
        <3>3. new[q[i]] = nx[q[i]]
            BY <1>0, <1>1, <1>4, <3>1
        <3>4. i + 1 \in 1 .. Len(r) /\ i + 1 <= n /\ i # Len(r)
            BY <1>1, <2>1
        <3>5. r[i + 1] = q[i + 1]
            BY <1>2, <3>4
        <3> QED BY <3>1, <3>2, <3>3, <3>4, <3>5
    <2>2. CASE i = n
        <3>1. n > 0 /\ r[i] = q[n] /\ Before(q, n) = q[n] /\ q[n] \in Task /\ q[n] # t
            BY <1>1, <1>2, <1>4, <2>2
        <3>2. new[q[n]] = t
            BY <1>0, <3>1
        <3>3. i + 1 \in 1 .. Len(r) /\ i + 1 = n + 1 /\ i # Len(r)
            BY <1>1, <2>2
        <3>4. r[i + 1] = t
            BY <1>2, <3>3
        <3> QED BY <3>1, <3>2, <3>3, <3>4
    <2>3. CASE i = n + 1
        <3>1. new[r[i]] = After(q, n)
            BY <1>0, <1>2, <2>3
        <3>2. CASE n = Len(q)
            BY <1>1, <1>4, <2>3, <3>1, <3>2
        <3>3. CASE n < Len(q)
            <4>1. i + 1 \in 1 .. Len(r) /\ i + 1 > n + 1 /\ (i + 1) - 1 = n + 1 /\ i # Len(r)
                BY <1>1, <2>3, <3>3
            <4>2. r[i + 1] = q[n + 1]
                BY <1>2, <4>1
            <4> QED BY <1>4, <3>1, <3>3, <4>1, <4>2
        <3> QED BY <1>1, <3>2, <3>3
    <2>4. CASE i > n + 1
        <3>1. i - 1 \in 1 .. Len(q) /\ r[i] = q[i - 1] /\ i - 1 # n /\ (i - 1 = Len(q) <=> i = Len(r))
            BY <1>1, <1>2, <2>4
        <3>2. nx[q[i - 1]] = IF i - 1 = Len(q) THEN Null ELSE q[(i - 1) + 1]
            BY <3>1 DEF Hangs
        <3>3. new[q[i - 1]] = nx[q[i - 1]]
            BY <1>0, <1>1, <1>4, <3>1
        <3>4. i # Len(r) => r[i + 1] = q[(i - 1) + 1]
            <4> SUFFICES ASSUME i # Len(r) PROVE r[i + 1] = q[(i - 1) + 1]
                OBVIOUS
            <4>1. i + 1 \in 1 .. Len(r) /\ i + 1 > n + 1 /\ (i + 1) - 1 = (i - 1) + 1
                BY <1>1, <2>4
            <4> QED BY <1>2, <4>1
        <3> QED BY <3>1, <3>2, <3>3, <3>4
    <2> QED BY <1>1, <2>1, <2>2, <2>3, <2>4
<1>6. ASSUME NEW i \in 1 .. Len(r)
      PROVE  old[r[i]] = IF i = 1 THEN Null ELSE r[i - 1]
    <2>1. CASE i <= n
        <3>1. i \in 1 .. Len(q) /\ i # n + 1 /\ r[i] = q[i]
            BY <1>1, <1>2, <2>1
        <3>2. old[q[i]] = pv[q[i]]
            BY <1>0, <1>1, <1>4, <3>1
        <3>3. pv[q[i]] = IF i = 1 THEN Null ELSE q[i - 1]
            BY <3>1 DEF Back
        <3>4. i # 1 => r[i - 1] = q[i - 1]
            <4> SUFFICES ASSUME i # 1 PROVE r[i - 1] = q[i - 1]
                OBVIOUS
            <4>1. i - 1 \in 1 .. Len(r) /\ i - 1 <= n
                BY <1>1, <2>1
            <4> QED BY <1>2, <4>1
        <3> QED BY <3>1, <3>2, <3>3, <3>4
    <2>2. CASE i = n + 1
        <3>1. old[r[i]] = Before(q, n) /\ (i = 1 <=> n = 0)
            BY <1>0, <1>2, <2>2
        <3>2. n # 0 => r[i - 1] = q[n]
            <4> SUFFICES ASSUME n # 0 PROVE r[i - 1] = q[n]
                OBVIOUS
            <4>1. i - 1 \in 1 .. Len(r) /\ i - 1 = n
                BY <1>1, <2>2
            <4> QED BY <1>2, <4>1
        <3> QED BY <1>1, <1>4, <3>1, <3>2
    <2>3. CASE i = n + 2
        <3>1. n + 1 \in 1 .. Len(q) /\ n < Len(q) /\ r[i] = q[n + 1]
            BY <1>1, <1>2, <2>3
        <3>2. old[q[n + 1]] = t
            BY <1>0, <1>1, <1>4, <3>1
        <3>3. i - 1 \in 1 .. Len(r) /\ i - 1 = n + 1 /\ i # 1
            BY <1>1, <2>3
        <3>4. r[i - 1] = t
            BY <1>2, <3>3
        <3> QED BY <3>1, <3>2, <3>3, <3>4
    <2>4. CASE i > n + 2
        <3>1. i - 1 \in 1 .. Len(q) /\ r[i] = q[i - 1] /\ i - 1 # n + 1 /\ i - 1 # 1 /\ i # 1
            BY <1>1, <1>2, <2>4
        <3>2. pv[q[i - 1]] = q[(i - 1) - 1]
            BY <3>1 DEF Back
        <3>3. old[q[i - 1]] = pv[q[i - 1]]
            BY <1>0, <1>1, <1>4, <3>1
        <3>4. i - 1 \in 1 .. Len(r) /\ i - 1 > n + 1
            BY <1>1, <2>4
        <3>5. r[i - 1] = q[(i - 1) - 1]
            BY <1>2, <3>4
        <3> QED BY <3>1, <3>2, <3>3, <3>5
    <2> QED BY <1>1, <2>1, <2>2, <2>3, <2>4
<1>7. r # <<>> /\ r[1] = IF n = 0 THEN t ELSE head
    <2>1. 1 \in 1 .. Len(r)
        BY <1>1
    <2>2. n # 0 => q[1] = head
        BY <1>1, EmptySeq DEF Hangs
    <2>3. r[1] = IF n = 0 THEN t ELSE q[1]
        BY <1>2, <2>1
    <2> QED BY <2>1, <2>2, <2>3, EmptySeq
<1> QED BY <1>3, <1>5, <1>6, <1>7 DEF Hangs, Back

\* Took: the neighbours of the task are linked with one another.
LEMMA TookLinks ==
    ASSUME NEW q \in Seq(Task), Distinct(q), NEW r \in Seq(Task), NEW k \in 1 .. Len(q), Took(q, k, r),
           NEW head, NEW nx, NEW pv, Hangs(nx, head, q), Back(pv, q),
           NEW new, Bypassed(new, nx, q[k], pv[q[k]], nx[q[k]]),
           NEW old, Bypassed(old, pv, q[k], nx[q[k]], pv[q[k]])
    PROVE  /\ Distinct(r) /\ Back(old, r)
           /\ Hangs(new, IF pv[q[k]] = Null THEN nx[q[k]] ELSE head, r)
<1>0. /\ \A u \in Task : u # q[k] => new[u] = IF u = pv[q[k]] THEN nx[q[k]] ELSE nx[u]
      /\ \A u \in Task : u # q[k] => old[u] = IF u = nx[q[k]] THEN pv[q[k]] ELSE pv[u]
    BY DEF Bypassed
<1>1. /\ Len(q) \in Nat /\ Len(r) = Len(q) - 1
      /\ \A i \in 1 .. Len(q) : q[i] \in Task /\ q[i] # Null
      /\ \A i \in 1 .. Len(q), j \in 1 .. Len(q) : q[i] = q[j] => i = j
    BY LenProperties, ElementOfSeq, NoTask DEF Took, Distinct
<1>2. \A i \in 1 .. Len(r) : /\ i < k => r[i] = q[i] /\ i \in 1 .. Len(q)
                             /\ i >= k => r[i] = q[i + 1] /\ i + 1 \in 1 .. Len(q)
    <2> TAKE i \in 1 .. Len(r)
    <2>1. r[i] = IF i < k THEN q[i] ELSE q[i + 1]
        BY DEF Took
    <2>2. (i < k => i \in 1 .. Len(q)) /\ (i >= k => i + 1 \in 1 .. Len(q))
        BY <1>1
    <2> QED BY <2>1, <2>2
<1>3. Distinct(r)
    <2> SUFFICES ASSUME NEW i \in 1 .. Len(r), NEW j \in 1 .. Len(r), r[i] = r[j] PROVE i = j
        BY DEF Distinct
    <2>1. CASE i < k
        BY <1>1, <1>2, <2>1
    <2>2. CASE i >= k
        BY <1>1, <1>2, <2>2
    <2> QED BY <1>1, <2>1, <2>2
<1>4. /\ pv[q[k]] = IF k = 1 THEN Null ELSE q[k - 1]
      /\ nx[q[k]] = IF k = Len(q) THEN Null ELSE q[k + 1]
      /\ k # 1 => k - 1 \in 1 .. Len(q)
      /\ k # Len(q) => k + 1 \in 1 .. Len(q)
    <2>1. /\ pv[q[k]] = IF k = 1 THEN Null ELSE q[k - 1]
          /\ nx[q[k]] = IF k = Len(q) THEN Null ELSE q[k + 1]
        BY DEF Hangs, Back
    <2> QED BY <1>1, <2>1
<1>5. ASSUME NEW i \in 1 .. Len(r)
      PROVE  new[r[i]] = IF i = Len(r) THEN Null ELSE r[i + 1]
    <2>1. CASE i < k - 1
        <3>1. i \in 1 .. Len(q) /\ i # Len(q) /\ i # k /\ i # k - 1 /\ r[i] = q[i]
            BY <1>1, <1>2, <2>1
        <3>2. nx[q[i]] = q[i + 1]
            BY <3>1 DEF Hangs
        <3>3. new[q[i]] = nx[q[i]]
            BY <1>0, <1>1, <1>4, <3>1
        <3>4. i + 1 \in 1 .. Len(r) /\ i + 1 < k /\ i # Len(r)
            BY <1>1, <2>1
        <3>5. r[i + 1] = q[i + 1]
            BY <1>2, <3>4
        <3> QED BY <3>1, <3>2, <3>3, <3>4, <3>5
    <2>2. CASE i = k - 1
        <3>1. k # 1 /\ i \in 1 .. Len(q) /\ i # k /\ r[i] = q[k - 1] /\ (i = Len(r) <=> k = Len(q))
            BY <1>1, <1>2, <2>2
        <3>2. q[k - 1] \in Task /\ q[k - 1] # q[k] /\ pv[q[k]] = q[k - 1]
            BY <1>1, <1>4, <2>2, <3>1
        <3>3. new[q[k - 1]] = nx[q[k]]
            BY <1>0, <3>2
        <3>4. i # Len(r) => r[i + 1] = q[k + 1]
            <4> SUFFICES ASSUME i # Len(r) PROVE r[i + 1] = q[k + 1]
                OBVIOUS
            <4>1. i + 1 \in 1 .. Len(r) /\ i + 1 = k
                BY <1>1, <2>2
            <4> QED BY <1>2, <4>1
        <3> QED BY <1>4, <3>1, <3>3, <3>4
    <2>3. CASE i >= k
        <3>1. i + 1 \in 1 .. Len(q) /\ i + 1 # k /\ i + 1 # k - 1 /\ r[i] = q[i + 1] /\ (i = Len(r) <=> i + 1 = Len(q))
            BY <1>1, <1>2, <2>3
        <3>2. nx[q[i + 1]] = IF i + 1 = Len(q) THEN Null ELSE q[(i + 1) + 1]
            BY <3>1 DEF Hangs
        <3>3. new[q[i + 1]] = nx[q[i + 1]]
            BY <1>0, <1>1, <1>4, <3>1
        <3>4. i # Len(r) => r[i + 1] = q[(i + 1) + 1]
            <4> SUFFICES ASSUME i # Len(r) PROVE r[i + 1] = q[(i + 1) + 1]
                OBVIOUS
            <4>1. i + 1 \in 1 .. Len(r) /\ i + 1 >= k
                BY <1>1, <2>3
            <4> QED BY <1>2, <4>1
        <3> QED BY <3>1, <3>2, <3>3, <3>4
    <2> QED BY <1>1, <2>1, <2>2, <2>3
<1>6. ASSUME NEW i \in 1 .. Len(r)
      PROVE  old[r[i]] = IF i = 1 THEN Null ELSE r[i - 1]
    <2>1. CASE i < k
        <3>1. i \in 1 .. Len(q) /\ i # k /\ i # k + 1 /\ r[i] = q[i]
            BY <1>1, <1>2, <2>1
        <3>2. old[q[i]] = pv[q[i]]
            BY <1>0, <1>1, <1>4, <3>1
        <3>3. pv[q[i]] = IF i = 1 THEN Null ELSE q[i - 1]
            BY <3>1 DEF Back
        <3>4. i # 1 => r[i - 1] = q[i - 1]
            <4> SUFFICES ASSUME i # 1 PROVE r[i - 1] = q[i - 1]
                OBVIOUS
            <4>1. i - 1 \in 1 .. Len(r) /\ i - 1 < k
                BY <1>1, <2>1
            <4> QED BY <1>2, <4>1
        <3> QED BY <3>1, <3>2, <3>3, <3>4
    <2>2. CASE i = k
        <3>1. k + 1 \in 1 .. Len(q) /\ k # Len(q) /\ r[i] = q[k + 1]
            BY <1>1, <1>2, <2>2
        <3>2. q[k + 1] \in Task /\ q[k + 1] # q[k] /\ nx[q[k]] = q[k + 1]
            BY <1>1, <1>4, <3>1
        <3>3. old[q[k + 1]] = pv[q[k]]
            BY <1>0, <3>2
        <3>4. i # 1 => r[i - 1] = q[k - 1]
            <4> SUFFICES ASSUME i # 1 PROVE r[i - 1] = q[k - 1]
                OBVIOUS
            <4>1. i - 1 \in 1 .. Len(r) /\ i - 1 < k /\ i - 1 = k - 1
                BY <1>1, <2>2
            <4> QED BY <1>2, <4>1
        <3> QED BY <1>4, <2>2, <3>1, <3>3, <3>4
    <2>3. CASE i > k
        <3>1. i + 1 \in 1 .. Len(q) /\ i + 1 # k /\ i + 1 # k + 1 /\ i # 1 /\ i + 1 # 1 /\ r[i] = q[i + 1]
            BY <1>1, <1>2, <2>3
        <3>2. pv[q[i + 1]] = q[(i + 1) - 1]
            BY <3>1 DEF Back
        <3>3. old[q[i + 1]] = pv[q[i + 1]]
            BY <1>0, <1>1, <1>4, <3>1
        <3>4. i - 1 \in 1 .. Len(r) /\ i - 1 >= k
            BY <1>1, <2>3
        <3>5. r[i - 1] = q[(i + 1) - 1]
            <4>1. r[i - 1] = q[(i - 1) + 1] /\ (i - 1) + 1 = (i + 1) - 1
                BY <1>2, <3>4
            <4> QED BY <4>1
        <3> QED BY <3>1, <3>2, <3>3, <3>5
    <2> QED BY <1>1, <2>1, <2>2, <2>3
<1>7. IF r = <<>> THEN (IF pv[q[k]] = Null THEN nx[q[k]] ELSE head) = Null
                  ELSE (IF pv[q[k]] = Null THEN nx[q[k]] ELSE head) = r[1]
    <2>1. q # <<>> /\ head = q[1]
        BY <1>1, EmptySeq DEF Hangs
    <2>2. pv[q[k]] = Null <=> k = 1
        BY <1>1, <1>4
    <2>3. CASE k = 1
        <3>1. r = <<>> <=> Len(q) = 1
            BY <1>1, EmptySeq
        <3>2. r # <<>> => 1 \in 1 .. Len(r) /\ 1 >= k
            BY <1>1, <2>3, EmptySeq
        <3>3. r # <<>> => r[1] = q[1 + 1]
            BY <1>2, <3>2
        <3> QED BY <1>4, <2>2, <2>3, <3>1, <3>3
    <2>4. CASE k # 1
        <3>1. 1 \in 1 .. Len(r) /\ 1 < k
            BY <1>1, <2>4
        <3>2. r # <<>> /\ r[1] = q[1]
            BY <1>2, <3>1, EmptySeq
        <3> QED BY <2>1, <2>2, <2>4, <3>2
    <2> QED BY <2>3, <2>4
<1> QED BY <1>3, <1>5, <1>6, <1>7 DEF Hangs, Back

\* Parts: the list is cut behind its first n tasks.
LEMMA PartsLinks ==
    ASSUME NEW q \in Seq(Task), Distinct(q), NEW a \in Seq(Task), NEW b \in Seq(Task),
           NEW n \in 1 .. Len(q), Parts(q, n, a, b),
           NEW head, NEW nx, NEW pv, Hangs(nx, head, q), Back(pv, q),
           NEW new, Unlinked(new, nx, q[n]), NEW old, Unlinked(old, pv, nx[q[n]])
    PROVE  /\ Distinct(a) /\ Distinct(b) /\ Hangs(new, head, a)
           /\ Hangs(new, nx[q[n]], b) /\ Back(old, b)
<1>0. /\ \A u \in Task : new[u] = IF u = q[n] THEN Null ELSE nx[u]
      /\ \A u \in Task : old[u] = IF u = nx[q[n]] THEN Null ELSE pv[u]
    BY DEF Unlinked
<1>1. /\ Len(q) \in Nat /\ Len(a) = n /\ Len(b) = Len(q) - n
      /\ \A i \in 1 .. Len(q) : q[i] \in Task /\ q[i] # Null
      /\ \A i \in 1 .. Len(q), j \in 1 .. Len(q) : q[i] = q[j] => i = j
    BY LenProperties, ElementOfSeq, NoTask DEF Parts, Distinct
<1>2. \A i \in 1 .. Len(a) : a[i] = q[i] /\ i \in 1 .. Len(q)
    BY <1>1 DEF Parts
<1>3. \A i \in 1 .. Len(b) : b[i] = q[n + i] /\ n + i \in 1 .. Len(q)
    BY <1>1 DEF Parts
<1>4. Distinct(a)
    BY <1>1, <1>2 DEF Distinct
<1>5. Distinct(b)
    <2> SUFFICES ASSUME NEW i \in 1 .. Len(b), NEW j \in 1 .. Len(b), b[i] = b[j] PROVE i = j
        BY DEF Distinct
    <2>1. n + i \in 1 .. Len(q) /\ n + j \in 1 .. Len(q) /\ q[n + i] = q[n + j]
        BY <1>3
    <2>2. n + i = n + j
        BY <2>1 DEF Distinct
    <2>3. i \in Int /\ j \in Int
        BY <1>1
    <2> QED BY <2>2, <2>3
<1>6. nx[q[n]] = IF n = Len(q) THEN Null ELSE q[n + 1]
    BY DEF Hangs
<1>7. ASSUME NEW i \in 1 .. Len(a)
      PROVE  new[a[i]] = IF i = Len(a) THEN Null ELSE a[i + 1]
    <2>1. CASE i = n
        BY <1>0, <1>1, <1>2, <2>1
    <2>2. CASE i # n
        <3>1. q[i] # q[n] /\ q[i] \in Task /\ i # Len(q) /\ i # Len(a) /\ i + 1 \in 1 .. Len(a)
            BY <1>1, <1>2, <2>2
        <3>2. nx[q[i]] = q[i + 1]
            BY <1>2, <3>1 DEF Hangs
        <3>3. new[q[i]] = nx[q[i]]
            BY <1>0, <3>1
        <3> QED BY <1>2, <3>1, <3>2, <3>3
    <2> QED BY <2>1, <2>2
<1>8. ASSUME NEW i \in 1 .. Len(b)
      PROVE  /\ new[b[i]] = IF i = Len(b) THEN Null ELSE b[i + 1]
             /\ old[b[i]] = IF i = 1 THEN Null ELSE b[i - 1]
    <2>1. b[i] = q[n + i] /\ n + i \in 1 .. Len(q) /\ n + i # n /\ n + i # 1
        BY <1>1, <1>3
    <2>2. q[n + i] \in Task /\ q[n + i] # q[n]
        BY <1>1, <2>1
    <2>3. new[q[n + i]] = nx[q[n + i]]
        BY <1>0, <2>2
    <2>4. nx[q[n + i]] = IF n + i = Len(q) THEN Null ELSE q[(n + i) + 1]
        BY <2>1 DEF Hangs
    <2>5. i = Len(b) <=> n + i = Len(q)
        BY <1>1
    <2>6. i # Len(b) => b[i + 1] = q[(n + i) + 1]
        <3> SUFFICES ASSUME i # Len(b) PROVE b[i + 1] = q[(n + i) + 1]
            OBVIOUS
        <3>1. i + 1 \in 1 .. Len(b) /\ n + (i + 1) = (n + i) + 1
            <4>1. Len(b) \in Nat
                BY LenProperties
            <4> QED BY <4>1
        <3> QED BY <1>3, <3>1
    <2>7. pv[q[n + i]] = q[(n + i) - 1]
        BY <2>1 DEF Back
    <2>8. CASE i = 1
        <3>1. n # Len(q) /\ n + i = n + 1
            BY <1>1, <2>1, <2>8
        <3>2. q[n + i] = nx[q[n]]
            BY <1>6, <3>1
        <3>3. old[q[n + i]] = Null
            BY <1>0, <2>2, <3>2
        <3> QED BY <2>1, <2>3, <2>4, <2>5, <2>6, <2>8, <3>3
    <2>9. CASE i # 1
        <3>1. nx[q[n]] # q[n + i]
            <4>1. n # Len(q) => n + 1 \in 1 .. Len(q) /\ n + 1 # n + i
                BY <1>1, <2>9
            <4>2. n # Len(q) => q[n + 1] # q[n + i]
                BY <1>1, <2>1, <4>1
            <4> QED BY <1>1, <1>6, <2>1, <4>2
        <3>2. old[q[n + i]] = q[(n + i) - 1]
            BY <1>0, <2>2, <2>7, <3>1
        <3>3. i - 1 \in 1 .. Len(b) /\ n + (i - 1) = (n + i) - 1
            BY <1>1, <2>9
        <3>4. b[i - 1] = q[(n + i) - 1]
            BY <1>3, <3>3
        <3> QED BY <2>1, <2>3, <2>4, <2>5, <2>6, <2>9, <3>2, <3>4
    <2> QED BY <2>8, <2>9
<1>9. a # <<>> /\ head = a[1]
    <2>1. q # <<>> /\ head = q[1]
        BY <1>1, EmptySeq DEF Hangs
    <2>2. 1 \in 1 .. Len(a)
        BY <1>1
    <2> QED BY <1>2, <2>1, <2>2, EmptySeq
<1>10. IF b = <<>> THEN nx[q[n]] = Null ELSE nx[q[n]] = b[1]
    <2>1. b = <<>> <=> n = Len(q)
        BY <1>1, EmptySeq
    <2>2. n # Len(q) => 1 \in 1 .. Len(b)
        BY <1>1
    <2> QED BY <1>3, <1>6, <2>1, <2>2
<1> QED BY <1>4, <1>5, <1>7, <1>8, <1>9, <1>10 DEF Hangs, Back

\* The order of the integers.
LEMMA IntOrder ==
    /\ \A x, y \in Int : ~ (x <= y) => y < x
    /\ \A x, y, z \in Int : x <= y /\ y < z => x <= z
    /\ \A x, y \in Int : x < y => x <= y
OBVIOUS

\* The order is kept: a task goes behind those due no later.
LEMMA PutInOrder ==
    ASSUME NEW q \in Seq(Task), NEW r \in Seq(Task), NEW n \in 0 .. Len(q), NEW t \in Task,
           Put(q, n, t, r), NEW d \in [Task -> Int], NEW e \in [Task -> Int], InOrder(q, d),
           Front(q, n, d, e[t]), \A i \in 1 .. Len(q) : e[q[i]] = d[q[i]]
    PROVE  InOrder(r, e)
<1>1. /\ Len(q) \in Nat /\ Len(r) = Len(q) + 1 /\ e[t] \in Int
      /\ \A i \in 1 .. Len(q) : q[i] \in Task /\ d[q[i]] \in Int
    BY LenProperties, ElementOfSeq DEF Put
<1> SUFFICES ASSUME NEW i \in 1 .. Len(r), NEW j \in 1 .. Len(r), i < j
             PROVE  e[r[i]] <= e[r[j]]
    BY DEF InOrder
<1>2. ASSUME NEW m \in 1 .. Len(r), m <= n
      PROVE  m \in 1 .. Len(q) /\ e[r[m]] = d[q[m]] /\ d[q[m]] <= e[t]
    BY <1>2 DEF Put, Front
<1>3. ASSUME NEW m \in 1 .. Len(r), m > n + 1
      PROVE  m - 1 \in 1 .. Len(q) /\ e[r[m]] = d[q[m - 1]] /\ e[t] < d[q[m - 1]]
    <2>1. m - 1 \in 1 .. Len(q) /\ r[m] = q[m - 1]
        BY <1>3 DEF Put
    <2>2. ~ (m - 1 <= n)
        BY <1>1, <1>3
    <2>3. ~ (d[q[m - 1]] <= e[t])
        BY <2>1, <2>2 DEF Front
    <2>4. d[q[m - 1]] \in Int /\ e[q[m - 1]] = d[q[m - 1]] /\ e[t] \in Int
        BY <1>1, <2>1
    <2>5. e[t] < d[q[m - 1]]
        BY <2>3, <2>4, IntOrder, Zenon
    <2> QED BY <2>1, <2>4, <2>5
<1>4. ASSUME NEW m \in 1 .. Len(r), m = n + 1 PROVE e[r[m]] = e[t]
    BY <1>4 DEF Put
<1>5. CASE j <= n
    <2>1. i <= n
        BY <1>1, <1>5
    <2> QED BY <1>2, <1>5, <2>1 DEF InOrder
<1>6. CASE j = n + 1
    <2>1. i <= n
        BY <1>1, <1>6
    <2> QED BY <1>2, <1>4, <1>6, <2>1
<1>7. CASE j > n + 1
    <2>1. CASE i <= n
        <3>1. /\ e[r[i]] = d[q[i]] /\ d[q[i]] <= e[t] /\ d[q[i]] \in Int
              /\ e[r[j]] = d[q[j - 1]] /\ e[t] < d[q[j - 1]] /\ d[q[j - 1]] \in Int
            <4>1. /\ i \in 1 .. Len(q) /\ e[r[i]] = d[q[i]] /\ d[q[i]] <= e[t]
                  /\ j - 1 \in 1 .. Len(q) /\ e[r[j]] = d[q[j - 1]] /\ e[t] < d[q[j - 1]]
                BY <1>2, <1>3, <1>7, <2>1
            <4>2. d[q[i]] \in Int /\ d[q[j - 1]] \in Int
                BY <1>1, <4>1
            <4> QED BY <4>1, <4>2
        <3>2. e[t] \in Int
            BY <1>1
        <3> QED BY <3>1, <3>2, IntOrder, Zenon
    <2>2. CASE i = n + 1
        <3>1. e[r[i]] = e[t] /\ e[r[j]] = d[q[j - 1]] /\ e[t] < d[q[j - 1]] /\ d[q[j - 1]] \in Int
            <4>1. /\ e[r[i]] = e[t]
                  /\ j - 1 \in 1 .. Len(q) /\ e[r[j]] = d[q[j - 1]] /\ e[t] < d[q[j - 1]]
                BY <1>3, <1>4, <1>7, <2>2
            <4>2. d[q[j - 1]] \in Int
                BY <1>1, <4>1
            <4> QED BY <4>1, <4>2
        <3>2. e[t] \in Int
            BY <1>1
        <3> QED BY <3>1, <3>2, IntOrder, Zenon
    <2>3. CASE i > n + 1
        <3>1. /\ i - 1 \in 1 .. Len(q) /\ e[r[i]] = d[q[i - 1]]
              /\ j - 1 \in 1 .. Len(q) /\ e[r[j]] = d[q[j - 1]] /\ i - 1 < j - 1
            <4>1. /\ i - 1 \in 1 .. Len(q) /\ e[r[i]] = d[q[i - 1]]
                  /\ j - 1 \in 1 .. Len(q) /\ e[r[j]] = d[q[j - 1]]
                BY <1>3, <1>7, <2>3
            <4>2. i - 1 < j - 1
                BY <1>1
            <4> QED BY <4>1, <4>2
        <3> QED BY <3>1 DEF InOrder
    <2>4. i <= n \/ i = n + 1 \/ i > n + 1
        BY <1>1
    <2> QED BY <2>1, <2>2, <2>3, <2>4
<1>8. j <= n \/ j = n + 1 \/ j > n + 1
    BY <1>1
<1> QED BY <1>5, <1>6, <1>7, <1>8

\* A task taken, the order of the others is kept.
LEMMA TookInOrder ==
    ASSUME NEW q \in Seq(Task), NEW r \in Seq(Task), NEW k \in 1 .. Len(q), Took(q, k, r),
           NEW d, InOrder(q, d)
    PROVE  InOrder(r, d)
<1>1. Len(q) \in Nat /\ Len(r) = Len(q) - 1
    BY LenProperties DEF Took
<1> SUFFICES ASSUME NEW i \in 1 .. Len(r), NEW j \in 1 .. Len(r), i < j
             PROVE  d[r[i]] <= d[r[j]]
    BY DEF InOrder
<1>2. \A m \in 1 .. Len(r) : m < k => m \in 1 .. Len(q) /\ r[m] = q[m]
    BY <1>1 DEF Took
<1>3. \A m \in 1 .. Len(r) : ~ (m < k) => m + 1 \in 1 .. Len(q) /\ r[m] = q[m + 1]
    BY <1>1 DEF Took
<1>4. CASE j < k
    <2>1. i < k
        BY <1>1, <1>4
    <2> QED BY <1>2, <1>4, <2>1 DEF InOrder
<1>5. CASE ~ (j < k) /\ i < k
    <2>1. i < j + 1 /\ i \in 1 .. Len(q) /\ j + 1 \in 1 .. Len(q) /\ r[i] = q[i] /\ r[j] = q[j + 1]
        BY <1>1, <1>2, <1>3, <1>5
    <2> QED BY <2>1 DEF InOrder
<1>6. CASE ~ (j < k) /\ ~ (i < k)
    <2>1. i + 1 < j + 1 /\ i + 1 \in 1 .. Len(q) /\ j + 1 \in 1 .. Len(q) /\ r[i] = q[i + 1] /\ r[j] = q[j + 1]
        BY <1>1, <1>3, <1>6
    <2> QED BY <2>1 DEF InOrder
<1> QED BY <1>4, <1>5, <1>6

\* Both parts are in order.
LEMMA PartsInOrder ==
    ASSUME NEW q \in Seq(Task), NEW a \in Seq(Task), NEW b \in Seq(Task),
           NEW n \in 0 .. Len(q), Parts(q, n, a, b), NEW d, InOrder(q, d)
    PROVE  InOrder(a, d) /\ InOrder(b, d)
<1>1. Len(q) \in Nat /\ Len(a) = n /\ Len(b) = Len(q) - n
    BY LenProperties DEF Parts
<1>2. \A i \in 1 .. Len(a) : i \in 1 .. Len(q) /\ a[i] = q[i]
    BY <1>1 DEF Parts
<1>3. \A j \in 1 .. Len(b) : n + j \in 1 .. Len(q) /\ b[j] = q[n + j]
    BY <1>1 DEF Parts
<1>4. InOrder(a, d)
    BY <1>2 DEF InOrder
<1>5. InOrder(b, d)
    <2> SUFFICES ASSUME NEW i \in 1 .. Len(b), NEW j \in 1 .. Len(b), i < j
                 PROVE  d[b[i]] <= d[b[j]]
        BY DEF InOrder
    <2>1. n + i < n + j
        BY <1>1
    <2> QED BY <1>3, <2>1 DEF InOrder
<1> QED BY <1>4, <1>5

-----------------------------------------------------------------------------
(* The inductive invariant.                                                *)

\* q is the pending list and c the batch: q reads the same along next and prev and
\* is in order, c hangs from active and reads the same along prev, but for its first
\* task, which may be linked back to one that was popped; the queued tasks are those
\* of the two.
Chained(link, c) == \A i \in 2 .. Len(c) : link[c[i]] = c[i - 1]
Queued(is, q, c) == \A t \in Task : is[t] = "queued" <=> t \in Promise!Tasks(q) \cup Promise!Tasks(c)
Shape(q, c, st, ac, nx, pv, tm, is) ==
    /\ q \in Seq(Task) /\ Distinct(q) /\ Hangs(nx, st, q) /\ Back(pv, q) /\ InOrder(q, tm)
    /\ c \in Seq(Task) /\ Distinct(c) /\ Hangs(nx, ac, c) /\ Chained(pv, c)
    /\ \A i \in 1 .. Len(q), j \in 1 .. Len(c) : q[i] # c[j]
    /\ Queued(is, q, c)

\* Deep pointers point into q, and if one is set those of longer delays are set too
\* and no less deep.
Pointed(q, ptrs, tm) ==
    /\ \A i \in Index : ptrs[i] # Null => \E k \in 1 .. Len(q) : ptrs[i] = q[k]
    /\ \A i, j \in Index : i < j /\ ptrs[i] # Null =>
                               ptrs[j] # Null /\ tm[ptrs[i]] <= tm[ptrs[j]]

\* A task that was not inserted is not linked.
Fresh == \A t \in Task : state[t] = "new" => next[t] = Null /\ prev[t] = Null

IInv ==
    /\ TypeOK /\ Fresh
    /\ Shape(ListFrom(start), ListFrom(active), start, active, next, prev, timeout, state)
    /\ Pointed(ListFrom(start), pointers, timeout)

\* A batch whose tasks keep their links.
LEMMA ChainKept ==
    ASSUME NEW c \in Seq(Task), NEW link, NEW new, Chained(link, c),
           \A i \in 1 .. Len(c) : new[c[i]] = link[c[i]]
    PROVE  Chained(new, c)
<1>1. \A i \in 2 .. Len(c) : i \in 1 .. Len(c)
    BY LenProperties
<1> QED BY <1>1 DEF Chained

\* What the steps need to know of the constants and the variables.
LEMMA Constants ==
    /\ Null \notin Task /\ Last \in Nat \ {0} /\ MaxTask \in Nat /\ MaxTime \in Nat
    /\ \A delay \in Requests : delay \in Int
    /\ \A i \in Index : Delays[i] \in Int
    /\ POINTER_NONE \notin Index
<1>1. Last \in Nat \ {0}
    BY DelaysAssumption, LenProperties DEF Last
<1>2. \A i \in Index : Delays[i] \in Int
    BY DelaysAssumption, ElementOfSeq DEF Index, Last
<1> QED BY <1>1, <1>2, NoTask, BoundsAssumption, RequestAssumption DEF Index, POINTER_NONE

\* A state whose lists are r and c is one that keeps the invariant.
LEMMA ShapeIs ==
    ASSUME NEW r, NEW c, TypeOK', Fresh', Pointed(r, pointers', timeout'),
           Shape(r, c, start', active', next', prev', timeout', state')
    PROVE  IInv' /\ ListFrom(start)' = r /\ ListFrom(active)' = c
<1>1. ListAlong(next', start') = r /\ ListAlong(next', active') = c
    BY ListIs DEF Shape
<1> QED BY <1>1 DEF IInv, ListFrom

\* The tasks in a list.
LEMMA TasksAre == \A q, t : t \in Promise!Tasks(q) <=> \E i \in 1 .. Len(q) : t = q[i]
BY DEF Promise!Tasks

\* findDelayIndex finds a class, as the last has no bound.
LEMMA DelayIndex ==
    ASSUME NEW delay \in Int
    PROVE  FindDelayIndex(delay) \in Index
<1> DEFINE P(i) == (i = Last \/ delay <= Delays[i]) /\ \A j \in 1 .. i - 1 : Delays[j] < delay
           T == {i \in Nat : i \in Index /\ (i = Last \/ delay <= Delays[i])}
<1>1. Last \in T /\ T \subseteq Nat
    BY Constants DEF Index
<1>2. PICK m \in T : \A k \in T : m <= k
    BY <1>1, Least
<1>3. ASSUME NEW j \in 1 .. m - 1 PROVE Delays[j] < delay
    <2>1. j \in Index /\ j \in Nat /\ ~ (m <= j)
        BY <1>2, Constants DEF Index
    <2>2. j \notin T
        BY <1>2, <2>1
    <2>3. Delays[j] \in Int /\ ~ (delay <= Delays[j])
        BY <2>1, <2>2, Constants
    <2> QED BY <2>3
<1>4. m \in Index /\ P(m)
    BY <1>2, <1>3
<1>5. FindDelayIndex(delay) = CHOOSE i \in Index : P(i)
    BY DEF FindDelayIndex
<1> HIDE DEF P
<1> QED BY <1>4, <1>5

\* An insertion starts to look in the list, unless that is empty.
LEMMA SearchIs ==
    ASSUME NEW q \in Seq(Task), Hangs(next, start, q), Pointed(q, pointers, timeout), NEW i \in Index
    PROVE  IF q = <<>> THEN SearchFrom(i) = Null
                       ELSE \E k \in 1 .. Len(q) : SearchFrom(i) = q[k]
<1> DEFINE T == {j \in 1 .. i - 1 : pointers[j] # Null}
<1>1. Len(q) \in Nat /\ i \in Nat /\ \A j \in 1 .. i - 1 : j \in Index
    BY LenProperties, Constants DEF Index
<1>2. CASE T = {}
    <2>1. SearchFrom(i) = start
        BY <1>2 DEF SearchFrom
    <2>2. q # <<>> => 1 \in 1 .. Len(q)
        BY <1>1, EmptySeq
    <2> QED BY <2>1, <2>2 DEF Hangs
<1>3. CASE T # {}
    <2> DEFINE D == {d \in Nat : i - d \in T}
    <2>1. D # {} /\ D \subseteq Nat
        <3>1. PICK j \in 1 .. i - 1 : j \in T
            BY <1>3
        <3>2. i - j \in Nat /\ i - (i - j) = j
            BY <1>1
        <3> QED BY <3>1, <3>2
    <2>2. PICK d \in D : \A e \in D : d <= e
        BY <2>1, Least
    <2>3. i - d \in T
        BY <2>2
    <2>4. ASSUME NEW k \in T PROVE k <= i - d
        <3>1. k \in 1 .. i - 1
            OBVIOUS
        <3>2. i - k \in Nat /\ i - (i - k) = k
            BY <1>1, <3>1
        <3>3. i - k \in D
            BY <3>2
        <3>4. d <= i - k
            BY <2>2, <3>3
        <3> QED BY <1>1, <3>1, <3>4
    <2>5. SearchFrom(i) = pointers[CHOOSE j \in T : \A k \in T : k <= j]
        BY <1>3 DEF SearchFrom
    <2>6. \E j \in T : SearchFrom(i) = pointers[j]
        <3> HIDE DEF T
        <3> QED BY <2>3, <2>4, <2>5
    <2>7. PICK j \in 1 .. i - 1 : pointers[j] # Null /\ SearchFrom(i) = pointers[j]
        BY <2>6
    <2>8. \E k \in 1 .. Len(q) : SearchFrom(i) = q[k]
        BY <1>1, <2>7 DEF Pointed
    <2> QED BY <1>1, <2>8
<1> QED BY <1>2, <1>3

\* insertTask, wherever it starts: t is linked behind the tasks due no later.
LEMMA InsertTaskIs ==
    ASSUME TypeOK, NEW q \in Seq(Task), Distinct(q), Hangs(next, start, q), Back(prev, q),
           NEW t \in Task, \A i \in 1 .. Len(q) : q[i] # t, NEW at \in Int,
           NEW n \in 0 .. Len(q), Front(q, n, timeout, at),
           NEW k \in 1 .. Len(q), InsertTask(q[k], t, at)
    PROVE  /\ next' = [u \in Task |-> IF u = t THEN After(q, n)
                                     ELSE IF u = Before(q, n) THEN t ELSE next[u]]
           /\ prev' = [u \in Task |-> IF u = t THEN Before(q, n)
                                     ELSE IF u = After(q, n) THEN t ELSE prev[u]]
           /\ start' = IF n = 0 THEN t ELSE start
<1>1. /\ Len(q) \in Nat /\ timeout \in [Task -> Int]
      /\ \A i \in 1 .. Len(q) : q[i] \in Task /\ q[i] # Null
    BY LenProperties, ElementOfSeq, NoTask DEF TypeOK
<1>2. timeout[q[k]] \in Int /\ (timeout[q[k]] <= at <=> k <= n)
    BY <1>1 DEF Front
<1>3. CASE at >= timeout[q[k]]
    <2>1. k <= n /\ n \in 1 .. Len(q) /\ n # 0
        BY <1>1, <1>2, <1>3
    <2>2. LastDueBy(q[k], at) = q[n]
        BY <2>1, WalkOn
    <2>3. next[q[n]] = After(q, n) /\ Before(q, n) = q[n] /\ q[n] # t
        BY <2>1 DEF Hangs, After, Before
    <2>4. InsertBehind(q[k], t, at)
        BY <1>3 DEF InsertTask
    <2>5. /\ next' = [u \in Task |-> IF u = q[n] THEN t ELSE IF u = t THEN After(q, n) ELSE next[u]]
          /\ prev' = [u \in Task |-> IF u = t THEN q[n] ELSE IF u = After(q, n) THEN t ELSE prev[u]]
          /\ start' = start
        BY <2>2, <2>3, <2>4, Zenon DEF InsertBehind
    <2> QED BY <2>1, <2>3, <2>5
<1>4. CASE ~ (at >= timeout[q[k]])
    <2>1. k > n /\ n + 1 \in 1 .. Len(q) /\ n # Len(q) /\ (n + 1) - 1 = n /\ (n + 1 = 1 <=> n = 0)
        BY <1>1, <1>2, <1>4
    <2>2. FirstDueAfter(q[k], at) = q[n + 1]
        BY <1>1, <2>1, WalkBack
    <2>3. prev[q[n + 1]] = Before(q, n) /\ After(q, n) = q[n + 1] /\ q[n + 1] # t
        BY <2>1 DEF Back, After, Before
    <2>4. InsertInFront(q[k], t, at)
        BY <1>4 DEF InsertTask
    <2>5. /\ prev' = [u \in Task |-> IF u = q[n + 1] THEN t ELSE IF u = t THEN Before(q, n) ELSE prev[u]]
          /\ next' = [u \in Task |-> IF u = t THEN q[n + 1] ELSE IF u = Before(q, n) THEN t ELSE next[u]]
          /\ start' = IF Before(q, n) = Null THEN t ELSE start
        BY <2>2, <2>3, <2>4, Zenon DEF InsertInFront
    <2>6. Before(q, n) = Null <=> n = 0
        BY <1>1 DEF Before
    <2> QED BY <2>3, <2>5, <2>6
<1> QED BY <1>3, <1>4

\* Times of the tasks that deep pointers name, when t gets a time of its own.
LEMMA PointersKeep ==
    ASSUME TypeOK, NEW q \in Seq(Task), NEW t \in Task, \A i \in 1 .. Len(q) : q[i] # t,
           Pointed(q, pointers, timeout), NEW at \in Int, NEW tm, tm = [timeout EXCEPT ![t] = at]
    PROVE  /\ tm \in [Task -> Int] /\ tm[t] = at
           /\ \A i \in 1 .. Len(q) : tm[q[i]] = timeout[q[i]]
           /\ \A j \in Index : pointers[j] # Null =>
                  /\ tm[pointers[j]] = timeout[pointers[j]]
                  /\ timeout[pointers[j]] \in Int
<1>1. timeout \in [Task -> Int] /\ \A i \in 1 .. Len(q) : q[i] \in Task
    BY ElementOfSeq DEF TypeOK
<1>2. tm \in [Task -> Int] /\ tm[t] = at /\ \A u \in Task : u # t => tm[u] = timeout[u]
    BY <1>1
<1>3. ASSUME NEW j \in Index, pointers[j] # Null
      PROVE  tm[pointers[j]] = timeout[pointers[j]] /\ timeout[pointers[j]] \in Int
    <2>1. PICK k \in 1 .. Len(q) : pointers[j] = q[k]
        BY <1>3 DEF Pointed
    <2> QED BY <1>1, <1>2, <2>1
<1> QED BY <1>1, <1>2, <1>3

\* The deep pointers of an insertion that sets none.
LEMMA PointersStay ==
    ASSUME TypeOK, NEW q \in Seq(Task), NEW t \in Task, \A i \in 1 .. Len(q) : q[i] # t,
           Pointed(q, pointers, timeout), NEW at \in Int, NEW tm, tm = [timeout EXCEPT ![t] = at],
           NEW r, \A k \in 1 .. Len(q) : \E i \in 1 .. Len(r) : r[i] = q[k]
    PROVE  Pointed(r, pointers, tm)
<1>1. \A j \in Index : pointers[j] # Null => tm[pointers[j]] = timeout[pointers[j]]
    BY PointersKeep
<1>2. ASSUME NEW i \in Index, pointers[i] # Null PROVE \E k \in 1 .. Len(r) : pointers[i] = r[k]
    <2>1. PICK k \in 1 .. Len(q) : pointers[i] = q[k]
        BY <1>2 DEF Pointed
    <2> QED BY <2>1
<1>3. ASSUME NEW i \in Index, NEW j \in Index, i < j, pointers[i] # Null
      PROVE  pointers[j] # Null /\ tm[pointers[i]] <= tm[pointers[j]]
    BY <1>1, <1>3 DEF Pointed
<1> QED BY <1>2, <1>3 DEF Pointed

\* setPointer: no pointer of a shorter delay is deeper than t, as the pointer of the
\* class was not.
LEMMA PointersPut ==
    ASSUME TypeOK, NEW q \in Seq(Task), NEW t \in Task, \A i \in 1 .. Len(q) : q[i] # t,
           Pointed(q, pointers, timeout), NEW at \in Int, NEW tm, tm = [timeout EXCEPT ![t] = at],
           NEW r, \A k \in 1 .. Len(q) : \E i \in 1 .. Len(r) : r[i] = q[k],
           \E i \in 1 .. Len(r) : r[i] = t,
           NEW i \in Index, pointers[i] = Null \/ timeout[pointers[i]] <= at
    PROVE  Pointed(r, PointersAt(i, t, at), tm)
<1> DEFINE Stays(k) == pointers[k] # Null /\ timeout[pointers[k]] > at
           Takes(j) == j = i \/ (j > i /\ \A k \in i + 1 .. j : ~ Stays(k))
           ptrs == PointersAt(i, t, at)
<1>1. \A j \in Index : ptrs[j] = IF Takes(j) THEN t ELSE pointers[j]
    BY DEF PointersAt
<1>2. tm[t] = at /\ \A j \in Index : pointers[j] # Null =>
          tm[pointers[j]] = timeout[pointers[j]] /\ timeout[pointers[j]] \in Int
    BY PointersKeep
<1>3. t # Null /\ i \in Int /\ \A j \in Index : j \in Int /\ \A k \in i + 1 .. j : k \in Index
    BY Constants DEF Index
<1>4. \A j, l \in Index : j < l /\ pointers[j] # Null =>
          pointers[l] # Null /\ timeout[pointers[j]] <= timeout[pointers[l]]
    BY DEF Pointed
<1> HIDE DEF ptrs
<1>5. ASSUME NEW j \in Index, ptrs[j] # Null PROVE \E k \in 1 .. Len(r) : ptrs[j] = r[k]
    <2>1. CASE Takes(j)
        <3>1. ptrs[j] = t
            BY <1>1, <2>1
        <3> QED BY <3>1
    <2>2. CASE ~ Takes(j)
        <3>1. ptrs[j] = pointers[j]
            BY <1>1, <2>2
        <3>2. PICK k \in 1 .. Len(q) : pointers[j] = q[k]
            BY <1>5, <3>1 DEF Pointed
        <3> QED BY <3>1, <3>2
    <2> QED BY <2>1, <2>2
<1>6. ASSUME NEW j \in Index, NEW l \in Index, j < l, ptrs[j] # Null
      PROVE  ptrs[l] # Null /\ tm[ptrs[j]] <= tm[ptrs[l]]
    <2>1. CASE Takes(j) /\ Takes(l)
        <3>1. ptrs[j] = t /\ ptrs[l] = t
            BY <1>1, <2>1
        <3> QED BY <1>2, <1>3, <3>1
    <2>2. CASE Takes(j) /\ ~ Takes(l)
        <3>1. ptrs[j] = t /\ ptrs[l] = pointers[l] /\ l > i
            <4>1. l > i
                BY <1>3, <1>6, <2>2
            <4> QED BY <1>1, <2>2, <4>1
        <3>2. PICK k \in i + 1 .. l : Stays(k)
            BY <2>2, <3>1
        <3>3. k \in Index /\ (k < l \/ k = l)
            BY <1>3
        <3>4. pointers[k] # Null /\ timeout[pointers[k]] > at /\ timeout[pointers[k]] \in Int
            BY <1>2, <3>2, <3>3
        <3>5. pointers[l] # Null /\ timeout[pointers[k]] <= timeout[pointers[l]]
            BY <1>4, <3>3, <3>4
        <3>6. timeout[pointers[l]] \in Int /\ tm[pointers[l]] = timeout[pointers[l]]
            BY <1>2, <3>5
        <3>7. at <= timeout[pointers[l]]
            BY <3>4, <3>5, <3>6
        <3> QED BY <1>2, <3>1, <3>5, <3>6, <3>7
    <2>3. CASE ~ Takes(j) /\ Takes(l)
        <3>1. ptrs[j] = pointers[j] /\ ptrs[l] = t
            BY <1>1, <2>3
        <3>2. j < i
            <4> SUFFICES ASSUME ~ (j < i) PROVE FALSE
                OBVIOUS
            <4>1. j > i /\ l > i /\ j \in Int /\ l \in Int /\ i \in Int
                BY <1>3, <1>6, <2>3
            <4>2. PICK k \in i + 1 .. j : Stays(k)
                BY <2>3, <4>1
            <4>3. k \in i + 1 .. l
                BY <1>6, <4>1
            <4>4. \A m \in i + 1 .. l : ~ Stays(m)
                BY <2>3, <4>1
            <4> HIDE DEF Stays
            <4> QED BY <4>2, <4>3, <4>4
        <3>3. pointers[i] # Null /\ timeout[pointers[j]] <= timeout[pointers[i]]
            BY <1>4, <1>6, <3>1, <3>2
        <3>4. timeout[pointers[i]] <= at /\ timeout[pointers[i]] \in Int /\ timeout[pointers[j]] \in Int
            BY <1>2, <1>6, <3>1, <3>3
        <3>5. timeout[pointers[j]] <= at
            BY <3>3, <3>4
        <3> QED BY <1>2, <1>3, <1>6, <3>1, <3>5
    <2>4. CASE ~ Takes(j) /\ ~ Takes(l)
        <3>1. ptrs[j] = pointers[j] /\ ptrs[l] = pointers[l]
            BY <1>1, <2>4
        <3> HIDE DEF Takes
        <3> QED BY <1>2, <1>4, <1>6, <3>1
    <2> QED BY <2>1, <2>2, <2>3, <2>4
<1> HIDE DEF Takes
<1>7. Pointed(r, ptrs, tm)
    BY <1>5, <1>6 DEF Pointed
<1> QED BY <1>7 DEF ptrs

-----------------------------------------------------------------------------
(* The steps.                                                              *)

\* What the invariant says of the two lists.
LEMMA Known ==
    ASSUME IInv, NEW q, q = ListFrom(start), NEW c, c = ListFrom(active)
    PROVE  /\ TypeOK /\ Fresh /\ Pointed(q, pointers, timeout)
           /\ Shape(q, c, start, active, next, prev, timeout, state)
           /\ q \in Seq(Task) /\ c \in Seq(Task)
           /\ Len(q) \in Nat /\ \A i \in 1 .. Len(q) : q[i] \in Task /\ timeout[q[i]] \in Int
           /\ Len(c) \in Nat /\ \A i \in 1 .. Len(c) : c[i] \in Task
           /\ Distinct(q) /\ Hangs(next, start, q) /\ Back(prev, q) /\ InOrder(q, timeout)
           /\ Distinct(c) /\ Hangs(next, active, c) /\ Chained(prev, c)
           /\ \A i \in 1 .. Len(q), j \in 1 .. Len(c) : q[i] # c[j]
           /\ \A i \in 1 .. Len(q) : state[q[i]] = "queued"
           /\ \A i \in 1 .. Len(c) : state[c[i]] = "queued"
<1>1. TypeOK /\ Fresh /\ Pointed(q, pointers, timeout) /\ Shape(q, c, start, active, next, prev, timeout, state)
    BY DEF IInv
<1>2. /\ q \in Seq(Task) /\ Distinct(q) /\ Hangs(next, start, q) /\ Back(prev, q) /\ InOrder(q, timeout)
      /\ c \in Seq(Task) /\ Distinct(c) /\ Hangs(next, active, c) /\ Chained(prev, c)
      /\ \A i \in 1 .. Len(q), j \in 1 .. Len(c) : q[i] # c[j]
      /\ \A t \in Task : state[t] = "queued" <=> t \in Promise!Tasks(q) \cup Promise!Tasks(c)
    BY <1>1 DEF Shape, Queued
<1>3. /\ Len(q) \in Nat /\ \A i \in 1 .. Len(q) : q[i] \in Task
      /\ Len(c) \in Nat /\ \A i \in 1 .. Len(c) : c[i] \in Task
    BY <1>2, LenProperties, ElementOfSeq
<1>4. \A i \in 1 .. Len(q) : timeout[q[i]] \in Int
    BY <1>1, <1>3 DEF TypeOK
<1>5. ASSUME NEW i \in 1 .. Len(q) PROVE state[q[i]] = "queued"
    BY <1>2, <1>3, TasksAre
<1>6. ASSUME NEW i \in 1 .. Len(c) PROVE state[c[i]] = "queued"
    BY <1>2, <1>3, TasksAre
<1> QED BY <1>1, <1>2, <1>3, <1>4, <1>5, <1>6

\* insert leaves pointers that still fit the list with the task in it.
LEMMA InsertPointers ==
    ASSUME IInv, NEW q, q = ListFrom(start), NEW t \in Task, NEW delay \in Requests, Insert(t, delay),
           \A i \in 1 .. Len(q) : q[i] # t, NEW n \in 0 .. Len(q), NEW r \in Seq(Task), Put(q, n, t, r)
    PROVE  /\ Pointed(r, pointers', timeout')
           /\ pointers' \in [Index -> Task \cup {Null}] /\ pointer' \in [Task -> Index \cup {POINTER_NONE}]
<1> DEFINE at == clock + delay
           i == FindDelayIndex(delay)
<1>1. TypeOK /\ q \in Seq(Task) /\ Pointed(q, pointers, timeout)
    BY Known
<1>0. /\ \A k \in 1 .. Len(q) : \E m \in 1 .. Len(r) : r[m] = q[k]
      /\ \E m \in 1 .. Len(r) : r[m] = t
    <2>1. q \in Seq(Task) /\ n + 1 \in 1 .. Len(r) /\ r[n + 1] = t
        BY <1>1, PutTasks
    <2>2. \A k \in 1 .. Len(q) : \E m \in 1 .. Len(r) : r[m] = q[k]
        BY <2>1, PutTasks
    <2> QED BY <2>1, <2>2
<1>2. at \in Int /\ i \in Index /\ timeout' = [timeout EXCEPT ![t] = at]
    <2>1. delay \in Int /\ clock \in Int
        BY <1>1, Constants DEF TypeOK
    <2> QED BY <2>1, DelayIndex DEF Insert
<1>3. IF pointers[i] = Null THEN SetPointer(i, t, at)
      ELSE IF at >= timeout[pointers[i]] THEN SetPointer(i, t, at) ELSE UNCHANGED <<pointers, pointer>>
    BY DEF Insert
<1> HIDE DEF at, i
<1>4. CASE SetPointer(i, t, at) /\ (pointers[i] = Null \/ timeout[pointers[i]] <= at)
    <2>1. pointers' = PointersAt(i, t, at) /\ pointer' = [pointer EXCEPT ![t] = i]
        BY <1>4 DEF SetPointer
    <2>2. Pointed(r, PointersAt(i, t, at), timeout')
        BY <1>0, <1>1, <1>2, <1>4, PointersPut
    <2>3. PointersAt(i, t, at) \in [Index -> Task \cup {Null}]
        <3>1. \A j \in Index : pointers[j] \in Task \cup {Null}
            BY <1>1 DEF TypeOK
        <3> QED BY <3>1 DEF PointersAt
    <2> QED BY <1>1, <1>2, <2>1, <2>2, <2>3 DEF TypeOK
<1>5. CASE UNCHANGED <<pointers, pointer>>
    <2>1. Pointed(r, pointers, timeout')
        BY <1>0, <1>1, <1>2, PointersStay
    <2> QED BY <1>1, <1>5, <2>1 DEF TypeOK
<1>6. pointers[i] # Null => timeout[pointers[i]] \in Int
    BY <1>1, <1>2 DEF TypeOK
<1> QED BY <1>2, <1>3, <1>4, <1>5, <1>6

\* insert links the task behind those due no later, whatever the pointers say.
LEMMA InsertLinks ==
    ASSUME IInv, NEW q, q = ListFrom(start), NEW t \in Task, NEW delay \in Requests, Insert(t, delay),
           \A i \in 1 .. Len(q) : q[i] # t,
           NEW n \in 0 .. Len(q), Front(q, n, timeout, clock + delay)
    PROVE  /\ next' = [u \in Task |-> IF u = t THEN After(q, n)
                                     ELSE IF u = Before(q, n) THEN t ELSE next[u]]
           /\ prev' = [u \in Task |-> IF u = t THEN Before(q, n)
                                     ELSE IF u = After(q, n) THEN t ELSE prev[u]]
           /\ start' = IF n = 0 THEN t ELSE start
<1> DEFINE at == clock + delay
           i == FindDelayIndex(delay)
<1>1. /\ TypeOK /\ Fresh /\ q \in Seq(Task) /\ Distinct(q) /\ Hangs(next, start, q) /\ Back(prev, q)
      /\ Pointed(q, pointers, timeout) /\ Len(q) \in Nat /\ \A k \in 1 .. Len(q) : q[k] \in Task
    BY Known
<1>2. at \in Int /\ i \in Index
    <2>1. delay \in Int /\ clock \in Int
        BY <1>1, Constants DEF TypeOK
    <2> QED BY <2>1, DelayIndex
<1>3. IF pointers[i] = Null
      THEN IF SearchFrom(i) = Null THEN start' = t /\ UNCHANGED links ELSE InsertTask(SearchFrom(i), t, at)
      ELSE InsertTask(pointers[i], t, at)
    BY DEF Insert
<1>4. state[t] = "new"
    BY DEF Insert
<1>5. Front(q, n, timeout, at)
    OBVIOUS
<1> HIDE DEF at, i
<1>6. ASSUME NEW k \in 1 .. Len(q), InsertTask(q[k], t, at)
      PROVE  /\ next' = [u \in Task |-> IF u = t THEN After(q, n)
                                       ELSE IF u = Before(q, n) THEN t ELSE next[u]]
             /\ prev' = [u \in Task |-> IF u = t THEN Before(q, n)
                                       ELSE IF u = After(q, n) THEN t ELSE prev[u]]
             /\ start' = IF n = 0 THEN t ELSE start
    BY <1>1, <1>2, <1>5, <1>6, InsertTaskIs
<1>7. CASE pointers[i] = Null /\ SearchFrom(i) = Null
    <2>1. q = <<>>
        <3> SUFFICES ASSUME q # <<>> PROVE FALSE
            OBVIOUS
        <3>1. PICK k \in 1 .. Len(q) : SearchFrom(i) = q[k]
            BY <1>1, <1>2, SearchIs
        <3> QED BY <1>1, <1>7, <3>1, Constants
    <2>2. n = 0 /\ Len(q) = 0
        BY <1>1, <2>1, EmptySeq
    <2>3. After(q, n) = Null /\ Before(q, n) = Null
        BY <2>2 DEF After, Before
    <2>4. start' = t /\ next' = next /\ prev' = prev
        BY <1>3, <1>7 DEF links
    <2>5. next[t] = Null /\ prev[t] = Null /\ next \in Links /\ prev \in Links
        BY <1>1, <1>4 DEF Fresh, TypeOK, Links
    <2>6. Null \notin Task
        BY Constants
    <2>7. next = [u \in Task |-> IF u = t THEN Null ELSE IF u = Null THEN t ELSE next[u]]
        BY <2>5, <2>6 DEF Links
    <2>8. prev = [u \in Task |-> IF u = t THEN Null ELSE IF u = Null THEN t ELSE prev[u]]
        BY <2>5, <2>6 DEF Links
    <2> QED BY <2>2, <2>3, <2>4, <2>7, <2>8
<1>8. CASE pointers[i] = Null /\ SearchFrom(i) # Null
    <2>1. q # <<>>
        BY <1>1, <1>2, <1>8, SearchIs
    <2>2. PICK k \in 1 .. Len(q) : SearchFrom(i) = q[k]
        BY <1>1, <1>2, <2>1, SearchIs
    <2> QED BY <1>3, <1>6, <1>8, <2>2
<1>9. CASE pointers[i] # Null
    <2>1. PICK k \in 1 .. Len(q) : pointers[i] = q[k]
        BY <1>1, <1>2, <1>9 DEF Pointed
    <2> QED BY <1>3, <1>6, <1>9, <2>1
<1> QED BY <1>7, <1>8, <1>9

\* A list none of whose tasks is t or next to t's place keeps its links.
LEMMA Elsewhere ==
    ASSUME IInv, NEW q, q = ListFrom(start), NEW c, c = ListFrom(active),
           NEW t, \A i \in 1 .. Len(c) : c[i] # t, NEW n \in 0 .. Len(q),
           NEW new, Joined(new, next, t, Before(q, n), After(q, n))
    PROVE  Hangs(new, active, c)
<1>1. /\ \A i \in 1 .. Len(c) : c[i] \in Task /\ c[i] # Null
      /\ \A i \in 1 .. Len(q), j \in 1 .. Len(c) : q[i] # c[j]
      /\ Hangs(next, active, c) /\ Len(q) \in Nat
    BY Known, Constants
<1>2. ASSUME NEW i \in 1 .. Len(c) PROVE new[c[i]] = next[c[i]]
    <2>1. c[i] # Before(q, n)
        <3>1. n = 0 \/ n \in 1 .. Len(q)
            BY <1>1
        <3> QED BY <1>1, <3>1 DEF Before
    <2> QED BY <1>1, <2>1 DEF Joined
<1> QED BY <1>1, <1>2, SameLinks

\* The queued tasks are those of the lists, one more.
LEMMA OneMore ==
    ASSUME NEW q \in Seq(Task), NEW r \in Seq(Task), NEW c, NEW t \in Task, NEW n \in 0 .. Len(q),
           Put(q, n, t, r), NEW is, NEW new, Queued(is, q, c),
           \A u \in Task : new[u] = IF u = t THEN "queued" ELSE is[u]
    PROVE  Queued(new, r, c)
<1>1. /\ \A i \in 1 .. Len(r) : r[i] = t \/ \E k \in 1 .. Len(q) : r[i] = q[k]
      /\ \A k \in 1 .. Len(q) : \E i \in 1 .. Len(r) : r[i] = q[k]
      /\ n + 1 \in 1 .. Len(r) /\ r[n + 1] = t
    BY PutTasks
<1>2. ASSUME NEW u, u \in Promise!Tasks(r) PROVE u = t \/ u \in Promise!Tasks(q)
    <2>1. PICK i \in 1 .. Len(r) : u = r[i]
        BY <1>2, TasksAre
    <2>2. r[i] = t \/ \E k \in 1 .. Len(q) : r[i] = q[k]
        BY <1>1
    <2> QED BY <2>1, <2>2, TasksAre
<1>3. t \in Promise!Tasks(r)
    BY <1>1, TasksAre
<1>4. ASSUME NEW u, u \in Promise!Tasks(q) PROVE u \in Promise!Tasks(r)
    <2>1. PICK k \in 1 .. Len(q) : u = q[k]
        BY <1>4, TasksAre
    <2>2. \E i \in 1 .. Len(r) : r[i] = q[k]
        BY <1>1
    <2> QED BY <2>1, <2>2, TasksAre
<1> QED BY <1>2, <1>3, <1>4 DEF Queued

\* insert puts t behind the tasks due no later.
LEMMA InsertPuts ==
    ASSUME IInv, NEW t \in Task, NEW delay \in Requests, Insert(t, delay),
           NEW q, q = ListFrom(start), NEW c, c = ListFrom(active),
           NEW n \in 0 .. Len(q), Front(q, n, timeout, clock + delay),
           NEW r \in Seq(Task), Put(q, n, t, r)
    PROVE  IInv' /\ ListFrom(start)' = r /\ ListFrom(active)' = c /\ t \notin Promise!Tasks(q)
<1> DEFINE at == clock + delay
<1>1. /\ TypeOK /\ Fresh /\ q \in Seq(Task) /\ c \in Seq(Task) /\ Distinct(q) /\ Distinct(c)
      /\ Hangs(next, start, q) /\ Back(prev, q) /\ InOrder(q, timeout) /\ Len(q) \in Nat
      /\ \A i \in 1 .. Len(q) : q[i] \in Task /\ timeout[q[i]] \in Int /\ state[q[i]] = "queued"
      /\ \A i \in 1 .. Len(c) : state[c[i]] = "queued"
      /\ \A i \in 1 .. Len(q), j \in 1 .. Len(c) : q[i] # c[j]
      /\ Shape(q, c, start, active, next, prev, timeout, state)
    BY Known
<1>2. /\ at \in Int /\ state[t] = "new"
      /\ timeout' = [timeout EXCEPT ![t] = at] /\ state' = [state EXCEPT ![t] = "queued"]
      /\ active' = active /\ clock' = clock
    <2>1. delay \in Int /\ clock \in Int
        BY <1>1, Constants DEF TypeOK
    <2> QED BY <2>1 DEF Insert
<1>3. (\A i \in 1 .. Len(q) : q[i] # t) /\ (\A i \in 1 .. Len(c) : c[i] # t)
    BY <1>1, <1>2
<1>4. Front(q, n, timeout, at)
    OBVIOUS
<1>5. r \in Seq(Task) /\ Put(q, n, t, r)
    OBVIOUS
<1> HIDE DEF at
<1>6. \A i \in 1 .. Len(r) : r[i] = t \/ \E k \in 1 .. Len(q) : r[i] = q[k]
    <2>1. q \in Seq(Task)
        BY <1>1
    <2> QED BY <1>5, <2>1, PutTasks
<1>7. /\ next' = [u \in Task |-> IF u = t THEN After(q, n) ELSE IF u = Before(q, n) THEN t ELSE next[u]]
      /\ prev' = [u \in Task |-> IF u = t THEN Before(q, n) ELSE IF u = After(q, n) THEN t ELSE prev[u]]
      /\ start' = IF n = 0 THEN t ELSE start
    BY <1>3, <1>4, InsertLinks
<1>8. /\ Pointed(r, pointers', timeout') /\ pointers' \in [Index -> Task \cup {Null}]
      /\ pointer' \in [Task -> Index \cup {POINTER_NONE}]
    BY <1>3, InsertPointers
<1>9. Distinct(r) /\ Back(prev', r) /\ Hangs(next', start', r)
    <2>1. Joined(next', next, t, Before(q, n), After(q, n))
        BY <1>7 DEF Joined
    <2>2. Joined(prev', prev, t, After(q, n), Before(q, n))
        BY <1>7 DEF Joined
    <2>3. Distinct(r) /\ Back(prev', r) /\ Hangs(next', IF n = 0 THEN t ELSE start, r)
        <3>1. q \in Seq(Task) /\ Distinct(q) /\ Hangs(next, start, q) /\ Back(prev, q)
            BY <1>1
        <3>2. \A i \in 1 .. Len(q) : q[i] # t
            BY <1>3
        <3> QED BY <2>1, <2>2, <3>1, <3>2, PutLinks
    <2> QED BY <1>7, <2>3
<1>10. Hangs(next', active', c)
    <2>1. Joined(next', next, t, Before(q, n), After(q, n))
        BY <1>7 DEF Joined
    <2>2. \A i \in 1 .. Len(c) : c[i] # t
        BY <1>3
    <2>3. Hangs(next', active, c)
        BY <2>1, <2>2, Elsewhere
    <2> QED BY <1>2, <2>3
<1>11. /\ timeout' \in [Task -> Int] /\ timeout'[t] = at
       /\ \A u \in Task : u # t => timeout'[u] = timeout[u]
    BY <1>1, <1>2 DEF TypeOK
<1>12. InOrder(r, timeout')
    <2>1. timeout \in [Task -> Int] /\ \A i \in 1 .. Len(q) : timeout'[q[i]] = timeout[q[i]]
        BY <1>1, <1>3, <1>11 DEF TypeOK
    <2> QED BY <1>1, <1>4, <1>5, <1>11, <2>1, PutInOrder
<1>13. \A i \in 1 .. Len(r), j \in 1 .. Len(c) : r[i] # c[j]
    BY <1>1, <1>3, <1>6
<1>14. Queued(state', r, c)
    <2>1. \A u \in Task : state'[u] = IF u = t THEN "queued" ELSE state[u]
        BY <1>1, <1>2 DEF TypeOK
    <2>2. Queued(state, q, c)
        BY <1>1 DEF Shape
    <2> QED BY <1>1, <1>4, <1>5, <2>1, <2>2, OneMore
<1>15. After(q, n) \in {Null} \cup {q[i] : i \in 1 .. Len(q)} /\ Before(q, n) \in {Null} \cup {q[i] : i \in 1 .. Len(q)}
    <2>1. n = 0 \/ n \in 1 .. Len(q)
        BY <1>1, <1>4
    <2>2. n = Len(q) \/ n + 1 \in 1 .. Len(q)
        BY <1>1, <1>4
    <2> QED BY <2>1, <2>2 DEF After, Before
<1>16. Chained(prev', c)
    <2>1. \A i \in 1 .. Len(c) : c[i] \in Task /\ c[i] # Null
        BY Known, Constants
    <2>2. \A i \in 1 .. Len(c) : c[i] # t /\ c[i] # After(q, n)
        BY <1>1, <1>3, <1>15, <2>1
    <2>3. \A i \in 1 .. Len(c) : prev'[c[i]] = prev[c[i]]
        BY <1>7, <2>1, <2>2
    <2>4. Chained(prev, c)
        BY Known
    <2> QED BY <1>1, <2>3, <2>4, ChainKept
<1>17. Shape(r, c, start', active', next', prev', timeout', state')
    BY <1>1, <1>5, <1>9, <1>10, <1>12, <1>13, <1>14, <1>16 DEF Shape
<1>18. Fresh'
    <2> SUFFICES ASSUME NEW u \in Task, state'[u] = "new" PROVE next'[u] = Null /\ prev'[u] = Null
        BY DEF Fresh
    <2>1. u # t /\ state[u] = "new"
        BY <1>1, <1>2 DEF TypeOK
    <2>2. u \notin {Null} \cup {q[i] : i \in 1 .. Len(q)}
        BY <1>1, <2>1, Constants
    <2>3. u # After(q, n) /\ u # Before(q, n)
        BY <1>15, <2>2
    <2>4. next'[u] = next[u] /\ prev'[u] = prev[u]
        BY <1>7, <2>1, <2>3
    <2> QED BY <1>1, <2>1, <2>4 DEF Fresh
<1>19. TypeOK'
    <2>1. After(q, n) \in Task \cup {Null} /\ Before(q, n) \in Task \cup {Null}
        BY <1>1, <1>15
    <2>2. next' \in [Task -> Task \cup {Null}] /\ prev' \in [Task -> Task \cup {Null}] /\ start' \in Task \cup {Null}
        BY <1>1, <1>7, <2>1 DEF TypeOK
    <2>3. state' \in [Task -> {"new", "queued", "executed", "cancelled"}]
        BY <1>1, <1>2 DEF TypeOK
    <2> QED BY <1>1, <1>2, <1>8, <1>11, <2>2, <2>3 DEF TypeOK
<1>20. t \notin Promise!Tasks(q)
    BY <1>3, TasksAre
<1> QED BY <1>8, <1>17, <1>18, <1>19, <1>20, ShapeIs

\* insert: t comes to stand where TimerQueue wants it.
LEMMA InsertStep ==
    ASSUME IInv, NEW t \in Task, NEW delay \in Requests, Insert(t, delay)
    PROVE  /\ IInv' /\ Promise!Insert(t, clock + delay)
           /\ state'[t] = "queued" /\ \A u \in Task : u # t => state'[u] = state[u]
<1> DEFINE q == ListFrom(start)
           c == ListFrom(active)
           at == clock + delay
           n == Promise!DueBy(q, timeout, at)
           r == SubSeq(q, 1, n) \o <<t>> \o SubSeq(q, n + 1, Len(q))
<1>1. /\ TypeOK /\ q \in Seq(Task) /\ InOrder(q, timeout)
      /\ \A i \in 1 .. Len(q) : timeout[q[i]] \in Int
    BY Known
<1>2. /\ timeout' = [timeout EXCEPT ![t] = at] /\ state' = [state EXCEPT ![t] = "queued"]
      /\ at \in Int
    <2>1. delay \in Int /\ clock \in Int
        BY <1>1, Constants DEF TypeOK
    <2> QED BY <2>1 DEF Insert
<1> HIDE DEF q, c, at
<1>3. n \in 0 .. Len(q) /\ Front(q, n, timeout, at)
    BY <1>1, <1>2, DueByIsFront DEF InOrder, Front
<1> HIDE DEF n
<1>4. r \in Seq(Task) /\ Put(q, n, t, r)
    BY <1>1, <1>3, PutIs
<1> HIDE DEF r
<1>5. IInv' /\ ListFrom(start)' = r /\ ListFrom(active)' = c /\ t \notin Promise!Tasks(q)
    <2>1. Front(q, n, timeout, clock + delay)
        BY <1>3 DEF at
    <2>2. q = ListFrom(start) /\ c = ListFrom(active)
        BY DEF q, c
    <2> QED BY <1>3, <1>4, <2>1, <2>2, InsertPuts
<1>6. Promise!Insert(t, at)
    BY <1>2, <1>5 DEF Promise!Insert, q, c, n, r
<1>7. state'[t] = "queued" /\ \A u \in Task : u # t => state'[u] = state[u]
    BY <1>1, <1>2 DEF TypeOK
<1> QED BY <1>5, <1>6, <1>7 DEF at

-----------------------------------------------------------------------------
(* cycle.                                                                  *)

\* The pointers that are unset point to timed-out tasks; the walk starts at the last
\* of them, or else at the head.
LEMMA SliceIs ==
    ASSUME IInv, NEW q, q = ListFrom(start), start # Null
    PROVE  /\ \E k \in 1 .. Len(q) : SliceFrom = q[k]
           /\ Expired # {} => timeout[SliceFrom] <= clock
<1>1. /\ Len(q) \in Nat /\ Hangs(next, start, q) /\ Pointed(q, pointers, timeout)
      /\ q \in Seq(Task)
    BY Known
<1>2. CASE Expired = {}
    <2>1. SliceFrom = start
        BY <1>2 DEF SliceFrom
    <2>2. q # <<>> /\ start = q[1]
        BY <1>1 DEF Hangs
    <2>3. 1 \in 1 .. Len(q)
        BY <1>1, <2>2, EmptySeq
    <2> QED BY <1>2, <2>1, <2>2, <2>3
<1>3. CASE Expired # {}
    <2> DEFINE D == {d \in Nat : Last - d \in Expired}
    <2>1. /\ Last \in Nat /\ \A j \in Expired : j \in Index /\ pointers[j] # Null /\ timeout[pointers[j]] <= clock
          /\ \A j \in Index : j \in Nat /\ Last - j \in Nat /\ Last - (Last - j) = j
        BY Constants DEF Expired, Index
    <2>2. PICK e \in Expired : TRUE
        BY <1>3
    <2>3. Last - e \in D
        BY <2>1, <2>2
    <2>4. PICK d \in D : \A f \in D : d <= f
        BY <2>3, Least
    <2>5. Last - d \in Expired
        BY <2>4
    <2>6. ASSUME NEW j \in Expired PROVE j <= Last - d
        <3>1. Last - j \in D
            BY <2>1
        <3>2. d <= Last - j
            BY <2>4, <3>1
        <3>3. d \in Nat /\ j \in Nat
            BY <2>1
        <3> QED BY <2>1, <3>2, <3>3
    <2>7. SliceFrom = pointers[CHOOSE i \in Expired : \A j \in Expired : j <= i]
        BY <1>3 DEF SliceFrom
    <2>8. PICK i \in Expired : SliceFrom = pointers[i]
        BY <2>5, <2>6, <2>7
    <2>9. i \in Index /\ pointers[i] # Null /\ timeout[pointers[i]] <= clock
        BY <2>1
    <2>10. \E k \in 1 .. Len(q) : pointers[i] = q[k]
        BY <1>1, <2>9 DEF Pointed
    <2> QED BY <2>8, <2>9, <2>10
<1> QED BY <1>2, <1>3

\* The pointers that stay point to tasks that are not due.
LEMMA SlicePointers ==
    ASSUME TypeOK, NEW q \in Seq(Task), Pointed(q, pointers, timeout), NEW n \in 0 .. Len(q),
           Front(q, n, timeout, clock), NEW a \in Seq(Task), NEW b \in Seq(Task), Distinct(q), Parts(q, n, a, b),
           NEW ptrs, ptrs = [i \in Index |-> IF i \in Expired THEN Null ELSE pointers[i]]
    PROVE  Pointed(b, ptrs, timeout)
<1>1. /\ clock \in Int /\ \A j \in Index : j \in Int /\ (pointers[j] # Null => timeout[pointers[j]] \in Int)
      /\ \A i \in Index : \A j \in 1 .. i : j \in Index /\ (j < i \/ j = i)
    BY Constants DEF TypeOK, Index
<1>2. ASSUME NEW i \in Index, ptrs[i] # Null
      PROVE  ptrs[i] = pointers[i] /\ pointers[i] # Null /\ timeout[pointers[i]] > clock
    <2>1. i \notin Expired /\ ptrs[i] = pointers[i]
        BY <1>2
    <2>2. PICK j \in 1 .. i : pointers[j] # Null /\ ~ (timeout[pointers[j]] <= clock)
        BY <1>2, <2>1 DEF Expired
    <2>3. timeout[pointers[j]] > clock /\ timeout[pointers[j]] \in Int
        BY <1>1, <2>2
    <2>4. CASE j = i
        BY <1>2, <2>1, <2>3, <2>4
    <2>5. CASE j < i
        <3>1. timeout[pointers[j]] <= timeout[pointers[i]] /\ timeout[pointers[i]] \in Int
            BY <1>1, <1>2, <2>1, <2>2, <2>5 DEF Pointed
        <3>2. timeout[pointers[i]] > clock
            BY <1>1, <2>3, <3>1
        <3> QED BY <1>2, <2>1, <3>2
    <2> QED BY <1>1, <2>4, <2>5
<1>3. ASSUME NEW i \in Index, ptrs[i] # Null PROVE \E k \in 1 .. Len(b) : ptrs[i] = b[k]
    <2>1. PICK k \in 1 .. Len(q) : pointers[i] = q[k]
        BY <1>2, <1>3 DEF Pointed
    <2>2. ~ (timeout[q[k]] <= clock)
        <3>1. timeout[q[k]] > clock /\ timeout[q[k]] \in Int
            BY <1>1, <1>2, <1>3, <2>1
        <3> QED BY <1>1, <3>1
    <2>3. ~ (k <= n)
        BY <2>2 DEF Front
    <2>4. k - n \in 1 .. Len(b) /\ q[k] = b[k - n]
        BY <2>3, PartsTasks
    <2> QED BY <1>2, <1>3, <2>1, <2>4
<1>4. ASSUME NEW i \in Index, NEW j \in Index, i < j, ptrs[i] # Null
      PROVE  ptrs[j] # Null /\ timeout[ptrs[i]] <= timeout[ptrs[j]]
    <2>1. ptrs[i] = pointers[i] /\ pointers[i] # Null /\ timeout[pointers[i]] > clock
        BY <1>2, <1>4
    <2>2. pointers[j] # Null /\ timeout[pointers[i]] <= timeout[pointers[j]]
        BY <1>4, <2>1 DEF Pointed
    <2>3. ~ (timeout[pointers[j]] <= clock)
        <3>1. timeout[pointers[i]] \in Int /\ timeout[pointers[j]] \in Int
            BY <1>1, <2>1, <2>2
        <3> QED BY <1>1, <2>1, <2>2, <3>1
    <2>4. j \in 1 .. j
        <3>1. j \in Nat \ {0}
            BY Constants DEF Index
        <3> QED BY <3>1
    <2>5. j \notin Expired
        BY <2>2, <2>3, <2>4 DEF Expired
    <2>6. ptrs[j] = pointers[j]
        BY <2>5
    <2> QED BY <2>1, <2>2, <2>6
<1> QED BY <1>3, <1>4 DEF Pointed

\* The queued tasks are those of the lists, however they are parted.
LEMMA AsMany ==
    ASSUME NEW q \in Seq(Task), Distinct(q), NEW a \in Seq(Task), NEW b \in Seq(Task),
           NEW n \in 0 .. Len(q), Parts(q, n, a, b), NEW is, Queued(is, q, <<>>)
    PROVE  Queued(is, b, a)
<1>1. /\ \A i \in 1 .. Len(a) : i \in 1 .. Len(q) /\ a[i] = q[i]
      /\ \A j \in 1 .. Len(b) : n + j \in 1 .. Len(q) /\ b[j] = q[n + j]
      /\ \A k \in 1 .. Len(q) : \/ k <= n /\ k \in 1 .. Len(a) /\ q[k] = a[k]
                                \/ k > n /\ k - n \in 1 .. Len(b) /\ q[k] = b[k - n]
    BY PartsTasks
<1>2. ASSUME NEW u, u \in Promise!Tasks(q) PROVE u \in Promise!Tasks(b) \/ u \in Promise!Tasks(a)
    <2>1. PICK k \in 1 .. Len(q) : u = q[k]
        BY <1>2, TasksAre
    <2>2. (k \in 1 .. Len(a) /\ q[k] = a[k]) \/ (k - n \in 1 .. Len(b) /\ q[k] = b[k - n])
        BY <1>1
    <2> QED BY <2>1, <2>2, TasksAre
<1>3. ASSUME NEW u, u \in Promise!Tasks(a) PROVE u \in Promise!Tasks(q)
    <2>1. PICK k \in 1 .. Len(a) : u = a[k]
        BY <1>3, TasksAre
    <2> QED BY <1>1, <2>1, TasksAre
<1>4. ASSUME NEW u, u \in Promise!Tasks(b) PROVE u \in Promise!Tasks(q)
    <2>1. PICK k \in 1 .. Len(b) : u = b[k]
        BY <1>4, TasksAre
    <2> QED BY <1>1, <2>1, TasksAre
<1>5. \A u : u \notin Promise!Tasks(<<>>)
    <2>1. ASSUME NEW u, u \in Promise!Tasks(<<>>) PROVE FALSE
        <3>1. PICK k \in 1 .. Len(<<>>) : TRUE
            BY <2>1, TasksAre
        <3> QED BY <3>1
    <2> QED BY <2>1
<1> QED BY <1>2, <1>3, <1>4, <1>5 DEF Queued

\* No batch hangs from no task.
LEMMA NoBatch ==
    ASSUME IInv, NEW c, c = ListFrom(active)
    PROVE  active = Null <=> c = <<>>
<1>1. Len(c) \in Nat /\ Hangs(next, active, c) /\ c \in Seq(Task) /\ \A i \in 1 .. Len(c) : c[i] \in Task
    BY Known
<1>2. CASE c = <<>>
    BY <1>1, <1>2 DEF Hangs
<1>3. CASE c # <<>>
    <2>1. active = c[1] /\ 1 \in 1 .. Len(c)
        BY <1>1, <1>3, EmptySeq DEF Hangs
    <2> QED BY <1>1, <1>3, <2>1, Constants
<1> QED BY <1>2, <1>3

\* cycle takes the tasks that are due.
LEMMA CycleCuts ==
    ASSUME IInv, Cycle, NEW q, q = ListFrom(start), ~ (timeout[SliceFrom] > clock),
           NEW n \in 0 .. Len(q), Front(q, n, timeout, clock),
           NEW a \in Seq(Task), NEW b \in Seq(Task), Parts(q, n, a, b)
    PROVE  n > 0 /\ IInv' /\ ListFrom(start)' = b /\ ListFrom(active)' = a
<1>1. /\ TypeOK /\ Fresh /\ q \in Seq(Task) /\ Distinct(q) /\ Hangs(next, start, q) /\ Back(prev, q)
      /\ InOrder(q, timeout) /\ Len(q) \in Nat /\ Pointed(q, pointers, timeout)
    BY Known
<1>2. \A i \in 1 .. Len(q) : q[i] \in Task /\ timeout[q[i]] \in Int
    BY Known
<1>3. Queued(state, q, <<>>)
    <2>1. ListFrom(active) = <<>>
        BY NoBatch DEF Cycle
    <2> QED BY <2>1, Known DEF Shape
<1>4. clock \in Int
    BY <1>1, Constants DEF TypeOK
<1>5. PICK k \in 1 .. Len(q) : SliceFrom = q[k]
    BY SliceIs DEF Cycle
<1>6. k <= n /\ n \in 1 .. Len(q) /\ n > 0
    <2>1. timeout[q[k]] <= clock
        BY <1>2, <1>4, <1>5
    <2>2. k <= n
        BY <2>1 DEF Front
    <2> QED BY <1>1, <2>2
<1>7. LastDueBy(SliceFrom, clock) = q[n]
    BY <1>1, <1>4, <1>5, <1>6, WalkOn
<1>8. /\ next' = [next EXCEPT ![q[n]] = Null]
      /\ prev' = [u \in Task |-> IF u = next[q[n]] THEN Null ELSE prev[u]]
      /\ active' = start /\ start' = next[q[n]]
      /\ pointers' = [i \in Index |-> IF i \in Expired THEN Null ELSE pointers[i]]
      /\ timeout' = timeout /\ pointer' = pointer /\ clock' = clock /\ state' = state
    BY <1>7, Zenon DEF Cycle
<1>9. q[n] \in Task /\ next[q[n]] \in Task \cup {Null}
    BY <1>1, <1>2, <1>6 DEF TypeOK
<1>10. /\ Distinct(a) /\ Distinct(b) /\ Hangs(next', start, a)
       /\ Hangs(next', next[q[n]], b) /\ Back(prev', b)
    <2>1. Unlinked(next', next, q[n])
        BY <1>1, <1>8 DEF TypeOK, Unlinked
    <2>2. Unlinked(prev', prev, next[q[n]])
        BY <1>8 DEF Unlinked
    <2> QED BY <1>1, <1>6, <2>1, <2>2, PartsLinks
<1>11. InOrder(b, timeout)
    BY <1>1, PartsInOrder
<1>12. \A i \in 1 .. Len(b), j \in 1 .. Len(a) : b[i] # a[j]
    BY <1>1, PartsTasks
<1>13. Queued(state, b, a)
    BY <1>1, <1>3, AsMany
<1>14. Chained(prev', a)
    <2> SUFFICES ASSUME NEW i \in 2 .. Len(a) PROVE prev'[a[i]] = a[i - 1]
        BY DEF Chained
    <2>1. /\ Len(a) = n /\ i \in 1 .. n /\ i - 1 \in 1 .. n /\ i \in 1 .. Len(q) /\ i # 1
          /\ \A m \in 1 .. n : a[m] = q[m]
        BY <1>1 DEF Parts
    <2>2. q[i] # next[q[n]]
        <3>1. next[q[n]] = IF n = Len(q) THEN Null ELSE q[n + 1]
            BY <1>1, <1>6 DEF Hangs
        <3>2. n = Len(q) \/ (n + 1 \in 1 .. Len(q) /\ i # n + 1)
            BY <1>1, <1>6, <2>1
        <3>3. n + 1 \in 1 .. Len(q) => q[i] # q[n + 1] \/ i = n + 1
            BY <1>1, <2>1 DEF Distinct
        <3> QED BY <1>2, <2>1, <3>1, <3>2, <3>3, Constants
    <2>3. prev[q[i]] = q[i - 1]
        BY <1>1, <2>1 DEF Back
    <2>4. q[i] \in Task
        BY <1>2, <2>1
    <2>5. prev'[q[i]] = q[i - 1]
        BY <1>8, <2>2, <2>3, <2>4
    <2> QED BY <2>1, <2>5
<1>15. Shape(b, a, start', active', next', prev', timeout', state')
    BY <1>8, <1>10, <1>11, <1>12, <1>13, <1>14 DEF Shape
<1>16. Pointed(b, pointers', timeout')
    BY <1>1, <1>8, SlicePointers
<1>17. TypeOK'
    <2>1. pointers' \in [Index -> Task \cup {Null}]
        BY <1>1, <1>8 DEF TypeOK
    <2>2. next' \in [Task -> Task \cup {Null}] /\ prev' \in [Task -> Task \cup {Null}]
        BY <1>1, <1>8 DEF TypeOK
    <2> QED BY <1>1, <1>8, <1>9, <2>1, <2>2 DEF TypeOK
<1>18. Fresh'
    <2> SUFFICES ASSUME NEW u \in Task, state'[u] = "new" PROVE next'[u] = Null /\ prev'[u] = Null
        BY DEF Fresh
    <2>1. next[u] = Null /\ prev[u] = Null
        BY <1>1, <1>8 DEF Fresh
    <2> QED BY <1>1, <1>8, <2>1 DEF TypeOK
<1> QED BY <1>6, <1>15, <1>16, <1>17, <1>18, ShapeIs

\* cycle is that of TimerQueue with the tasks due by the clock, and does nothing when
\* none is.
LEMMA CycleStep ==
    ASSUME IInv, Cycle
    PROVE  /\ IInv' /\ state' = state
           /\ Promise!Cycle(clock) \/ UNCHANGED <<ListFrom(start), ListFrom(active), timeout>>
<1> DEFINE q == ListFrom(start)
           n == Promise!DueBy(q, timeout, clock)
           a == SubSeq(q, 1, n)
           b == SubSeq(q, n + 1, Len(q))
<1>1. TypeOK /\ q \in Seq(Task) /\ InOrder(q, timeout) /\ \A i \in 1 .. Len(q) : timeout[q[i]] \in Int
    BY Known
<1>2. state' = state /\ timeout' = timeout /\ pointer' = pointer /\ clock' = clock
    BY DEF Cycle
<1>3. CASE timeout[SliceFrom] > clock
    <2>1. Expired = {}
        <3>1. clock \in Int /\ timeout[SliceFrom] \in Int
            <4>1. PICK k \in 1 .. Len(q) : SliceFrom = q[k]
                BY SliceIs DEF Cycle
            <4> QED BY <1>1, <4>1, Constants DEF TypeOK
        <3>2. Expired # {} => timeout[SliceFrom] <= clock
            BY SliceIs DEF Cycle
        <3> QED BY <1>3, <3>1, <3>2
    <2>2. pointers' = pointers
        BY <1>1, <2>1 DEF Cycle, TypeOK
    <2>3. UNCHANGED <<start, active, next, prev>>
        BY <1>3 DEF Cycle, links
    <2>4. ListFrom(start)' = ListFrom(start) /\ ListFrom(active)' = ListFrom(active)
        BY <2>3 DEF ListFrom
    <2>5. IInv'
        BY <1>2, <2>2, <2>3, <2>4 DEF IInv, TypeOK, Fresh
    <2> QED BY <1>2, <2>4, <2>5
<1>4. CASE ~ (timeout[SliceFrom] > clock)
    <2>1. clock \in Int
        BY <1>1, Constants DEF TypeOK
    <2> HIDE DEF q
    <2>2. n \in 0 .. Len(q) /\ Front(q, n, timeout, clock)
        BY <1>1, <2>1, DueByIsFront DEF InOrder, Front
    <2> HIDE DEF n
    <2>3. a \in Seq(Task) /\ b \in Seq(Task) /\ Parts(q, n, a, b)
        BY <1>1, <2>2, PartsAre
    <2> HIDE DEF a, b
    <2>4. q = ListFrom(start)
        BY DEF q
    <2>5. n > 0 /\ IInv' /\ ListFrom(start)' = b /\ ListFrom(active)' = a
        BY <1>4, <2>2, <2>3, <2>4, CycleCuts
    <2>6. ListFrom(active) = <<>>
        BY NoBatch DEF Cycle
    <2>7. Promise!Cycle(clock)
        BY <1>2, <2>5, <2>6 DEF Promise!Cycle, q, n, a, b
    <2> QED BY <1>2, <2>5, <2>7
<1> QED BY <1>3, <1>4

-----------------------------------------------------------------------------
(* pop and cancel.                                                         *)

\* The queued tasks are those of the lists, one less.
LEMMA OneLess ==
    ASSUME NEW q \in Seq(Task), Distinct(q), NEW r \in Seq(Task), NEW k \in 1 .. Len(q), Took(q, k, r),
           NEW c, q[k] \notin Promise!Tasks(c), NEW is, NEW new, Queued(is, q, c),
           \A u \in Task : u # q[k] => new[u] = is[u], new[q[k]] # "queued"
    PROVE  Queued(new, r, c)
<1>1. /\ \A i \in 1 .. Len(r) : r[i] # q[k] /\ \E j \in 1 .. Len(q) : r[i] = q[j]
      /\ \A j \in 1 .. Len(q) : j # k => \E i \in 1 .. Len(r) : r[i] = q[j]
    BY TookTasks
<1>2. ASSUME NEW u, u \in Promise!Tasks(r) PROVE u # q[k] /\ u \in Promise!Tasks(q)
    <2>1. PICK i \in 1 .. Len(r) : u = r[i]
        BY <1>2, TasksAre
    <2>2. r[i] # q[k] /\ \E j \in 1 .. Len(q) : r[i] = q[j]
        BY <1>1
    <2> QED BY <2>1, <2>2, TasksAre
<1>3. ASSUME NEW u, u \in Promise!Tasks(q), u # q[k] PROVE u \in Promise!Tasks(r)
    <2>1. PICK j \in 1 .. Len(q) : u = q[j]
        BY <1>3, TasksAre
    <2>2. \E i \in 1 .. Len(r) : r[i] = q[j]
        BY <1>1, <1>3, <2>1
    <2> QED BY <2>1, <2>2, TasksAre
<1> QED BY <1>2, <1>3 DEF Queued

\* The first task of a list taken, the rest hangs from where it was linked to.
LEMMA TailHangs ==
    ASSUME NEW link, NEW head, NEW c \in Seq(Task), c # <<>>, Distinct(c), Hangs(link, head, c)
    PROVE  /\ Tail(c) \in Seq(Task) /\ Took(c, 1, Tail(c)) /\ 1 \in 1 .. Len(c) /\ c[1] = head
           /\ Distinct(Tail(c)) /\ Hangs(link, link[head], Tail(c))
<1> DEFINE r == Tail(c)
<1>1. /\ r \in Seq(Task) /\ Len(r) = Len(c) - 1 /\ \A i \in 1 .. Len(r) : r[i] = c[i + 1]
      /\ Len(c) \in Nat /\ 1 \in 1 .. Len(c) /\ c[1] = head
    BY HeadTailProperties, EmptySeq, LenProperties DEF Hangs
<1> HIDE DEF r
<1>2. \A i \in 1 .. Len(r) : i + 1 \in 1 .. Len(c) /\ (i = Len(r) <=> i + 1 = Len(c))
    BY <1>1
<1>3. Took(c, 1, r)
    <2>1. \A i \in 1 .. Len(r) : ~ (i < 1)
        BY <1>1
    <2> QED BY <1>1, <2>1 DEF Took
<1>4. Distinct(r)
    <2> SUFFICES ASSUME NEW i \in 1 .. Len(r), NEW j \in 1 .. Len(r), r[i] = r[j] PROVE i = j
        BY DEF Distinct
    <2>1. i + 1 \in 1 .. Len(c) /\ j + 1 \in 1 .. Len(c) /\ c[i + 1] = c[j + 1]
        BY <1>1, <1>2
    <2>2. i + 1 = j + 1
        BY <2>1 DEF Distinct
    <2> QED BY <2>2
<1>5. ASSUME NEW i \in 1 .. Len(r) PROVE link[r[i]] = IF i = Len(r) THEN Null ELSE r[i + 1]
    <2>1. link[c[i + 1]] = IF i + 1 = Len(c) THEN Null ELSE c[(i + 1) + 1]
        BY <1>2 DEF Hangs
    <2>2. i # Len(r) => i + 1 \in 1 .. Len(r)
        BY <1>1
    <2> QED BY <1>1, <1>2, <2>1, <2>2
<1>6. IF r = <<>> THEN link[head] = Null ELSE link[head] = r[1]
    <2>1. link[c[1]] = IF 1 = Len(c) THEN Null ELSE c[1 + 1]
        BY <1>1 DEF Hangs
    <2>2. r = <<>> <=> 1 = Len(c)
        BY <1>1, EmptySeq
    <2>3. r # <<>> => 1 \in 1 .. Len(r)
        BY <1>1, EmptySeq
    <2> QED BY <1>1, <2>1, <2>2, <2>3
<1> QED BY <1>1, <1>3, <1>4, <1>5, <1>6 DEF Hangs, r

\* pop hands out the first task of the batch.
LEMMA PopStep ==
    ASSUME IInv, Pop
    PROVE  /\ IInv' /\ Promise!Pop /\ \A t \in Task : state[t] # "queued" => state'[t] = state[t]
<1> DEFINE q == ListFrom(start)
           c == ListFrom(active)
           r == Tail(c)
<1>1. /\ TypeOK /\ Fresh /\ c \in Seq(Task) /\ Distinct(c) /\ Hangs(next, active, c)
      /\ Pointed(q, pointers, timeout) /\ Shape(q, c, start, active, next, prev, timeout, state)
    BY Known
<1>2. \A i \in 1 .. Len(c) : c[i] \in Task /\ state[c[i]] = "queued"
    BY Known
<1>3. \A i \in 1 .. Len(q), j \in 1 .. Len(c) : q[i] # c[j]
    BY Known
<1>4. active # Null /\ c # <<>>
    BY NoBatch DEF Pop
<1>5. /\ active' = next[active] /\ state' = [state EXCEPT ![active] = "executed"]
      /\ start' = start /\ pointers' = pointers /\ next' = next /\ prev' = prev
      /\ timeout' = timeout /\ pointer' = pointer /\ clock' = clock
    BY DEF Pop, links
<1> HIDE DEF q, c
<1>6. /\ r \in Seq(Task) /\ Took(c, 1, r) /\ 1 \in 1 .. Len(c) /\ c[1] = active
      /\ Distinct(r) /\ Hangs(next, next[active], r)
    BY <1>1, <1>4, TailHangs
<1> HIDE DEF r
<1>7. active \in Task /\ state[active] = "queued"
    BY <1>2, <1>6
<1>8. /\ state' \in [Task -> {"new", "queued", "executed", "cancelled"}] /\ state'[active] = "executed"
      /\ \A u \in Task : u # active => state'[u] = state[u]
    BY <1>1, <1>5, <1>7 DEF TypeOK
<1>9. Queued(state', q, r)
    <2>1. Queued(state, c, q)
        BY <1>1 DEF Shape, Queued
    <2>2. c[1] \notin Promise!Tasks(q)
        BY <1>3, <1>6, TasksAre
    <2>3. Queued(state', r, q)
        BY <1>1, <1>6, <1>8, <2>1, <2>2, OneLess
    <2> QED BY <2>3 DEF Queued
<1>10. \A i \in 1 .. Len(q), j \in 1 .. Len(r) : q[i] # r[j]
    <2>1. \A j \in 1 .. Len(r) : \E k \in 1 .. Len(c) : r[j] = c[k]
        BY <1>1, <1>6, TookTasks
    <2> QED BY <1>3, <2>1
<1>11. Chained(prev, r)
    <2> SUFFICES ASSUME NEW i \in 2 .. Len(r) PROVE prev[r[i]] = r[i - 1]
        BY DEF Chained
    <2>1. Len(c) \in Nat /\ Len(r) = Len(c) - 1 /\ \A m \in 1 .. Len(r) : r[m] = c[m + 1]
        <3>1. \A m \in 1 .. Len(r) : ~ (m < 1)
            BY <1>6, LenProperties
        <3> QED BY <1>1, <1>6, <3>1, LenProperties DEF Took
    <2>2. /\ i \in 1 .. Len(r) /\ i - 1 \in 1 .. Len(r) /\ i + 1 \in 2 .. Len(c)
          /\ (i + 1) - 1 = i /\ (i - 1) + 1 = i
        BY <2>1
    <2>3. prev[c[i + 1]] = c[(i + 1) - 1]
        BY <1>1, <2>2 DEF Shape, Chained
    <2>4. r[i] = c[i + 1] /\ r[i - 1] = c[i]
        <3>1. r[i - 1] = c[(i - 1) + 1]
            BY <2>1, <2>2
        <3> QED BY <2>1, <2>2, <3>1
    <2> QED BY <2>2, <2>3, <2>4
<1>12. Shape(q, r, start', active', next', prev', timeout', state')
    BY <1>1, <1>5, <1>6, <1>9, <1>10, <1>11 DEF Shape
<1>13. Pointed(q, pointers', timeout')
    BY <1>1, <1>5
<1>14. TypeOK'
    BY <1>1, <1>5, <1>7, <1>8 DEF TypeOK
<1>15. Fresh'
    <2> SUFFICES ASSUME NEW u \in Task, state'[u] = "new" PROVE next'[u] = Null /\ prev'[u] = Null
        BY DEF Fresh
    <2>1. state[u] = "new"
        BY <1>8
    <2> QED BY <1>1, <1>5, <2>1 DEF Fresh
<1>16. IInv' /\ ListFrom(start)' = q /\ ListFrom(active)' = r
    BY <1>12, <1>13, <1>14, <1>15, ShapeIs
<1>17. Promise!Pop
    BY <1>4, <1>5, <1>16 DEF Promise!Pop, q, c, r
<1> QED BY <1>7, <1>8, <1>16, <1>17

\* What a task is that waits when it is cancelled: no deep pointer but that of its own
\* class names it.
LEMMA CancelSimple ==
    ASSUME IInv, NEW t \in Task, CancelKind(t) = "simple",
           NEW q, q = ListFrom(start), NEW c, c = ListFrom(active)
    PROVE  /\ state[t] = "queued" /\ t \notin Promise!Tasks(c) /\ \E k \in 1 .. Len(q) : t = q[k]
           /\ \A i \in Index : i # pointer[t] => pointers[i] # t
<1>1. Listed(active) = Promise!Tasks(c)
    BY DEF Listed, Promise!Tasks
<1>2. state[t] = "queued"
    BY DEF CancelKind
<1>3. t \notin Listed(active)
    BY <1>2 DEF CancelKind
<1>4. ~ \E i \in Index : i # pointer[t] /\ pointers[i] = t
    BY <1>2, <1>3 DEF CancelKind
<1>5. Queued(state, q, c)
    BY Known DEF Shape
<1>6. t \in Promise!Tasks(q)
    BY <1>1, <1>2, <1>3, <1>5 DEF Queued
<1> QED BY <1>1, <1>2, <1>3, <1>4, <1>6, TasksAre

\* One that is cancelled in the batch: it stands behind the task that is popped next,
\* and no deep pointer names it.
LEMMA CancelBatched ==
    ASSUME IInv, NEW t \in Task, CancelKind(t) = "batched",
           NEW q, q = ListFrom(start), NEW c, c = ListFrom(active)
    PROVE  /\ state[t] = "queued" /\ t \notin Promise!Tasks(q) /\ \E k \in 2 .. Len(c) : t = c[k]
           /\ \A i \in Index : pointers[i] # t
<1>1. state[t] = "queued"
    BY DEF CancelKind
<1>2. t # active /\ t \in Listed(active)
    BY <1>1 DEF CancelKind
<1>3. PICK k \in 1 .. Len(c) : t = c[k]
    BY <1>2 DEF Listed
<1>4. /\ c \in Seq(Task) /\ Len(c) \in Nat /\ Hangs(next, active, c) /\ Pointed(q, pointers, timeout)
      /\ \A i \in 1 .. Len(q), j \in 1 .. Len(c) : q[i] # c[j]
    BY Known
<1>5. k # 1
    <2>1. c # <<>>
        BY <1>3, <1>4, EmptySeq
    <2> QED BY <1>2, <1>3, <1>4, <2>1 DEF Hangs
<1>6. k \in 2 .. Len(c)
    BY <1>4, <1>5
<1>7. t \notin Promise!Tasks(q)
    BY <1>3, <1>4, TasksAre
<1>8. ASSUME NEW i \in Index, pointers[i] = t PROVE FALSE
    <2>1. \E m \in 1 .. Len(q) : pointers[i] = q[m]
        BY <1>4, <1>8, Constants DEF Pointed
    <2> QED BY <1>3, <1>4, <1>8, <2>1
<1> QED BY <1>1, <1>3, <1>6, <1>7, <1>8

\* The pointer of the class takes the place of the one before: none names t.
LEMMA CancelPointers ==
    ASSUME TypeOK, NEW q \in Seq(Task), Pointed(q, pointers, timeout), NEW t \in Task,
           \A i \in Index : i # pointer[t] => pointers[i] # t,
           NEW r, \A k \in 1 .. Len(q) : q[k] # t => \E i \in 1 .. Len(r) : r[i] = q[k],
           NEW ptrs, ptrs = [i \in Index |-> IF i = pointer[t] THEN Unpointed(i) ELSE pointers[i]]
    PROVE  Pointed(r, ptrs, timeout) /\ ptrs \in [Index -> Task \cup {Null}]
<1> DEFINE From(i) == IF i = pointer[t] THEN i - 1 ELSE i
<1>1. /\ \A i \in Index : i \in Nat /\ i >= 1 /\ (i # 1 => i - 1 \in Index)
      /\ \A i \in Index : pointers[i] \in Task \cup {Null}
      /\ \A i \in Index : pointers[i] # Null => timeout[pointers[i]] \in Int
    BY Constants DEF TypeOK, Index
<1>2. \A i \in Index : ptrs[i] = IF i = pointer[t] /\ i = 1 THEN Null ELSE pointers[From(i)]
    BY DEF Unpointed
<1>3. ASSUME NEW i \in Index, ptrs[i] # Null
      PROVE  From(i) \in Index /\ ptrs[i] = pointers[From(i)] /\ From(i) # pointer[t]
    <2>1. ~ (i = pointer[t] /\ i = 1)
        BY <1>2, <1>3
    <2>2. ptrs[i] = pointers[From(i)]
        BY <1>2, <2>1
    <2> QED BY <1>1, <2>1, <2>2
<1>4. ASSUME NEW i \in Index, ptrs[i] # Null PROVE \E k \in 1 .. Len(r) : ptrs[i] = r[k]
    <2> HIDE DEF From
    <2>1. From(i) \in Index /\ ptrs[i] = pointers[From(i)] /\ From(i) # pointer[t]
        BY <1>3, <1>4
    <2>2. pointers[From(i)] # t
        BY <2>1
    <2>3. PICK k \in 1 .. Len(q) : pointers[From(i)] = q[k]
        BY <1>4, <2>1 DEF Pointed
    <2> QED BY <2>1, <2>2, <2>3
<1>5. ASSUME NEW i \in Index, NEW j \in Index, i < j, ptrs[i] # Null
      PROVE  ptrs[j] # Null /\ timeout[ptrs[i]] <= timeout[ptrs[j]]
    <2>1. From(i) \in Index /\ ptrs[i] = pointers[From(i)]
        BY <1>3, <1>5
    <2>2. j # 1 /\ From(j) \in Index /\ (From(i) < From(j) \/ From(i) = From(j))
        <3>1. i \in Nat /\ j \in Nat /\ i >= 1
            BY <1>1
        <3>2. j # 1 /\ i - 1 < j - 1 /\ i - 1 < j /\ (i < j - 1 \/ i = j - 1)
            BY <1>5, <3>1
        <3>3. j - 1 \in Index
            BY <1>1, <3>2
        <3> QED BY <1>5, <3>2, <3>3
    <2>3. ptrs[j] = pointers[From(j)]
        BY <1>2, <2>2
    <2> HIDE DEF From
    <2>4. CASE From(i) = From(j)
        <3>1. timeout[ptrs[i]] \in Int
            BY <1>1, <1>5, <2>1
        <3> QED BY <1>5, <2>1, <2>3, <2>4, <3>1
    <2>5. CASE From(i) < From(j)
        BY <1>5, <2>1, <2>2, <2>3, <2>5 DEF Pointed
    <2> QED BY <2>2, <2>4, <2>5
<1>6. \A i \in Index : ptrs[i] \in Task \cup {Null}
    <2> SUFFICES ASSUME NEW i \in Index, ptrs[i] # Null PROVE ptrs[i] \in Task
        OBVIOUS
    <2> HIDE DEF From
    <2>1. From(i) \in Index /\ ptrs[i] = pointers[From(i)]
        BY <1>3
    <2> QED BY <1>1, <2>1
<1> QED BY <1>4, <1>5, <1>6 DEF Pointed

\* cancel takes the task from the list.
LEMMA CancelTakes ==
    ASSUME IInv, NEW t \in Task, Cancel(t), CancelKind(t) = "simple",
           NEW q, q = ListFrom(start), NEW c, c = ListFrom(active),
           NEW k \in 1 .. Len(q), q[k] = t, NEW r \in Seq(Task), Took(q, k, r)
    PROVE  IInv' /\ ListFrom(start)' = r /\ ListFrom(active)' = c
<1>1. /\ TypeOK /\ Fresh /\ q \in Seq(Task) /\ Distinct(q) /\ Hangs(next, start, q) /\ Back(prev, q)
      /\ InOrder(q, timeout) /\ Len(q) \in Nat /\ Pointed(q, pointers, timeout)
    BY Known
<1>2. c \in Seq(Task) /\ Distinct(c) /\ Hangs(next, active, c) /\ Queued(state, q, c)
    BY Known DEF Shape
<1>3. \A i \in 1 .. Len(q), j \in 1 .. Len(c) : q[i] # c[j]
    BY Known
<1>4. \A i \in 1 .. Len(q) : q[i] \in Task /\ q[i] # Null /\ state[q[i]] = "queued"
    BY Known, Constants
<1>5. \A i \in 1 .. Len(c) : c[i] \in Task /\ c[i] # Null
    BY Known, Constants
<1>6. /\ state[t] = "queued" /\ t \notin Promise!Tasks(c)
      /\ \A i \in Index : i # pointer[t] => pointers[i] # t
    BY CancelSimple
<1>7. /\ next' = [u \in Task |-> IF u = t THEN Null ELSE IF u = prev[t] THEN next[t] ELSE next[u]]
      /\ prev' = [u \in Task |-> IF u = t THEN Null ELSE IF u = next[t] THEN prev[t] ELSE prev[u]]
      /\ start' = IF prev[t] = Null THEN next[t] ELSE start
      /\ pointers' = [i \in Index |-> IF i = pointer[t] THEN Unpointed(i) ELSE pointers[i]]
      /\ state' = [state EXCEPT ![t] = IF @ = "queued" THEN "cancelled" ELSE @]
      /\ active' = active /\ timeout' = timeout /\ pointer' = pointer /\ clock' = clock
    BY DEF Cancel
<1>8. /\ prev[t] = Null \/ \E i \in 1 .. Len(q) : prev[t] = q[i]
      /\ next[t] = Null \/ \E i \in 1 .. Len(q) : next[t] = q[i]
    <2>1. k = 1 \/ k - 1 \in 1 .. Len(q)
        BY <1>1
    <2>2. k = Len(q) \/ k + 1 \in 1 .. Len(q)
        BY <1>1
    <2> QED BY <1>1, <2>1, <2>2 DEF Hangs, Back
<1>9. Distinct(r) /\ Back(prev', r) /\ Hangs(next', start', r)
    <2>1. Bypassed(next', next, q[k], prev[q[k]], next[q[k]])
        BY <1>7 DEF Bypassed
    <2>2. Bypassed(prev', prev, q[k], next[q[k]], prev[q[k]])
        BY <1>7 DEF Bypassed
    <2>3. Distinct(r) /\ Back(prev', r) /\ Hangs(next', IF prev[q[k]] = Null THEN next[q[k]] ELSE start, r)
        BY <1>1, <2>1, <2>2, TookLinks
    <2> QED BY <1>7, <2>3
<1>10. Hangs(next', active', c)
    <2>1. ASSUME NEW i \in 1 .. Len(c) PROVE next'[c[i]] = next[c[i]]
        <3>1. c[i] \in Task /\ c[i] # Null /\ c[i] # t
            BY <1>3, <1>5
        <3>2. c[i] # prev[t]
            BY <1>3, <1>8, <3>1
        <3> QED BY <1>7, <3>1, <3>2
    <2>2. Hangs(next', active, c)
        BY <1>2, <2>1, SameLinks
    <2> QED BY <1>7, <2>2
<1>11. InOrder(r, timeout)
    <2>1. q \in Seq(Task) /\ InOrder(q, timeout)
        BY <1>1
    <2> QED BY <2>1, TookInOrder
<1>12. /\ \A i \in 1 .. Len(r) : r[i] # q[k] /\ \E j \in 1 .. Len(q) : r[i] = q[j]
       /\ \A j \in 1 .. Len(q) : j # k => \E i \in 1 .. Len(r) : r[i] = q[j]
    <2>1. q \in Seq(Task) /\ Distinct(q) /\ Took(q, k, r)
        BY <1>1
    <2>2. \A i \in 1 .. Len(r) : r[i] # q[k] /\ \E j \in 1 .. Len(q) : r[i] = q[j]
        BY <2>1, TookTasks, SMTT(60)
    <2>3. \A j \in 1 .. Len(q) : j # k => \E i \in 1 .. Len(r) : r[i] = q[j]
        BY <2>1, TookTasks, SMTT(60)
    <2> QED BY <2>2, <2>3
<1>13. \A i \in 1 .. Len(r), j \in 1 .. Len(c) : r[i] # c[j]
    BY <1>3, <1>12
<1>14. /\ state' \in [Task -> {"new", "queued", "executed", "cancelled"}] /\ state'[t] = "cancelled"
       /\ \A u \in Task : u # t => state'[u] = state[u]
    BY <1>1, <1>6, <1>7 DEF TypeOK
<1>15. Queued(state', r, c)
    <2>1. q \in Seq(Task) /\ Distinct(q) /\ Queued(state, q, c) /\ q[k] \notin Promise!Tasks(c)
        BY <1>1, <1>2, <1>6
    <2>2. (\A u \in Task : u # q[k] => state'[u] = state[u]) /\ state'[q[k]] # "queued"
        BY <1>14
    <2> QED BY <2>1, <2>2, OneLess
<1>16. Chained(prev', c)
    <2>1. \A i \in 1 .. Len(c) : c[i] # t /\ c[i] # next[t]
        BY <1>3, <1>5, <1>8
    <2>2. \A i \in 1 .. Len(c) : prev'[c[i]] = prev[c[i]]
        BY <1>5, <1>7, <2>1
    <2>3. Chained(prev, c)
        BY Known
    <2> QED BY <1>2, <2>2, <2>3, ChainKept
<1>17. Shape(r, c, start', active', next', prev', timeout', state')
    BY <1>2, <1>7, <1>9, <1>10, <1>11, <1>13, <1>15, <1>16 DEF Shape
<1>18. Pointed(r, pointers', timeout') /\ pointers' \in [Index -> Task \cup {Null}]
    <2>1. \A j \in 1 .. Len(q) : q[j] # t => \E i \in 1 .. Len(r) : r[i] = q[j]
        BY <1>12
    <2>2. TypeOK /\ q \in Seq(Task) /\ Pointed(q, pointers, timeout)
        BY <1>1
    <2>3. \A i \in Index : i # pointer[t] => pointers[i] # t
        BY <1>6
    <2> QED BY <1>7, <2>1, <2>2, <2>3, CancelPointers
<1>19. Fresh'
    <2> SUFFICES ASSUME NEW u \in Task, state'[u] = "new" PROVE next'[u] = Null /\ prev'[u] = Null
        BY DEF Fresh
    <2>1. u # t /\ state[u] = "new"
        BY <1>14
    <2>2. u # prev[t] /\ u # next[t]
        BY <1>4, <1>8, <2>1, Constants
    <2> QED BY <1>1, <1>7, <2>1, <2>2 DEF Fresh
<1>20. TypeOK'
    <2>1. next[t] \in Task \cup {Null} /\ prev[t] \in Task \cup {Null}
        BY <1>1 DEF TypeOK
    <2>2. next' \in [Task -> Task \cup {Null}] /\ prev' \in [Task -> Task \cup {Null}] /\ start' \in Task \cup {Null}
        BY <1>1, <1>7, <2>1 DEF TypeOK
    <2> QED BY <1>1, <1>7, <1>14, <1>18, <2>2 DEF TypeOK
<1> QED BY <1>17, <1>18, <1>19, <1>20, ShapeIs

\* A batch is read back along prev if its first task is taken for linked to none.
LEMMA ChainBack ==
    ASSUME NEW c \in Seq(Task), c # <<>>, Distinct(c), NEW link \in Links, Chained(link, c)
    PROVE  Back([link EXCEPT ![c[1]] = Null], c)
<1>1. Len(c) \in Nat /\ 1 \in 1 .. Len(c) /\ \A i \in 1 .. Len(c) : c[i] \in Task
    BY LenProperties, ElementOfSeq, EmptySeq
<1> SUFFICES ASSUME NEW i \in 1 .. Len(c)
             PROVE  [link EXCEPT ![c[1]] = Null][c[i]] = IF i = 1 THEN Null ELSE c[i - 1]
    BY DEF Back
<1>2. CASE i = 1
    BY <1>1, <1>2 DEF Links
<1>3. CASE i # 1
    <2>1. c[i] # c[1] /\ i \in 2 .. Len(c)
        BY <1>1, <1>3 DEF Distinct
    <2> QED BY <1>1, <1>3, <2>1 DEF Links, Chained
<1> QED BY <1>2, <1>3

\* cancel of a task in the batch takes it from there and leaves the pending list.
LEMMA CancelTakesBatched ==
    ASSUME IInv, NEW t \in Task, Cancel(t), CancelKind(t) = "batched",
           NEW q, q = ListFrom(start), NEW c, c = ListFrom(active),
           NEW k \in 2 .. Len(c), c[k] = t, NEW r \in Seq(Task), Took(c, k, r)
    PROVE  IInv' /\ ListFrom(start)' = q /\ ListFrom(active)' = r
<1>1. /\ TypeOK /\ Fresh /\ q \in Seq(Task) /\ Distinct(q) /\ Hangs(next, start, q) /\ Back(prev, q)
      /\ InOrder(q, timeout) /\ Pointed(q, pointers, timeout)
    BY Known
<1>2. /\ c \in Seq(Task) /\ Distinct(c) /\ Hangs(next, active, c) /\ Chained(prev, c)
      /\ Len(c) \in Nat /\ Queued(state, q, c)
    BY Known DEF Shape
<1>3. \A i \in 1 .. Len(q), j \in 1 .. Len(c) : q[i] # c[j]
    BY Known
<1>4. \A i \in 1 .. Len(q) : q[i] \in Task /\ q[i] # Null
    BY Known, Constants
<1>5. \A i \in 1 .. Len(c) : c[i] \in Task /\ c[i] # Null /\ state[c[i]] = "queued"
    BY Known, Constants
<1>6. /\ state[t] = "queued" /\ t \notin Promise!Tasks(q)
      /\ \A i \in Index : pointers[i] # t
    BY CancelBatched
<1>7. /\ next' = [u \in Task |-> IF u = t THEN Null ELSE IF u = prev[t] THEN next[t] ELSE next[u]]
      /\ prev' = [u \in Task |-> IF u = t THEN Null ELSE IF u = next[t] THEN prev[t] ELSE prev[u]]
      /\ start' = IF prev[t] = Null THEN next[t] ELSE start
      /\ pointers' = [i \in Index |-> IF i = pointer[t] THEN Unpointed(i) ELSE pointers[i]]
      /\ state' = [state EXCEPT ![t] = IF @ = "queued" THEN "cancelled" ELSE @]
      /\ active' = active /\ timeout' = timeout /\ pointer' = pointer /\ clock' = clock
    BY DEF Cancel
<1>8. /\ k \in 1 .. Len(c) /\ k - 1 \in 1 .. Len(c) /\ k # 1 /\ 1 \in 1 .. Len(c) /\ c # <<>>
      /\ prev[t] = c[k - 1]
      /\ next[t] = Null \/ \E i \in 1 .. Len(c) : next[t] = c[i]
      /\ next[t] # c[1] /\ t # c[1]
    <2>1. k \in 1 .. Len(c) /\ k - 1 \in 1 .. Len(c) /\ k # 1 /\ 1 \in 1 .. Len(c) /\ c # <<>>
        BY <1>2, EmptySeq
    <2>2. prev[t] = c[k - 1]
        BY <1>2 DEF Chained
    <2>3. next[t] = IF k = Len(c) THEN Null ELSE c[k + 1]
        BY <1>2, <2>1 DEF Hangs
    <2>4. k = Len(c) \/ (k + 1 \in 1 .. Len(c) /\ k + 1 # 1)
        BY <1>2, <2>1
    <2>5. c[1] # c[k] /\ (k # Len(c) => c[k + 1] # c[1])
        BY <1>2, <2>1, <2>4 DEF Distinct
    <2> QED BY <1>5, <2>1, <2>2, <2>3, <2>4, <2>5
<1>9. start' = start
    BY <1>5, <1>7, <1>8
<1>10. Distinct(r) /\ Chained(prev', r) /\ Hangs(next', active', r)
    <2> DEFINE old == [prev EXCEPT ![c[1]] = Null]
               new == [prev' EXCEPT ![c[1]] = Null]
    <2>1. prev \in Links /\ prev' \in [Task -> UNION {Task \cup {Null}, {prev[t]}}]
        BY <1>1, <1>7 DEF TypeOK, Links
    <2>2. Back(old, c)
        BY <1>2, <1>8, <2>1, ChainBack
    <2>3. /\ old[t] = prev[t] /\ old[c[1]] = Null /\ new[c[1]] = Null
          /\ \A u \in Task : u # c[1] => old[u] = prev[u] /\ new[u] = prev'[u]
        BY <1>5, <1>8, <2>1 DEF Links
    <2> HIDE DEF old, new
    <2>4. Bypassed(next', next, c[k], old[c[k]], next[c[k]])
        BY <1>7, <2>3 DEF Bypassed
    <2>5. Bypassed(new, old, c[k], next[c[k]], old[c[k]])
        <3> SUFFICES ASSUME NEW u \in Task, u # t
                     PROVE  new[u] = IF u = next[t] THEN prev[t] ELSE old[u]
            BY <2>3 DEF Bypassed
        <3>1. CASE u = c[1]
            BY <1>8, <2>3, <3>1
        <3>2. CASE u # c[1]
            BY <1>7, <2>3, <3>2
        <3> QED BY <3>1, <3>2
    <2>6. Distinct(r) /\ Back(new, r) /\ Hangs(next', IF old[c[k]] = Null THEN next[c[k]] ELSE active, r)
        <3>1. c \in Seq(Task) /\ Distinct(c) /\ Hangs(next, active, c) /\ k \in 1 .. Len(c) /\ Took(c, k, r)
            BY <1>2, <1>8
        <3> QED BY <2>2, <2>4, <2>5, <3>1, TookLinks
    <2>7. old[c[k]] # Null
        BY <1>5, <1>8, <2>3
    <2>8. Len(r) \in Nat /\ r[1] = c[1] /\ \A i \in 1 .. Len(r) : r[i] \in Task
        <3>1. Len(r) = Len(c) - 1 /\ 1 \in 1 .. Len(r) /\ 1 < k
            BY <1>2, <1>8 DEF Took
        <3>2. r[1] = c[1]
            BY <3>1 DEF Took
        <3> QED BY <3>2, LenProperties, ElementOfSeq
    <2>9. Chained(prev', r)
        <3> SUFFICES ASSUME NEW i \in 2 .. Len(r) PROVE prev'[r[i]] = r[i - 1]
            BY DEF Chained
        <3>1. i \in 1 .. Len(r) /\ i # 1 /\ 1 \in 1 .. Len(r)
            BY <2>8
        <3>2. r[i] \in Task /\ r[i] # c[1]
            BY <2>6, <2>8, <3>1 DEF Distinct
        <3>3. new[r[i]] = r[i - 1]
            BY <2>6, <3>1 DEF Back
        <3> QED BY <2>3, <3>2, <3>3
    <2> QED BY <1>7, <2>6, <2>7, <2>9
<1>11. Hangs(next', start', q) /\ Back(prev', q)
    <2>1. \A i \in 1 .. Len(q) : q[i] # t /\ q[i] # prev[t] /\ q[i] # next[t]
        BY <1>3, <1>4, <1>8
    <2>2. \A i \in 1 .. Len(q) : next'[q[i]] = next[q[i]] /\ prev'[q[i]] = prev[q[i]]
        BY <1>4, <1>7, <2>1
    <2> QED BY <1>1, <1>9, <2>2, SameLinks
<1>12. \A i \in 1 .. Len(r) : r[i] # c[k] /\ \E j \in 1 .. Len(c) : r[i] = c[j]
    <2>1. c \in Seq(Task) /\ Distinct(c) /\ k \in 1 .. Len(c)
        BY <1>2, <1>8
    <2> QED BY <2>1, TookTasks
<1>13. \A i \in 1 .. Len(q), j \in 1 .. Len(r) : q[i] # r[j]
    BY <1>3, <1>12
<1>14. /\ state' \in [Task -> {"new", "queued", "executed", "cancelled"}] /\ state'[t] = "cancelled"
       /\ \A u \in Task : u # t => state'[u] = state[u]
    BY <1>1, <1>6, <1>7 DEF TypeOK
<1>15. Queued(state', q, r)
    <2>1. Queued(state, c, q) /\ c[k] \notin Promise!Tasks(q)
        BY <1>2, <1>6 DEF Queued
    <2>2. (\A u \in Task : u # c[k] => state'[u] = state[u]) /\ state'[c[k]] # "queued"
        BY <1>14
    <2>3. Queued(state', r, q)
        BY <1>2, <1>8, <2>1, <2>2, OneLess
    <2> QED BY <2>3 DEF Queued
<1>16. Shape(q, r, start', active', next', prev', timeout', state')
    BY <1>1, <1>7, <1>10, <1>11, <1>13, <1>15 DEF Shape
<1>17. Pointed(q, pointers', timeout') /\ pointers' \in [Index -> Task \cup {Null}]
    <2>1. \A j \in 1 .. Len(q) : q[j] # t => \E i \in 1 .. Len(q) : q[i] = q[j]
        OBVIOUS
    <2>2. TypeOK /\ q \in Seq(Task) /\ Pointed(q, pointers, timeout)
        BY <1>1
    <2>3. \A i \in Index : i # pointer[t] => pointers[i] # t
        BY <1>6
    <2> QED BY <1>7, <2>1, <2>2, <2>3, CancelPointers
<1>18. Fresh'
    <2> SUFFICES ASSUME NEW u \in Task, state'[u] = "new" PROVE next'[u] = Null /\ prev'[u] = Null
        BY DEF Fresh
    <2>1. u # t /\ state[u] = "new"
        BY <1>14
    <2>2. u # prev[t] /\ u # next[t]
        BY <1>5, <1>8, <2>1, Constants
    <2> QED BY <1>1, <1>7, <2>1, <2>2 DEF Fresh
<1>19. TypeOK'
    <2>1. next[t] \in Task \cup {Null} /\ prev[t] \in Task \cup {Null}
        BY <1>1 DEF TypeOK
    <2>2. next' \in [Task -> Task \cup {Null}] /\ prev' \in [Task -> Task \cup {Null}] /\ start' \in Task \cup {Null}
        BY <1>1, <1>7, <2>1 DEF TypeOK
    <2> QED BY <1>1, <1>7, <1>14, <1>17, <2>2 DEF TypeOK
<1> QED BY <1>16, <1>17, <1>18, <1>19, ShapeIs

\* So cancel is that of TimerQueue, and the task was not executed.
LEMMA CancelStepSimple ==
    ASSUME IInv, NEW t \in Task, Cancel(t), CancelKind(t) = "simple"
    PROVE  /\ IInv' /\ Promise!Cancel(t) /\ \A u \in Task : state'[u] # "executed" \/ state'[u] = state[u]
<1> DEFINE q == ListFrom(start)
           c == ListFrom(active)
           k == CHOOSE n \in 1 .. Len(q) : q[n] = t
           r == SubSeq(q, 1, k - 1) \o SubSeq(q, k + 1, Len(q))
<1>1. q \in Seq(Task) /\ TypeOK
    BY Known
<1>2. t \notin Promise!Tasks(c) /\ state[t] = "queued" /\ \E n \in 1 .. Len(q) : t = q[n]
    BY CancelSimple
<1>3. t \in Promise!Tasks(q)
    BY <1>2, TasksAre
<1>4. timeout' = timeout /\ state' = [state EXCEPT ![t] = IF @ = "queued" THEN "cancelled" ELSE @]
    BY DEF Cancel
<1>5. Promise!Without(c, t) = c
    BY <1>2 DEF Promise!Without
<1>6. Promise!Without(q, t) = r
    BY <1>3 DEF Promise!Without
<1> HIDE DEF q, c
<1>7. k \in 1 .. Len(q) /\ q[k] = t
    BY <1>2
<1> HIDE DEF k
<1>8. r \in Seq(Task) /\ Took(q, k, r)
    BY <1>1, <1>7, TookIs
<1> HIDE DEF r
<1>9. IInv' /\ ListFrom(start)' = r /\ ListFrom(active)' = c
    <2>1. q = ListFrom(start) /\ c = ListFrom(active)
        BY DEF q, c
    <2> QED BY <1>7, <1>8, <2>1, CancelTakes
<1>10. Promise!Cancel(t)
    BY <1>3, <1>4, <1>5, <1>6, <1>9 DEF Promise!Cancel, q, c
<1>11. \A u \in Task : state'[u] # "executed" \/ state'[u] = state[u]
    BY <1>1, <1>2, <1>4 DEF TypeOK
<1> QED BY <1>9, <1>10, <1>11

\* The same of a task in the batch.
LEMMA CancelStepBatched ==
    ASSUME IInv, NEW t \in Task, Cancel(t), CancelKind(t) = "batched"
    PROVE  /\ IInv' /\ Promise!Cancel(t) /\ \A u \in Task : state'[u] # "executed" \/ state'[u] = state[u]
<1> DEFINE q == ListFrom(start)
           c == ListFrom(active)
           k == CHOOSE n \in 1 .. Len(c) : c[n] = t
           r == SubSeq(c, 1, k - 1) \o SubSeq(c, k + 1, Len(c))
<1>1. c \in Seq(Task) /\ Len(c) \in Nat /\ Distinct(c) /\ TypeOK
    BY Known
<1>2. t \notin Promise!Tasks(q) /\ state[t] = "queued" /\ \E n \in 2 .. Len(c) : t = c[n]
    BY CancelBatched
<1>3. t \in Promise!Tasks(c)
    <2>1. \E n \in 1 .. Len(c) : t = c[n]
        BY <1>1, <1>2
    <2> QED BY <2>1, TasksAre
<1>4. timeout' = timeout /\ state' = [state EXCEPT ![t] = IF @ = "queued" THEN "cancelled" ELSE @]
    BY DEF Cancel
<1>5. Promise!Without(q, t) = q
    BY <1>2 DEF Promise!Without
<1>6. Promise!Without(c, t) = r
    BY <1>3 DEF Promise!Without
<1> HIDE DEF q, c
<1>7. k \in 2 .. Len(c) /\ k \in 1 .. Len(c) /\ c[k] = t
    <2>1. PICK n \in 2 .. Len(c) : t = c[n]
        BY <1>2
    <2>2. n \in 1 .. Len(c)
        BY <1>1
    <2>3. k \in 1 .. Len(c) /\ c[k] = t
        BY <2>1, <2>2
    <2> HIDE DEF k
    <2>4. k = n
        BY <1>1, <2>1, <2>2, <2>3 DEF Distinct
    <2> QED BY <2>1, <2>3, <2>4
<1> HIDE DEF k
<1>8. r \in Seq(Task) /\ Took(c, k, r)
    BY <1>1, <1>7, TookIs
<1> HIDE DEF r
<1>9. IInv' /\ ListFrom(start)' = q /\ ListFrom(active)' = r
    <2>1. q = ListFrom(start) /\ c = ListFrom(active)
        BY DEF q, c
    <2> QED BY <1>7, <1>8, <2>1, CancelTakesBatched
<1>10. Promise!Cancel(t)
    BY <1>3, <1>4, <1>5, <1>6, <1>9 DEF Promise!Cancel, q, c
<1>11. \A u \in Task : state'[u] # "executed" \/ state'[u] = state[u]
    BY <1>1, <1>2, <1>4 DEF TypeOK
<1> QED BY <1>9, <1>10, <1>11

\* Any cancel that is allowed.
LEMMA CancelStep ==
    ASSUME IInv, Cancels \subseteq {"simple", "batched"}, NEW t \in Task, Cancel(t)
    PROVE  /\ IInv' /\ Promise!Cancel(t) /\ \A u \in Task : state'[u] # "executed" \/ state'[u] = state[u]
<1>1. CancelKind(t) = "simple" \/ CancelKind(t) = "batched"
    BY DEF Cancel
<1> QED BY <1>1, CancelStepSimple, CancelStepBatched

-----------------------------------------------------------------------------
(* The theorems.                                                           *)

\* The clock is not part of the lists.
LEMMA TickStep ==
    ASSUME IInv, Tick \/ UNCHANGED vars
    PROVE  IInv' /\ UNCHANGED <<ListFrom(start), ListFrom(active), timeout, state>>
<1>1. /\ UNCHANGED <<start, active, pointers, next, prev, timeout, pointer, state>>
      /\ clock' \in 0 .. MaxTime
    BY DEF Tick, vars, queue, links, IInv, TypeOK
<1>2. ListFrom(start)' = ListFrom(start) /\ ListFrom(active)' = ListFrom(active)
    BY <1>1 DEF ListFrom
<1>3. TypeOK /\ Fresh /\ Pointed(ListFrom(start), pointers, timeout)
      /\ Shape(ListFrom(start), ListFrom(active), start, active, next, prev, timeout, state)
    BY DEF IInv
<1>4. TypeOK' /\ Fresh'
    BY <1>1, <1>3 DEF TypeOK, Fresh
<1>5. Pointed(ListFrom(start), pointers, timeout)'
    BY <1>1, <1>2, <1>3
<1>6. Shape(ListFrom(start), ListFrom(active), start, active, next, prev, timeout, state)'
    BY <1>1, <1>2, <1>3
<1> QED BY <1>1, <1>2, <1>4, <1>5, <1>6 DEF IInv

\* In the beginning there are no lists.
LEMMA InitOK == Init => IInv /\ Promise!Init
<1> SUFFICES ASSUME Init PROVE IInv /\ Promise!Init
    OBVIOUS
<1>1. <<>> \in Seq(Task) /\ Len(<<>>) = 0
    BY EmptySeq
<1>2. Distinct(<<>>) /\ Hangs(next, Null, <<>>)
    BY <1>1 DEF Distinct, Hangs
<1>3. start = Null /\ active = Null
    BY DEF Init
<1>4. ListFrom(start) = <<>> /\ ListFrom(active) = <<>>
    BY <1>1, <1>2, <1>3, ListIs DEF ListFrom
<1>5. Back(prev, <<>>) /\ InOrder(<<>>, timeout) /\ Chained(prev, <<>>)
    BY <1>1 DEF Back, InOrder, Chained
<1>6. Queued(state, <<>>, <<>>)
    <2>1. \A u : u \notin Promise!Tasks(<<>>)
        BY <1>1 DEF Promise!Tasks
    <2> QED BY <2>1 DEF Init, Queued
<1>7. Shape(<<>>, <<>>, start, active, next, prev, timeout, state)
    BY <1>1, <1>2, <1>3, <1>5, <1>6 DEF Shape
<1>8. Pointed(<<>>, pointers, timeout)
    BY DEF Init, Pointed
<1>9. TypeOK /\ Fresh
    BY Constants DEF Init, TypeOK, Fresh
<1>10. timeout \in [Task -> Times]
    BY Constants DEF Init, Times
<1> QED BY <1>4, <1>7, <1>8, <1>9, <1>10 DEF IInv, Promise!Init

\* Every step keeps the invariant, lets no cancelled task run and is one of
\* TimerQueue, or none.
LEMMA StepOK ==
    ASSUME IInv, Cancels \subseteq {"simple", "batched"}, [Next]_vars
    PROVE  /\ IInv'
           /\ \A t \in Task : state[t] = "cancelled" => state'[t] # "executed"
           /\ Promise!Next \/ UNCHANGED <<ListFrom(start), ListFrom(active), timeout>>
<1>1. CASE \E t \in Task, delay \in Requests : Insert(t, delay)
    <2>1. PICK t \in Task, delay \in Requests : Insert(t, delay)
        BY <1>1
    <2>2. /\ IInv' /\ Promise!Insert(t, clock + delay)
          /\ state'[t] = "queued" /\ \A u \in Task : u # t => state'[u] = state[u]
        BY <2>1, InsertStep
    <2>3. clock \in 0 .. MaxTime
        BY DEF IInv, TypeOK
    <2>4. clock + delay \in Times
        BY <2>3 DEF Times
    <2>5. Promise!Next
        BY <2>2, <2>4 DEF Promise!Next
    <2> QED BY <2>2, <2>5
<1>2. CASE Cycle
    <2>1. /\ IInv' /\ state' = state
          /\ Promise!Cycle(clock) \/ UNCHANGED <<ListFrom(start), ListFrom(active), timeout>>
        BY <1>2, CycleStep
    <2>2. clock \in Times
        BY DEF IInv, TypeOK, Times
    <2>3. Promise!Cycle(clock) => Promise!Next
        BY <2>2 DEF Promise!Next
    <2> QED BY <2>1, <2>3
<1>3. CASE Pop
    <2>1. IInv' /\ Promise!Pop /\ \A t \in Task : state[t] # "queued" => state'[t] = state[t]
        BY <1>3, PopStep
    <2>2. Promise!Next
        BY <2>1 DEF Promise!Next
    <2> QED BY <2>1, <2>2
<1>4. CASE \E t \in Task : Cancel(t)
    <2>1. PICK t \in Task : Cancel(t)
        BY <1>4
    <2>2. IInv' /\ Promise!Cancel(t) /\ \A u \in Task : state'[u] # "executed" \/ state'[u] = state[u]
        BY <2>1, CancelStep
    <2>3. Promise!Next
        BY <2>2 DEF Promise!Next
    <2> QED BY <2>2, <2>3
<1>5. CASE Tick \/ UNCHANGED vars
    <2>1. IInv' /\ UNCHANGED <<ListFrom(start), ListFrom(active), timeout, state>>
        BY <1>5, TickStep
    <2> QED BY <2>1
<1> QED BY <1>1, <1>2, <1>3, <1>4, <1>5 DEF Next

\* What the invariant says of links and pointers is what StructureOK asks for.
LEMMA StructureKept == IInv => StructureOK /\ NothingLost
<1> SUFFICES ASSUME IInv PROVE StructureOK /\ NothingLost
    OBVIOUS
<1> DEFINE q == ListFrom(start)
           c == ListFrom(active)
<1>1. /\ TypeOK /\ Pointed(q, pointers, timeout) /\ Queued(state, q, c)
      /\ Hangs(next, start, q) /\ Back(prev, q) /\ InOrder(q, timeout) /\ Distinct(q)
    BY Known DEF Shape
<1>2. Len(q) \in Nat /\ \A i \in 1 .. Len(q) : q[i] \in Task /\ q[i] # Null /\ timeout[q[i]] \in Int
    BY Known, Constants
<1>3. Listed(start) = {q[i] : i \in 1 .. Len(q)} /\ Listed(start) = Promise!Tasks(q) /\ Listed(active) = Promise!Tasks(c)
    BY DEF Listed, Promise!Tasks
<1> HIDE DEF q, c
<1>4. NothingLost
    BY <1>1, <1>3 DEF NothingLost, Queued
<1>5. PointersOK
    <2>1. ASSUME NEW i \in Index, pointers[i] # Null PROVE pointers[i] \in Listed(start)
        <3>1. PICK k \in 1 .. Len(q) : pointers[i] = q[k]
            BY <1>1, <2>1 DEF Pointed
        <3> QED BY <1>3, <3>1
    <2>2. {pointers[i] : i \in Index} \ {Null} \subseteq Listed(start)
        BY <2>1
    <2>3. \A i, j \in Index : i < j /\ pointers[i] # Null => timeout[pointers[i]] <= timeout[pointers[j]]
        BY <1>1 DEF Pointed
    <2> QED BY <2>2, <2>3 DEF PointersOK
<1>6. LinksAgree
    <2> SUFFICES ASSUME NEW t \in Listed(start)
                 PROVE  /\ prev[t] = Null <=> t = start
                        /\ next[t] # Null => prev[next[t]] = t /\ timeout[t] <= timeout[next[t]]
        BY DEF LinksAgree
    <2>1. PICK i \in 1 .. Len(q) : t = q[i]
        BY <1>3
    <2>2. q # <<>> /\ start = q[1] /\ 1 \in 1 .. Len(q)
        BY <1>1, <1>2, <2>1, EmptySeq DEF Hangs
    <2>3. prev[q[i]] = IF i = 1 THEN Null ELSE q[i - 1]
        BY <1>1 DEF Back
    <2>4. i # 1 => i - 1 \in 1 .. Len(q)
        BY <1>2
    <2>5. prev[t] = Null <=> i = 1
        BY <1>2, <2>1, <2>3, <2>4
    <2>6. t = start <=> i = 1
        BY <1>1, <2>1, <2>2 DEF Distinct
    <2>7. ASSUME next[t] # Null PROVE prev[next[t]] = t /\ timeout[t] <= timeout[next[t]]
        <3>1. i # Len(q) /\ next[t] = q[i + 1]
            BY <1>1, <2>1, <2>7 DEF Hangs
        <3>2. i + 1 \in 1 .. Len(q) /\ i < i + 1 /\ i + 1 # 1 /\ (i + 1) - 1 = i
            BY <1>2, <3>1
        <3>3. prev[q[i + 1]] = q[(i + 1) - 1]
            BY <1>1, <3>2 DEF Back
        <3>4. timeout[q[i]] <= timeout[q[i + 1]]
            BY <1>1, <3>2 DEF InOrder
        <3> QED BY <2>1, <3>1, <3>2, <3>3, <3>4
    <2> QED BY <2>5, <2>6, <2>7
<1> QED BY <1>1, <1>4, <1>5, <1>6 DEF StructureOK

\* The invariant of the queue: as long as the program cancels only tasks in the batch,
\* but not the one that is popped next, and pending tasks that no deep pointer of
\* another class names, the list reads the same along next and prev and is in order,
\* and the deep pointers name its tasks.
THEOREM Invariance == Cancels \subseteq {"simple", "batched"} => (Spec => []IInv)
<1> SUFFICES ASSUME Cancels \subseteq {"simple", "batched"} PROVE Spec => []IInv
    OBVIOUS
<1>1. Init => IInv
    BY InitOK
<1>2. IInv /\ [Next]_vars => IInv'
    BY StepOK
<1> QED BY <1>1, <1>2, PTL DEF Spec

\* Whatever delays tasks are inserted with, however the clock moves and from
\* whichever deep pointer insertTask walks: next and prev describe one ordered list
\* with the deep pointers in it, deeper for longer delays.
THEOREM Structure == Cancels \subseteq {"simple", "batched"} => (Spec => []StructureOK)
<1> SUFFICES ASSUME Cancels \subseteq {"simple", "batched"} PROVE Spec => []StructureOK
    OBVIOUS
<1>1. Spec => []IInv
    BY Invariance
<1>2. IInv => StructureOK
    BY StructureKept
<1> QED BY <1>1, <1>2, PTL

\* A task that was inserted and neither executed nor cancelled hangs from the queue
\* or from the batch the loop executes.
THEOREM Reachable == Cancels \subseteq {"simple", "batched"} => (Spec => []NothingLost)
<1> SUFFICES ASSUME Cancels \subseteq {"simple", "batched"} PROVE Spec => []NothingLost
    OBVIOUS
<1>1. Spec => []IInv
    BY Invariance
<1>2. IInv => NothingLost
    BY StructureKept
<1> QED BY <1>1, <1>2, PTL

\* A cancelled task is not executed any more.
THEOREM Cancelled == Cancels \subseteq {"simple", "batched"} => (Spec => CancelledNeverRuns)
<1> SUFFICES ASSUME Cancels \subseteq {"simple", "batched"} PROVE Spec => CancelledNeverRuns
    OBVIOUS
<1>1. Spec => []IInv
    BY Invariance
<1>2. IInv /\ [Next]_vars => [\A t \in Task : state[t] = "cancelled" => state'[t] # "executed"]_vars
    BY StepOK
<1> QED BY <1>1, <1>2, PTL DEF Spec, CancelledNeverRuns

\* The queue with its links and deep pointers is the queue of TimerQueue: every
\* insertion puts the task behind those due no later, every cycle takes all that
\* timed out, in order.
THEOREM Implements == Cancels \subseteq {"simple", "batched"} => (Spec => KeepsPromise)
<1> SUFFICES ASSUME Cancels \subseteq {"simple", "batched"} PROVE Spec => KeepsPromise
    OBVIOUS
<1>1. Spec => []IInv
    BY Invariance
<1>2. Init => Promise!Init
    BY InitOK
<1>3. IInv /\ [Next]_vars => [Promise!Next]_(Promise!vars)
    BY StepOK DEF Promise!vars
<1> QED BY <1>1, <1>2, <1>3, PTL DEF Spec, KeepsPromise, Promise!Spec

=============================================================================
