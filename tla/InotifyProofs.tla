---------------------------- MODULE InotifyProofs ----------------------------
(***************************************************************************)
(* What Inotify keeps for every set of paths and files and all bounds: a   *)
(* watcher with paths that were each added once polls, a stopped one does  *)
(* not read a descriptor that is not its own, and events are reported      *)
(* under a path of their file.                                             *)
(*                                                                         *)
(* The inductive invariant has two halves that rest on the types only: the *)
(* chains of timers (ChainsInv), which know of paths no more than their    *)
(* number, and the names of events (NamesInv), which need of the timers    *)
(* only that a closed watcher has no paths.                                *)
(***************************************************************************)
EXTENDS Inotify, FiniteSetTheorems, SequenceTheorems, TLAPS

\* Watches are numbered from 1: 0 is none.
LEMMA Numbers ==
    /\ MaxWd \in Nat /\ MaxStarts \in Nat /\ Wds = 1 .. MaxWd
    /\ 0 \notin Wds /\ \A w \in Wds : w \in Nat /\ w # 0 /\ w < MaxWd + 1
    /\ NoPath \notin Paths /\ \A p \in Paths : Inode[p] \in Inodes
BY PathsAssumption, NumbersAssumption DEF Wds

-----------------------------------------------------------------------------
(* Sequences of events.                                                    *)

\* One event more at the end of the queue.
LEMMA OneMore ==
    ASSUME NEW q \in Seq(Event), NEW e \in Event
    PROVE  /\ q \o <<e>> \in Seq(Event) /\ Append(q, e) = q \o <<e>>
           /\ \A n \in 1 .. Len(q \o <<e>>) :
                  (n \in 1 .. Len(q) /\ (q \o <<e>>)[n] = q[n]) \/ (q \o <<e>>)[n] = e
<1>1. <<e>> \in Seq(Event) /\ Len(<<e>>) = 1 /\ <<e>>[1] = e /\ Len(q) \in Nat
    BY LenProperties
<1>2. /\ q \o <<e>> \in Seq(Event) /\ Len(q \o <<e>>) = Len(q) + 1
      /\ \A n \in 1 .. Len(q) + 1 : (q \o <<e>>)[n] = IF n <= Len(q) THEN q[n] ELSE <<e>>[n - Len(q)]
    BY <1>1, ConcatProperties
<1>3. Append(q, e) = q \o <<e>>
    OBVIOUS
<1> QED BY <1>1, <1>2, <1>3

\* What poll() reads is the front of the queue, and the rest stays.
LEMMA ReadSplits ==
    ASSUME queue \in Seq(Event), Read
    PROVE  /\ events' \in Seq(Event) /\ queue' \in Seq(Event)
           /\ \A n \in 1 .. Len(events') : n \in 1 .. Len(queue) /\ events'[n] = queue[n]
           /\ \A n \in 1 .. Len(queue') : \E m \in 1 .. Len(queue) : queue'[n] = queue[m]
<1> DEFINE k == IF Len(queue) < BufEvents THEN Len(queue) ELSE BufEvents
<1>1. Len(queue) \in Nat /\ k \in 0 .. Len(queue) /\ \A n \in 1 .. Len(queue) : queue[n] \in Event
    BY NumbersAssumption, LenProperties, ElementOfSeq
<1>2. events' = SubSeq(queue, 1, k) /\ queue' = SubSeq(queue, k + 1, Len(queue))
    BY DEF Read
<1> HIDE DEF k
<1>3. /\ SubSeq(queue, 1, k) \in Seq(Event)
      /\ Len(SubSeq(queue, 1, k)) = IF 1 <= k THEN k - 1 + 1 ELSE 0
      /\ \A n \in 1 .. k - 1 + 1 : SubSeq(queue, 1, k)[n] = queue[1 + n - 1]
    <2>1. \A n \in 1 .. k : queue[n] \in Event
        BY <1>1
    <2> QED BY <1>1, <2>1, SubSeqProperties
<1>4. /\ SubSeq(queue, k + 1, Len(queue)) \in Seq(Event)
      /\ Len(SubSeq(queue, k + 1, Len(queue))) = IF k + 1 <= Len(queue) THEN Len(queue) - (k + 1) + 1 ELSE 0
      /\ \A n \in 1 .. Len(queue) - (k + 1) + 1 :
             SubSeq(queue, k + 1, Len(queue))[n] = queue[k + 1 + n - 1]
    <2>1. k + 1 \in Int /\ \A n \in k + 1 .. Len(queue) : queue[n] \in Event
        BY <1>1
    <2> QED BY <1>1, <2>1, SubSeqProperties
<1>5. ASSUME NEW n \in 1 .. Len(events')
      PROVE  n \in 1 .. Len(queue) /\ events'[n] = queue[n]
    BY <1>1, <1>2, <1>3
<1>6. ASSUME NEW n \in 1 .. Len(queue')
      PROVE  \E m \in 1 .. Len(queue) : queue'[n] = queue[m]
    <2>1. k + n \in 1 .. Len(queue) /\ queue'[n] = queue[k + n]
        BY <1>1, <1>2, <1>4
    <2> QED BY <2>1
<1> QED BY <1>2, <1>3, <1>4, <1>5, <1>6

\* The event that is reported is the first, and its return leaves the others.
LEMMA FirstEvent ==
    ASSUME events \in Seq(Event), events # <<>>
    PROVE  /\ 1 \in 1 .. Len(events) /\ Head(events) = events[1] /\ Head(events) \in Event
           /\ Tail(events) \in Seq(Event)
           /\ \A n \in 1 .. Len(Tail(events)) : n + 1 \in 1 .. Len(events) /\ Tail(events)[n] = events[n + 1]
<1>1. Len(events) \in Nat \ {0}
    BY EmptySeq
<1> QED BY <1>1, HeadTailProperties

-----------------------------------------------------------------------------
(* The number of paths.                                                    *)

LEMMA CountWatched ==
    ASSUME TypeOK
    PROVE  /\ IsFiniteSet(Watched) /\ Cardinality(Watched) \in Nat
           /\ Cardinality(Watched) = 0 <=> Watched = {}
BY PathsAssumption, FS_Subset, FS_CardinalityType, FS_EmptySet DEF Watched

\* removePath() takes one path away.
LEMMA CountRemoved ==
    ASSUME TypeOK, NEW p \in Paths, wd[p] # 0, wd' = [wd EXCEPT ![p] = 0]
    PROVE  /\ Watched' = Watched \ {p} /\ Cardinality(Watched)' = Cardinality(Watched) - 1
           /\ Cardinality(Watched) > 0
<1>1. Watched' = Watched \ {p} /\ p \in Watched
    BY DEF Watched, TypeOK
<1> QED BY <1>1, CountWatched, FS_RemoveElement

\* addPath() brings at most one.
LEMMA CountAdded ==
    ASSUME TypeOK, NEW p \in Paths, NEW w \in Wds, wd' = [wd EXCEPT ![p] = w]
    PROVE  Cardinality(Watched)' \in {Cardinality(Watched), Cardinality(Watched) + 1}
<1>1. Watched' = Watched \cup {p}
    BY Numbers DEF Watched, TypeOK
<1> QED BY <1>1, CountWatched, FS_AddElement

-----------------------------------------------------------------------------
(* The types.                                                              *)

\* The watch that addPath() gets is a number of a watch.
LEMMA AddedWatch ==
    ASSUME TypeOK, NEW p \in Paths, AddPath(p)
    PROVE  /\ watch'[Inode[p]] \in Wds /\ wd' = [wd EXCEPT ![p] = watch'[Inode[p]]]
           /\ wdr' = [wdr EXCEPT ![watch'[Inode[p]]] = p]
           /\ watch' = [watch EXCEPT ![Inode[p]] = watch'[Inode[p]]]
           /\ IF watch[Inode[p]] = 0
              THEN watch'[Inode[p]] = nextWd /\ nextWd' = nextWd + 1 /\ nextWd <= MaxWd
              ELSE watch'[Inode[p]] = watch[Inode[p]] /\ nextWd' = nextWd
<1> DEFINE i == Inode[p]
           w == IF watch[i] = 0 THEN nextWd ELSE watch[i]
<1>1. /\ watch' = [watch EXCEPT ![i] = w] /\ wd' = [wd EXCEPT ![p] = w]
      /\ wdr' = [wdr EXCEPT ![w] = p]
      /\ nextWd' = IF watch[i] = 0 THEN nextWd + 1 ELSE nextWd
      /\ watch[i] = 0 => nextWd <= MaxWd
    BY Zenon DEF AddPath, Reverse
<1>2. i \in Inodes /\ watch[i] \in Wds \cup {0} /\ nextWd \in 1 .. MaxWd + 1
    BY Numbers DEF TypeOK
<1>3. w \in Wds
    BY <1>1, <1>2, Numbers
<1>4. watch'[i] = w
    BY <1>1, <1>2 DEF TypeOK
<1> QED BY <1>1, <1>3, <1>4

\* When addPath() sets a timer, and when it notes a chain beside another.
LEMMA AddedTimer ==
    ASSUME TypeOK, NEW p \in Paths, AddPath(p)
    PROVE  /\ wdCount' = wdCount + 1 /\ fd = 1 /\ js # "batch"
           /\ wdCount = 0 => SetTimeout /\ overlap' = (overlap \/ Chains > 0)
           /\ wdCount # 0 => UNCHANGED <<timeout, orphans, overlap>>
           /\ UNCHANGED <<fd, js, events, event, queue, starts, stray, cleared>>
<1>1. /\ wdCount' = wdCount + 1 /\ fd = 1 /\ js # "batch"
      /\ UNCHANGED <<fd, js, events, event, queue, starts, stray, cleared>>
    BY Zenon DEF AddPath, Program, thread
<1>2. wdCount' = 1 <=> wdCount = 0
    BY <1>1 DEF TypeOK
<1>3. wdCount' = 1 => NextTick(TRUE, 1) /\ overlap' = (overlap \/ Chains > 0)
    BY Zenon DEF AddPath
<1>4. wdCount' # 1 => UNCHANGED <<timeout, orphans, overlap>>
    BY Zenon DEF AddPath, timers
<1>5. NextTick(TRUE, 1) => SetTimeout
    BY DEF NextTick, Polls
<1> QED BY <1>1, <1>2, <1>3, <1>4, <1>5, Zenon

LEMMA TypeStep == TypeOK /\ ChainsOK /\ WatchesOK /\ HandlerOK /\ [Next]_vars => TypeOK'
<1> SUFFICES ASSUME TypeOK, ChainsOK, WatchesOK, HandlerOK, [Next]_vars PROVE TypeOK'
    OBVIOUS
<1> USE Numbers
<1>1. ASSUME NEW p \in Paths, AddPath(p) PROVE TypeOK'
    <2> DEFINE w == watch'[Inode[p]]
    <2>0. /\ w \in Wds /\ wd' = [wd EXCEPT ![p] = w] /\ wdr' = [wdr EXCEPT ![w] = p]
          /\ watch' = [watch EXCEPT ![Inode[p]] = w]
          /\ nextWd' = nextWd \/ (nextWd' = nextWd + 1 /\ nextWd <= MaxWd)
        BY <1>1, AddedWatch
    <2> HIDE DEF w
    <2>1. wd' \in [Paths -> Wds \cup {0}] /\ wdr' \in [Wds -> Paths \cup {NoPath}]
        BY <2>0 DEF TypeOK
    <2>2. watch' \in [Inodes -> Wds \cup {0}] /\ nextWd' \in 1 .. MaxWd + 1
        BY <2>0 DEF TypeOK
    <2>3. timeout' \in {"none", "pending", "fired"} /\ orphans' \in Nat /\ wdCount' \in Nat
        BY <1>1, AddedTimer DEF TypeOK, SetTimeout
    <2>4. HistoryOK'
        BY <1>1, AddedTimer, Zenon DEF TypeOK, HistoryOK
    <2>5. UNCHANGED <<fd, js, events, event, queue, starts>>
        BY <1>1, AddedTimer
    <2> QED BY <2>1, <2>2, <2>3, <2>4, <2>5 DEF TypeOK
<1>2. ASSUME NEW p \in Paths, RemovePath(p) PROVE TypeOK'
    <2>1. wdCount' \in Nat
        <3>1. Cardinality(Watched) > 0 /\ Cardinality(Watched) \in Nat
            BY <1>2, CountRemoved, CountWatched DEF RemovePath
        <3> QED BY <1>2, <3>1 DEF RemovePath, TypeOK, ChainsOK
    <2>2. wd[p] \in Wds /\ fd = 1
        BY <1>2 DEF RemovePath, TypeOK, ChainsOK, Watched
    <2>3. queue' \in Seq(Event)
        <3>1. CASE Owner(wd[p]) = {}
            BY <1>2, <3>1, ConcatEmptySeq DEF RemovePath, Ignored, TypeOK
        <3>2. CASE Owner(wd[p]) # {}
            <4> DEFINE e == [wd |-> wd[p], inode |-> CHOOSE i \in Owner(wd[p]) : TRUE, instance |-> starts]
            <4>1. (CHOOSE i \in Owner(wd[p]) : TRUE) \in Inodes
                BY <3>2 DEF Owner
            <4>2. starts \in 1 .. MaxStarts
                BY <2>2 DEF TypeOK
            <4>3. e \in Event
                BY <2>2, <4>1, <4>2 DEF Event
            <4>4. queue' = queue \o <<e>>
                BY <1>2, <3>2 DEF RemovePath, Ignored
            <4> QED BY <4>3, <4>4, OneMore DEF TypeOK
        <3> QED BY <3>1, <3>2
    <2>4. watch' \in [Inodes -> Wds \cup {0}] /\ wd' \in [Paths -> Wds \cup {0}]
        BY <1>2 DEF RemovePath, Unwatch, TypeOK
    <2>5. wdr' \in [Wds -> Paths \cup {NoPath}]
        BY <1>2, <2>2 DEF RemovePath, TypeOK
    <2> QED BY <1>2, <2>1, <2>3, <2>4, <2>5 DEF RemovePath, TypeOK, HistoryOK, timers, thread, history
<1>3. CASE Start
    <2>1. starts' \in 0 .. MaxStarts /\ starts' > 0
        BY <1>3 DEF Start, TypeOK
    <2>2. watch' \in [Inodes -> Wds \cup {0}] /\ nextWd' \in 1 .. MaxWd + 1 /\ queue' \in Seq(Event)
        BY <1>3 DEF Start
    <2> QED BY <1>3, <2>1, <2>2 DEF Start, TypeOK, HistoryOK, timers, thread, history
<1>4. CASE StartFails
    BY <1>4 DEF StartFails, TypeOK, HistoryOK, timers, thread, kernel, history
<1>5. CASE Stop
    <2>1. wdCount' \in Nat
        BY <1>5, CountWatched DEF Stop, TypeOK, ChainsOK
    <2>2. wd' \in [Paths -> Wds \cup {0}] /\ wdr' \in [Wds -> Paths \cup {NoPath}]
        BY <1>5 DEF Stop, TypeOK
    <2>3. watch' \in [Inodes -> Wds \cup {0}] /\ queue' \in Seq(Event)
        BY <1>5 DEF Stop
    <2>4. HistoryOK'
        BY <1>5, Zenon DEF Stop, TypeOK, HistoryOK
    <2> QED BY <1>5, <2>1, <2>2, <2>3, <2>4 DEF Stop, StopTimer, TypeOK, thread
<1>6. CASE Poll
    <2>1. events' \in Seq(Event) /\ queue' \in Seq(Event)
        <3>1. events \in Seq(Event) /\ queue \in Seq(Event) /\ <<>> \in Seq(Event)
            BY DEF TypeOK
        <3>2. Read \/ (events' = <<>> /\ queue' = queue)
            BY <1>6, Zenon DEF Poll
        <3> QED BY <3>1, <3>2, ReadSplits
    <2>2. timeout' \in {"none", "pending", "fired"} /\ orphans' \in Nat
        BY <1>6 DEF Poll, TypeOK
    <2>3. HistoryOK'
        BY <1>6, Zenon DEF Poll, TypeOK, HistoryOK
    <2> QED BY <1>6, <2>1, <2>2, <2>3 DEF Poll, TypeOK, object
<1>7. CASE Report
    <2>1. Head(events).wd \in Wds
        BY <1>7, FirstEvent DEF Report, TypeOK, Event
    <2>2. event' \in [wd : Wds \cup {0}, path : Paths \cup {NoPath}]
        BY <1>7, <2>1 DEF Report, Unpacked, Silent, TypeOK
    <2> QED BY <1>7, <2>2 DEF Report, TypeOK, HistoryOK, object, timers, kernel, history
<1>8. CASE HandlerReturns
    <2>1. events' \in Seq(Event)
        <3>1. events \in Seq(Event) /\ events # <<>> /\ events' = Tail(events)
            BY <1>8 DEF HandlerReturns, TypeOK, HandlerOK
        <3> QED BY <3>1, FirstEvent
    <2>2. event' \in [wd : Wds \cup {0}, path : Paths \cup {NoPath}]
        BY <1>8 DEF HandlerReturns, Silent
    <2> QED BY <1>8, <2>1, <2>2
            DEF HandlerReturns, TypeOK, HistoryOK, object, timers, kernel, history
<1>9. CASE PollEnds
    <2>1. timeout' \in {"none", "pending", "fired"} /\ orphans' \in Nat
        BY <1>9 DEF PollEnds, NextTick, SetTimeout, TypeOK, timers
    <2> QED BY <1>9, <2>1 DEF PollEnds, TypeOK, HistoryOK, object, kernel, history
<1>10. ASSUME NEW i \in Inodes, Change(i) \/ Delete(i) PROVE TypeOK'
    <2>1. fd = 1 /\ ChangeOf(i) \in Event
        <3>1. watch[i] \in Wds
            BY <1>10 DEF Change, Delete, TypeOK
        <3>2. fd = 1
            BY <1>10, <3>1 DEF Change, Delete, WatchesOK
        <3> QED BY <3>1, <3>2 DEF ChangeOf, Event, TypeOK
    <2>2. queue' \in Seq(Event)
        <3>1. queue \in Seq(Event) /\ queue' = Append(queue, ChangeOf(i))
            BY <1>10 DEF Change, Delete, TypeOK
        <3> QED BY <2>1, <3>1, OneMore
    <2>3. watch' \in [Inodes -> Wds \cup {0}]
        BY <1>10 DEF Change, Delete, TypeOK, kernel
    <2>4. UNCHANGED <<object, timers, thread, nextWd, starts, history>>
        BY <1>10 DEF Change, Delete
    <2> QED BY <2>2, <2>3, <2>4 DEF TypeOK, HistoryOK, object, timers, thread, history
<1>11. CASE UNCHANGED vars
    BY <1>11 DEF vars, TypeOK, HistoryOK, object, timers, thread, kernel, history
<1> QED
    BY <1>1, <1>2, <1>3, <1>4, <1>5, <1>6, <1>7, <1>8, <1>9, <1>10, <1>11 DEF Next, Loop

-----------------------------------------------------------------------------
(* The chains of timers.                                                   *)

\* A timer that is pending is a chain, and so is a poll.
LEMMA SomeChain ==
    ASSUME orphans' \in Nat, timeout' = "pending" \/ js' # "idle"
    PROVE  Chains' > 0
<1>1. \A n \in Nat : \A a, b \in {0, 1} : n + 1 + b > 0 /\ n + a + 1 > 0
    OBVIOUS
<1> QED BY <1>1 DEF Chains

\* What the chains rest on besides fd, paths and their count: the actions that
\* change none of the timers and do not begin to count keep ChainsInv.
LEMMA SameTimers ==
    ASSUME ChainsInv, UNCHANGED <<timeout, orphans, overlap, stray, cleared>>,
           Chains > 0 => Chains' > 0, fd' = 0 => fd = 0,
           js' # "idle" => js # "idle",
           fd' # 1 => Watched' = {}, Cardinality(Watched)' <= wdCount',
           fd' = 1 /\ CountedOnce' /\ wdCount' > 0 => fd = 1 /\ CountedOnce /\ wdCount > 0
    PROVE  ChainsInv'
BY DEF ChainsInv, ChainsOK, PollsWhileWatching, NoStrayRead

LEMMA ChainsStep == TypeOK /\ ChainsInv /\ [Next]_vars => ChainsInv'
<1> SUFFICES ASSUME TypeOK, ChainsInv, [Next]_vars PROVE ChainsInv'
    OBVIOUS
<1>0. Cardinality(Watched) \in Nat /\ wdCount \in Nat /\ orphans \in Nat
    BY CountWatched DEF TypeOK
<1>1. ASSUME NEW p \in Paths, AddPath(p) PROVE ChainsInv'
    <2>1. /\ wdCount' = wdCount + 1 /\ fd = 1 /\ js # "batch"
          /\ wdCount = 0 => SetTimeout /\ overlap' = (overlap \/ Chains > 0)
          /\ wdCount # 0 => UNCHANGED <<timeout, orphans, overlap>>
          /\ UNCHANGED <<fd, js, events, event, queue, starts, stray, cleared>>
        BY <1>1, AddedTimer
    <2>2. Cardinality(Watched)' \in {Cardinality(Watched), Cardinality(Watched) + 1}
        BY <1>1, AddedWatch, CountAdded
    <2>3. Cardinality(Watched) <= wdCount
        BY DEF ChainsInv, ChainsOK
    <2>4. CASE wdCount = 0
        <3>1. ~overlap' => ~overlap /\ ~(Chains > 0)
            BY <2>1, <2>4, Zenon
        <3>2. overlap => overlap'
            BY <2>1, <2>4, Zenon
        <3>3. ~(Chains > 0) => orphans = 0 /\ timeout # "pending" /\ js = "idle"
            BY <1>0 DEF Chains
        <3>4. orphans' = 0 \/ overlap'
            BY <2>1, <2>4, <3>1, <3>3 DEF SetTimeout
        <3>5. ChainsOK'
            BY <1>0, <2>1, <2>2, <2>3, <3>1, <3>3, <3>4 DEF ChainsOK
        <3>6. PollsWhileWatching'
            <4>1. timeout' = "pending" /\ orphans' \in Nat
                BY <1>0, <2>1, <2>4 DEF SetTimeout
            <4> QED BY <4>1, SomeChain DEF PollsWhileWatching
        <3>7. NoStrayRead'
            BY <2>1, <3>2 DEF ChainsInv, NoStrayRead
        <3> QED BY <3>5, <3>6, <3>7 DEF ChainsInv
    <2>5. CASE wdCount # 0
        <3>1. CountedOnce' => CountedOnce
            BY <1>0, <2>1, <2>2, <2>3 DEF CountedOnce
        <3>2. Chains' = Chains
            BY <2>1, <2>5 DEF Chains
        <3>3. Cardinality(Watched)' <= wdCount'
            BY <1>0, <2>1, <2>2, <2>3
        <3> QED BY <1>0, <2>1, <2>5, <3>1, <3>2, <3>3, SameTimers
    <2> QED BY <2>4, <2>5
<1>2. ASSUME NEW p \in Paths, RemovePath(p) PROVE ChainsInv'
    <2>1. /\ wdCount' = wdCount - 1
          /\ UNCHANGED <<fd, timeout, orphans, js, overlap, stray, cleared>>
        BY <1>2 DEF RemovePath, timers, thread, history
    <2>2. /\ Watched' = Watched \ {p} /\ Cardinality(Watched)' = Cardinality(Watched) - 1
          /\ Cardinality(Watched) > 0
        BY <1>2, CountRemoved DEF RemovePath
    <2>3. Cardinality(Watched) <= wdCount /\ (fd # 1 => Watched = {})
        BY DEF ChainsInv, ChainsOK
    <2>4. Chains' = Chains
        BY <2>1 DEF Chains
    <2>5. CountedOnce' => CountedOnce
        BY <1>0, <2>1, <2>2 DEF CountedOnce
    <2>6. Cardinality(Watched)' <= wdCount' /\ wdCount > 0
        BY <1>0, <2>1, <2>2, <2>3
    <2> QED BY <2>1, <2>2, <2>3, <2>4, <2>5, <2>6, SameTimers
<1>3. CASE Start
    <2>1. fd # 1 /\ fd' = 1 /\ UNCHANGED <<wd, wdCount, timeout, orphans, js, overlap, stray, cleared>>
        BY <1>3 DEF Start, timers, thread, history
    <2>2. Watched' = Watched /\ Chains' = Chains
        BY <2>1 DEF Watched, Chains
    <2>3. Watched = {} /\ Cardinality(Watched) <= wdCount
        BY <2>1 DEF ChainsInv, ChainsOK
    <2>4. ~(CountedOnce' /\ wdCount' > 0)
        BY <2>1, <2>2, <2>3, FS_EmptySet DEF CountedOnce
    <2> QED BY <2>1, <2>2, <2>3, <2>4, SameTimers
<1>4. CASE StartFails
    <2>1. fd # 1 /\ fd' = -1 /\ UNCHANGED <<wd, wdCount, timeout, orphans, js, overlap, stray, cleared>>
        BY <1>4 DEF StartFails, timers, thread, history
    <2>2. Watched' = Watched /\ Chains' = Chains
        BY <2>1 DEF Watched, Chains
    <2>3. Watched = {} /\ Cardinality(Watched) <= wdCount
        BY <2>1 DEF ChainsInv, ChainsOK
    <2> QED BY <2>1, <2>2, <2>3, SameTimers
<1>5. CASE Stop
    <2>1. /\ fd' = 0 /\ timeout' = "none" /\ wdCount' = wdCount - Cardinality(Watched)
          /\ UNCHANGED <<orphans, js, overlap, stray>>
        BY <1>5 DEF Stop, StopTimer, thread
    <2>2. Watched' = {} /\ Cardinality(Watched)' = 0
        BY <1>5, FS_EmptySet DEF Stop, Watched
    <2>3. ChainsOK'
        BY <1>0, <2>1, <2>2 DEF ChainsInv, ChainsOK
    <2> QED BY <2>1, <2>3 DEF ChainsInv, PollsWhileWatching, NoStrayRead
<1>6. CASE Poll
    <2>1. /\ js = "idle" /\ js' = "batch" /\ UNCHANGED <<fd, wd, wdCount, overlap>>
          /\ \/ timeout = "pending" /\ timeout' = "fired" /\ orphans' = orphans
             \/ orphans > 0 /\ orphans' = orphans - 1 /\ timeout' = timeout
          /\ stray' = (stray \/ fd = 0)
        BY <1>6, Zenon DEF Poll, object
    <2>2. Watched' = Watched
        BY <2>1 DEF Watched
    <2>3. ChainsOK'
        BY <1>0, <2>1, <2>2 DEF ChainsInv, ChainsOK
    <2>4. PollsWhileWatching'
        <3>1. orphans' \in Nat
            BY <1>0, <2>1
        <3> QED BY <2>1, <3>1, SomeChain DEF PollsWhileWatching
    <2>5. NoStrayRead'
        <3>1. fd = 0 => overlap
            BY <1>0, <2>1 DEF ChainsInv, ChainsOK
        <3> QED BY <2>1, <3>1, Zenon DEF ChainsInv, NoStrayRead
    <2> QED BY <2>3, <2>4, <2>5 DEF ChainsInv
<1>7. CASE Report \/ HandlerReturns
    <2>1. /\ js # "idle" /\ js' # "idle"
          /\ UNCHANGED <<fd, wd, wdCount, timeout, orphans, overlap, stray, cleared>>
        BY <1>7 DEF Report, HandlerReturns, object, timers, history
    <2>2. Watched' = Watched /\ Chains' = Chains
        BY <2>1 DEF Watched, Chains
    <2>3. /\ CountedOnce' <=> CountedOnce
          /\ fd # 1 => Watched = {}
          /\ Cardinality(Watched) <= wdCount
        BY <2>1, <2>2 DEF CountedOnce, ChainsInv, ChainsOK
    <2> QED BY <2>1, <2>2, <2>3, SameTimers
<1>8. CASE PollEnds
    <2>1. /\ js = "batch" /\ js' = "idle" /\ NextTick(fd # 0, wdCount)
          /\ UNCHANGED <<fd, wd, wdCount, overlap, stray, cleared>>
        BY <1>8 DEF PollEnds, object, history
    <2>2. Watched' = Watched
        BY <2>1 DEF Watched
    <2>3. \/ fd # 0 /\ SetTimeout
          \/ ~(fd # 0 /\ wdCount # 0) /\ UNCHANGED <<timeout, orphans>>
        BY <2>1 DEF NextTick, Polls, timers
    <2>4. ChainsOK'
        BY <1>0, <2>1, <2>2, <2>3 DEF ChainsInv, ChainsOK, SetTimeout
    <2>5. PollsWhileWatching'
        BY <1>0, <2>1, <2>3 DEF PollsWhileWatching, Chains, SetTimeout
    <2>6. NoStrayRead'
        BY <2>1 DEF ChainsInv, NoStrayRead
    <2> QED BY <2>4, <2>5, <2>6 DEF ChainsInv
<1>9. ASSUME NEW i \in Inodes, Change(i) \/ Delete(i) PROVE ChainsInv'
    <2>1. UNCHANGED <<object, timers, thread, history>>
        BY <1>9 DEF Change, Delete
    <2> QED BY <2>1 DEF object, timers, thread, history, ChainsInv, ChainsOK, PollsWhileWatching,
               NoStrayRead, CountedOnce, Watched, Chains
<1>10. CASE UNCHANGED vars
    BY <1>10 DEF vars, object, timers, thread, history, ChainsInv, ChainsOK, PollsWhileWatching,
               NoStrayRead, CountedOnce, Watched, Chains
<1> QED
    BY <1>1, <1>2, <1>3, <1>4, <1>5, <1>6, <1>7, <1>8, <1>9, <1>10 DEF Next, Loop

-----------------------------------------------------------------------------
(* The names of events.                                                    *)

\* What every element of a sequence of events has, each of the two has.
LEMMA Elements ==
    ASSUME TypeOK
    PROVE  /\ \A n \in 1 .. Len(queue) : queue[n] \in Event
           /\ \A n \in 1 .. Len(events) : events[n] \in Event
BY ElementOfSeq DEF TypeOK

\* If an action leaves the sequences alone, what it keeps of every event it keeps
\* of those.
LEMMA SameEvents ==
    ASSUME TypeOK, EventsOK, UNCHANGED <<queue, events, starts>>,
           \A e \in Event : OfFile(e) => OfFile(e)'
    PROVE  EventsOK'
BY Elements DEF EventsOK, OfFile

\* The event that is reported keeps its name, if no path and no file comes to
\* its watch.
LEMMA SameHandler ==
    ASSUME TypeOK, HandlerOK, EventsNamed, UNCHANGED <<js, event, events, starts>>,
           js = "handler" /\ Head(events).instance = starts /\ event.path = NoPath =>
               /\ \A p \in Paths : wd'[p] = event.wd => wd[p] = event.wd
               /\ \A i \in Inodes : watch'[i] = event.wd => watch[i] = event.wd
    PROVE  HandlerOK' /\ EventsNamed'
BY DEF HandlerOK, EventsNamed

\* Between two events there is nothing to name.
LEMMA NoHandler == js' # "handler" => HandlerOK' /\ EventsNamed'
BY DEF HandlerOK, EventsNamed

\* The event that is reported has the number of a watch that was given out.
LEMMA ReportedWatch ==
    ASSUME TypeOK, EventsOK, HandlerOK, js = "handler"
    PROVE  /\ 1 \in 1 .. Len(events) /\ Head(events) = events[1] /\ Head(events) \in Event
           /\ events[1].instance <= starts
           /\ Head(events).instance = starts =>
                 event.wd \in Wds /\ events[1].wd = event.wd /\ event.wd < nextWd
<1>1. /\ events \in Seq(Event) /\ events # <<>>
      /\ Head(events).instance = starts => event.wd = Head(events).wd
    BY DEF TypeOK, HandlerOK
<1>2. 1 \in 1 .. Len(events) /\ Head(events) = events[1] /\ Head(events) \in Event
    BY <1>1, FirstEvent
<1> QED BY <1>1, <1>2 DEF EventsOK, OfFile, Event

\* An unchanged object and kernel keep what is said of watches and of events.
LEMMA SameWatches ==
    ASSUME WatchesOK, UNCHANGED <<wd, wdr, watch, nextWd, queue>>, fd' # 1 => fd # 1
    PROVE  WatchesOK'
BY DEF WatchesOK

LEMMA AddNames ==
    ASSUME TypeOK, NamesInv, NEW p \in Paths, AddPath(p)
    PROVE  NamesInv'
<1> DEFINE i == Inode[p]
           w == watch'[Inode[p]]
<1>1. /\ w \in Wds /\ w \in Nat /\ w # 0 /\ i \in Inodes
      /\ wd' = [wd EXCEPT ![p] = w] /\ wdr' = [wdr EXCEPT ![w] = p]
      /\ watch' = [watch EXCEPT ![i] = w]
      /\ \/ watch[i] = 0 /\ w = nextWd /\ nextWd' = nextWd + 1
         \/ watch[i] # 0 /\ w = watch[i] /\ nextWd' = nextWd
    BY AddedWatch, Numbers
<1>2. UNCHANGED <<fd, js, events, event, queue, starts>> /\ fd = 1
    BY AddedTimer
<1> HIDE DEF w
<1>3. /\ \A q \in Paths : wd'[q] = IF q = p THEN w ELSE wd[q]
      /\ \A u \in Wds : wdr'[u] = IF u = w THEN p ELSE wdr[u]
      /\ \A j \in Inodes : watch'[j] = IF j = i THEN w ELSE watch[j]
    BY <1>1 DEF TypeOK
<1>4. /\ nextWd \in Nat /\ (nextWd < nextWd' \/ nextWd = nextWd')
      /\ \A j \in Inodes : watch[j] \in Nat /\ (watch[j] # 0 => watch[j] \in Wds /\ watch[j] < nextWd)
      /\ \A q \in Paths : wd[q] \in Nat /\ (wd[q] # 0 => wd[q] \in Wds /\ wd[q] < nextWd)
    BY <1>1, Numbers DEF TypeOK, NamesInv, WatchesOK
<1>5. \A j \in Inodes : watch[j] = w => j = i
    BY <1>1, <1>4 DEF NamesInv, WatchesOK
<1>6. \A q \in Paths : wd[q] = w => Inode[q] = i
    BY <1>1, <1>4 DEF NamesInv, WatchesOK
<1>7. WatchesOK'
    <2>1. ASSUME NEW j \in Inodes, watch'[j] # 0
          PROVE  /\ watch'[j] < nextWd' /\ wdr'[watch'[j]] # NoPath
                 /\ \A k \in Inodes : watch'[k] = watch'[j] => k = j
                 /\ Inode[wdr'[watch'[j]]] = j
        <3>1. CASE j = i
            BY <1>1, <1>3, <1>4, <1>5, <3>1, Numbers
        <3>2. CASE j # i
            <4>1. watch'[j] = watch[j] /\ watch[j] \in Wds /\ watch[j] # w
                BY <1>3, <1>4, <1>5, <2>1, <3>2
            <4> QED BY <1>1, <1>3, <1>4, <2>1, <3>2, <4>1 DEF NamesInv, WatchesOK
        <3> QED BY <3>1, <3>2
    <2>2. ASSUME NEW q \in Paths, wd'[q] # 0
          PROVE  /\ wd'[q] < nextWd'
                 /\ \A j \in Inodes : watch'[j] = wd'[q] => Inode[q] = j
                 /\ wdr'[wd'[q]] # NoPath => Inode[wdr'[wd'[q]]] = Inode[q]
                 /\ wdr'[wd'[q]] = NoPath => \E r \in Paths \ {q} : Inode[r] = Inode[q]
                 /\ \A r \in Paths : wd'[r] = wd'[q] => Inode[r] = Inode[q]
        <3>1. CASE wd'[q] = w
            <4>1. Inode[q] = i /\ wdr'[w] = p /\ p # NoPath /\ w < nextWd'
                BY <1>1, <1>3, <1>4, <1>6, <3>1, Numbers
            <4> QED BY <1>1, <1>3, <1>5, <1>6, <3>1, <4>1
        <3>2. CASE wd'[q] # w
            <4>1. wd'[q] = wd[q] /\ wd[q] \in Wds /\ wdr'[wd[q]] = wdr[wd[q]]
                BY <1>3, <1>4, <2>2, <3>2
            <4> QED BY <1>1, <1>3, <1>4, <2>2, <3>2, <4>1 DEF NamesInv, WatchesOK
        <3> QED BY <3>1, <3>2
    <2> QED BY <1>2, <2>1, <2>2 DEF WatchesOK
<1>8. EventsOK'
    <2>1. ASSUME NEW e \in Event, OfFile(e), e.instance = starts'
          PROVE  /\ e.wd < nextWd'
                 /\ wdr'[e.wd] # NoPath => Inode[wdr'[e.wd]] = e.inode
                 /\ \A j \in Inodes : watch'[j] = e.wd => j = e.inode
                 /\ \A q \in Paths : wd'[q] = e.wd => Inode[q] = e.inode
        <3>1. e.wd \in Wds /\ e.wd \in Nat /\ e.wd < nextWd /\ starts' = starts
            BY <1>2, <2>1, Numbers DEF Event, OfFile
        <3>2. e.wd = w => i = e.inode
            BY <1>1, <1>4, <2>1, <3>1 DEF OfFile
        <3> QED BY <1>1, <1>3, <1>4, <2>1, <3>1, <3>2 DEF OfFile
    <2> QED BY <1>2, <2>1, SameEvents DEF NamesInv, OfFile
<1>9. HandlerOK' /\ EventsNamed'
    <2>1. ASSUME js = "handler", Head(events).instance = starts, event.path = NoPath
          PROVE  w # event.wd
        BY <1>1, <1>4, <2>1, ReportedWatch DEF NamesInv, HandlerOK
    <2> QED BY <1>2, <1>3, <2>1, SameHandler DEF NamesInv
<1> QED BY <1>7, <1>8, <1>9 DEF NamesInv

LEMMA RemoveNames ==
    ASSUME TypeOK, ChainsOK, NamesInv, NEW p \in Paths, RemovePath(p)
    PROVE  NamesInv'
<1> DEFINE w == wd[p]
<1>1. /\ w # 0 /\ fd = 1 /\ fd' = 1 /\ UNCHANGED <<js, event, events, starts, nextWd>>
      /\ queue' = queue \o Ignored(w) /\ Program
    BY DEF RemovePath, timers, thread, ChainsOK, Watched, TypeOK
<1>2. w \in Wds /\ w < nextWd
    BY <1>1 DEF TypeOK, NamesInv, WatchesOK
<1>3. /\ \A q \in Paths : wd'[q] = IF q = p THEN 0 ELSE wd[q]
      /\ \A u \in Wds : wdr'[u] = IF u = w THEN NoPath ELSE wdr[u]
      /\ \A j \in Inodes : watch'[j] = IF watch[j] = w THEN 0 ELSE watch[j]
    BY <1>2 DEF RemovePath, Unwatch, TypeOK
<1>4. /\ \A j \in Inodes : watch[j] # 0 => watch[j] \in Wds
      /\ \A q \in Paths : wd[q] # 0 => wd[q] \in Wds
    BY DEF TypeOK
<1> HIDE DEF w
<1>5. \A q \in Paths : wd[q] = w => Inode[q] = Inode[p]
    BY <1>1 DEF w, NamesInv, WatchesOK
<1>6. WatchesOK'
    <2>1. ASSUME NEW j \in Inodes, watch'[j] # 0
          PROVE  /\ watch'[j] < nextWd' /\ wdr'[watch'[j]] # NoPath
                 /\ \A k \in Inodes : watch'[k] = watch'[j] => k = j
                 /\ Inode[wdr'[watch'[j]]] = j
        <3>1. watch'[j] = watch[j] /\ watch[j] # w /\ wdr'[watch[j]] = wdr[watch[j]]
            BY <1>3, <1>4, <2>1
        <3>2. \A k \in Inodes : watch'[k] = watch[j] => watch[k] = watch[j]
            BY <1>3, <2>1, <3>1
        <3> QED BY <1>1, <2>1, <3>1, <3>2 DEF NamesInv, WatchesOK
    <2>2. ASSUME NEW q \in Paths, wd'[q] # 0
          PROVE  /\ wd'[q] < nextWd'
                 /\ \A j \in Inodes : watch'[j] = wd'[q] => Inode[q] = j
                 /\ wdr'[wd'[q]] # NoPath => Inode[wdr'[wd'[q]]] = Inode[q]
                 /\ wdr'[wd'[q]] = NoPath => \E r \in Paths \ {q} : Inode[r] = Inode[q]
                 /\ \A r \in Paths : wd'[r] = wd'[q] => Inode[r] = Inode[q]
        <3>1. q # p /\ wd'[q] = wd[q] /\ wd[q] # 0 /\ wd[q] \in Wds
            BY <1>3, <1>4, <2>2
        <3>2. \A r \in Paths : wd'[r] = wd'[q] => wd[r] = wd[q]
            BY <1>3, <2>2, <3>1
        <3>3. \A j \in Inodes : watch'[j] = wd'[q] => watch[j] = wd[q]
            BY <1>3, <3>1
        <3>4. CASE wd[q] = w
            <4>1. Inode[p] = Inode[q] /\ p \in Paths \ {q} /\ wdr'[w] = NoPath
                BY <1>2, <1>3, <1>5, <3>1, <3>4
            <4> QED BY <1>1, <3>1, <3>2, <3>3, <3>4, <4>1 DEF NamesInv, WatchesOK
        <3>5. CASE wd[q] # w
            <4>1. wdr'[wd[q]] = wdr[wd[q]]
                BY <1>3, <3>1, <3>5
            <4> QED BY <1>1, <3>1, <3>2, <3>3, <4>1 DEF NamesInv, WatchesOK
        <3> QED BY <3>4, <3>5
    <2> QED BY <1>1, <2>1, <2>2 DEF WatchesOK
<1>7. ASSUME NEW e \in Event,
             \/ OfFile(e)
             \/ e.wd = w /\ \E j \in Inodes : e.inode = j /\ watch[j] = w
      PROVE  OfFile(e)'
    <2>1. ASSUME e.instance = starts'
          PROVE  /\ e.wd < nextWd'
                 /\ wdr'[e.wd] # NoPath => Inode[wdr'[e.wd]] = e.inode
                 /\ \A j \in Inodes : watch'[j] = e.wd => j = e.inode
                 /\ \A q \in Paths : wd'[q] = e.wd => Inode[q] = e.inode
        <3>1. e.wd \in Wds /\ e.wd # 0 /\ e.instance = starts
            BY <1>1, <2>1, Numbers DEF Event
        <3>2. CASE OfFile(e)
            BY <1>1, <1>3, <3>1, <3>2 DEF OfFile
        <3>3. CASE e.wd = w /\ \E j \in Inodes : e.inode = j /\ watch[j] = w
            <4>1. wdr'[e.wd] = NoPath /\ \A j \in Inodes : watch'[j] # e.wd
                BY <1>3, <3>1, <3>3
            <4>2. \A q \in Paths : wd'[q] = e.wd => Inode[q] = e.inode
                BY <1>3, <3>1, <3>3 DEF NamesInv, WatchesOK
            <4> QED BY <1>1, <1>2, <3>3, <4>1, <4>2
        <3> QED BY <1>7, <3>2, <3>3
    <2> QED BY <2>1 DEF OfFile
<1>8. EventsOK'
    <2>1. \A n \in 1 .. Len(events) : OfFile(events[n]) /\ events[n].instance <= starts
        BY DEF NamesInv, EventsOK
    <2>2. \A n \in 1 .. Len(queue) : OfFile(queue[n]) /\ queue[n].instance = starts
        BY DEF NamesInv, EventsOK
    <2>3. ASSUME NEW n \in 1 .. Len(events') PROVE OfFile(events[n])' /\ events'[n].instance <= starts'
        BY <1>1, <1>7, <2>1, <2>3, Elements DEF OfFile
    <2>4. ASSUME NEW n \in 1 .. Len(queue') PROVE OfFile(queue[n])' /\ queue'[n].instance = starts'
        <3>1. CASE Owner(w) = {}
            <4>1. queue' = queue
                BY <1>1, <3>1, ConcatEmptySeq DEF Ignored, TypeOK
            <4> QED BY <1>1, <1>7, <2>2, <4>1, Elements DEF OfFile
        <3>2. CASE Owner(w) # {}
            <4> DEFINE e == [wd |-> w, inode |-> CHOOSE i \in Owner(w) : TRUE, instance |-> starts]
            <4>1. (CHOOSE i \in Owner(w) : TRUE) \in Owner(w)
                BY <3>2
            <4>2. e.inode \in Inodes /\ watch[e.inode] = w /\ e.wd = w /\ e.instance = starts
                BY <4>1 DEF Owner
            <4>3. e \in Event
                BY <1>1, <1>2, <4>2 DEF Event, TypeOK
            <4>4. queue' = queue \o <<e>>
                BY <1>1, <3>2 DEF Ignored
            <4> HIDE DEF e
            <4>5. (n \in 1 .. Len(queue) /\ queue'[n] = queue[n]) \/ queue'[n] = e
                BY <2>4, <4>3, <4>4, OneMore DEF TypeOK
            <4>6. CASE n \in 1 .. Len(queue) /\ queue'[n] = queue[n]
                BY <1>1, <1>7, <2>2, <4>6, Elements DEF OfFile
            <4>7. CASE queue'[n] = e
                BY <1>1, <1>7, <4>2, <4>3, <4>7 DEF OfFile
            <4> QED BY <4>5, <4>6, <4>7
        <3> QED BY <3>1, <3>2
    <2> QED BY <2>3, <2>4 DEF EventsOK
<1>9. HandlerOK' /\ EventsNamed'
    <2>1. ASSUME js = "handler", Head(events).instance = starts
          PROVE  /\ \A q \in Paths : wd'[q] = event.wd => wd[q] = event.wd
                 /\ \A j \in Inodes : watch'[j] = event.wd => watch[j] = event.wd
        <3>1. event.wd # 0
            BY <2>1, ReportedWatch, Numbers DEF NamesInv
        <3> QED BY <1>3, <3>1
    <2> QED BY <1>1, <2>1, SameHandler DEF NamesInv
<1> QED BY <1>6, <1>8, <1>9 DEF NamesInv

\* An instance of the kernel's that begins or ends has no watches and no events:
\* events of the former one are not of this.
LEMMA EmptyNames ==
    ASSUME TypeOK, ChainsOK, NamesInv, Start \/ Stop
    PROVE  NamesInv'
<1>1. /\ queue' = <<>> /\ \A i \in Inodes : watch'[i] = 0
      /\ UNCHANGED <<js, event, events>>
    BY DEF Start, Stop, thread
<1>2. \A p \in Paths : wd'[p] = 0
    BY DEF Start, Stop, ChainsOK, Watched
<1>3. \/ starts' = starts + 1
      \/ /\ starts' = starts /\ nextWd' = nextWd
         /\ \A u \in Wds : wdr'[u] \in {NoPath, wdr[u]}
    BY DEF Start, Stop
<1>4. starts \in Nat
    BY Numbers DEF TypeOK
<1>5. WatchesOK'
    BY <1>1, <1>2 DEF WatchesOK
<1>6. EventsOK'
    <2>1. ASSUME NEW n \in 1 .. Len(events)
          PROVE  OfFile(events[n])' /\ events'[n].instance <= starts'
        <3>1. events[n] \in Event /\ OfFile(events[n]) /\ events[n].instance <= starts /\ events'[n] = events[n]
            BY <1>1, Elements DEF NamesInv, EventsOK
        <3>2. events[n].wd \in Wds /\ events[n].wd # 0 /\ events[n].instance \in Nat
            BY <3>1, Numbers DEF Event
        <3>3. events'[n].instance <= starts'
            BY <1>3, <1>4, <3>1, <3>2
        <3>4. OfFile(events[n])'
            <4>1. CASE starts' = starts + 1
                BY <1>4, <3>1, <3>2, <4>1 DEF OfFile
            <4>2. CASE starts' = starts
                BY <1>1, <1>2, <1>3, <1>4, <3>1, <3>2, <4>2 DEF OfFile
            <4> QED BY <1>3, <4>1, <4>2
        <3> QED BY <3>3, <3>4
    <2>2. Len(queue') = 0
        BY <1>1
    <2> QED BY <1>1, <2>1, <2>2 DEF EventsOK
<1>7. HandlerOK' /\ EventsNamed'
    <2>1. CASE js # "handler"
        BY <1>1, <2>1, NoHandler
    <2>2. CASE js = "handler"
        <3>1. /\ Head(events).instance <= starts /\ Head(events).instance \in Nat /\ events # <<>>
              /\ Head(events).instance = starts => event.wd # 0 /\ event.wd = Head(events).wd
            BY <2>2, ReportedWatch, Numbers DEF NamesInv, HandlerOK, Event
        <3>2. Head(events') = Head(events) /\ event' = event /\ events' # <<>>
            BY <1>1, <3>1
        <3>3. CASE starts' = starts + 1
            <4>1. Head(events).instance # starts'
                BY <1>4, <3>1, <3>3
            <4> QED BY <3>2, <4>1 DEF HandlerOK, EventsNamed
        <3>4. CASE starts' = starts
            <4>1. Head(events).instance = starts => \A p \in Paths : wd'[p] # event.wd
                BY <1>2, <3>1
            <4>2. Head(events).instance = starts => \A i \in Inodes : watch'[i] # event.wd
                BY <1>1, <3>1
            <4>3. EventsNamed'
                BY <2>2, <3>2, <3>4, <4>1 DEF NamesInv, EventsNamed
            <4>4. HandlerOK'
                BY <3>1, <3>2, <3>4, <4>2 DEF HandlerOK
            <4> QED BY <4>3, <4>4
        <3> QED BY <1>3, <3>3, <3>4
    <2> QED BY <2>1, <2>2
<1> QED BY <1>5, <1>6, <1>7 DEF NamesInv

\* poll() takes events from the queue: what holds of them there holds of them here.
LEMMA PollNames ==
    ASSUME TypeOK, NamesInv, Poll
    PROVE  NamesInv'
<1>1. /\ js' = "batch" /\ UNCHANGED <<fd, wd, wdr, watch, nextWd, starts>>
      /\ (fd = 1 /\ Read) \/ (fd # 1 /\ events' = <<>> /\ queue' = queue)
    BY Zenon DEF Poll, object
<1>2. \A n \in 1 .. Len(queue) : OfFile(queue[n]) /\ queue[n].instance = starts /\ starts <= starts
    BY Numbers DEF NamesInv, EventsOK, TypeOK
<1>3. CASE fd = 1 /\ Read
    <2>1. /\ \A n \in 1 .. Len(events') : n \in 1 .. Len(queue) /\ events'[n] = queue[n]
          /\ \A n \in 1 .. Len(queue') : \E m \in 1 .. Len(queue) : queue'[n] = queue[m]
        BY <1>3, ReadSplits DEF TypeOK
    <2>2. ASSUME NEW n \in 1 .. Len(events') PROVE OfFile(events[n])' /\ events'[n].instance <= starts'
        BY <1>1, <1>2, <2>1 DEF OfFile
    <2>3. ASSUME NEW n \in 1 .. Len(queue') PROVE OfFile(queue[n])' /\ queue'[n].instance = starts'
        <3>1. PICK m \in 1 .. Len(queue) : queue'[n] = queue[m]
            BY <2>1
        <3> QED BY <1>1, <1>2, <3>1 DEF OfFile
    <2>4. WatchesOK'
        BY <1>1, <1>3 DEF NamesInv, WatchesOK
    <2> QED BY <1>1, <2>2, <2>3, <2>4, NoHandler DEF NamesInv, EventsOK
<1>4. CASE fd # 1 /\ events' = <<>> /\ queue' = queue
    <2>1. EventsOK'
        <3>1. Len(events') = 0
            BY <1>4
        <3> QED BY <1>1, <1>2, <1>4, <3>1 DEF EventsOK, OfFile
    <2> QED BY <1>1, <1>4, <2>1, NoHandler, SameWatches DEF NamesInv
<1> QED BY <1>1, <1>3, <1>4

\* An event gets the name that wdr has for its watch; if it has none, no file has
\* the watch any more.
LEMMA ReportNames ==
    ASSUME TypeOK, NamesInv, Report
    PROVE  NamesInv'
<1>1. /\ events # <<>> /\ event' = Unpacked(Head(events))
      /\ UNCHANGED <<fd, wd, wdr, watch, nextWd, queue, events, starts>>
    BY DEF Report, object, kernel
<1>2. /\ 1 \in 1 .. Len(events) /\ Head(events) = events[1] /\ Head(events) \in Event
    BY <1>1, FirstEvent DEF TypeOK
<1> DEFINE e == Head(events)
<1>3. /\ OfFile(e) /\ e.wd \in Wds /\ e.wd # 0
      /\ e.instance = starts => event'.wd = e.wd /\ event'.path = wdr[e.wd]
    BY <1>1, <1>2, Numbers DEF NamesInv, EventsOK, Event, Unpacked
<1>4. WatchesOK' /\ EventsOK'
    <2>1. \A u \in Event : OfFile(u) => OfFile(u)'
        BY <1>1 DEF OfFile
    <2> QED BY <1>1, <2>1, SameWatches, SameEvents DEF NamesInv
<1> HIDE DEF e
<1>5. Head(events') = e /\ events' # <<>>
    BY <1>1 DEF e
<1>6. HandlerOK'
    <2>1. wdr[e.wd] = NoPath => \A i \in Inodes : watch[i] # e.wd
        BY <1>3 DEF NamesInv, WatchesOK
    <2> QED BY <1>1, <1>3, <1>5, <2>1 DEF HandlerOK
<1>7. EventsNamed'
    <2>1. e.instance = starts /\ wdr[e.wd] # NoPath => Inode[wdr[e.wd]] = e.inode
        BY <1>3 DEF OfFile
    <2>2. wdr[e.wd] = NoPath =>
              \A p \in Paths : wd[p] = e.wd => \E q \in Paths \ {p} : Inode[q] = Inode[p]
        BY <1>3 DEF NamesInv, WatchesOK
    <2> QED BY <1>1, <1>3, <1>5, <2>1, <2>2 DEF EventsNamed
<1> QED BY <1>4, <1>6, <1>7 DEF NamesInv

\* The end of a handler, and of a poll.
LEMMA ReturnNames ==
    ASSUME TypeOK, NamesInv, HandlerReturns \/ PollEnds
    PROVE  NamesInv'
<1>1. /\ js' # "handler" /\ UNCHANGED <<fd, wd, wdr, watch, nextWd, queue, starts>>
      /\ events' = events \/ (events' = Tail(events) /\ events # <<>>)
    BY DEF HandlerReturns, PollEnds, object, kernel, NamesInv, HandlerOK
<1>2. WatchesOK'
    BY <1>1, SameWatches DEF NamesInv
<1>3. /\ \A n \in 1 .. Len(queue) : OfFile(queue[n]) /\ queue[n].instance = starts
      /\ \A n \in 1 .. Len(events) : OfFile(events[n]) /\ events[n].instance <= starts
    BY DEF NamesInv, EventsOK
<1>4. ASSUME NEW n \in 1 .. Len(events') PROVE \E m \in 1 .. Len(events) : events'[n] = events[m]
    BY <1>1, <1>4, FirstEvent DEF TypeOK
<1>5. EventsOK'
    <2>1. ASSUME NEW n \in 1 .. Len(queue') PROVE OfFile(queue[n])' /\ queue'[n].instance = starts'
        BY <1>1, <1>3, <2>1 DEF OfFile
    <2>2. ASSUME NEW n \in 1 .. Len(events') PROVE OfFile(events[n])' /\ events'[n].instance <= starts'
        <3>1. PICK m \in 1 .. Len(events) : events'[n] = events[m]
            BY <1>4
        <3> QED BY <1>1, <1>3, <3>1 DEF OfFile
    <2> QED BY <2>1, <2>2 DEF EventsOK
<1>6. HandlerOK' /\ EventsNamed'
    BY <1>1, NoHandler
<1> QED BY <1>2, <1>5, <1>6 DEF NamesInv

\* An event of a file is named by its watch; a deleted file gives up its watch.
LEMMA KernelNames ==
    ASSUME TypeOK, NamesInv, NEW i \in Inodes, Change(i) \/ Delete(i)
    PROVE  NamesInv'
<1> DEFINE e == ChangeOf(i)
<1>1. /\ watch[i] # 0 /\ queue' = Append(queue, e)
      /\ UNCHANGED <<fd, wd, wdr, nextWd, js, event, events, starts>>
      /\ watch' = watch \/ watch' = [watch EXCEPT ![i] = 0]
    BY DEF Change, Delete, object, thread
<1>2. watch[i] \in Wds /\ fd = 1 /\ e.wd = watch[i] /\ e.inode = i /\ e.instance = starts
    BY <1>1 DEF TypeOK, NamesInv, WatchesOK, ChangeOf
<1>3. e \in Event
    BY <1>2 DEF ChangeOf, Event, TypeOK
<1>4. \A j \in Inodes : watch'[j] = watch[j] \/ watch'[j] = 0
    BY <1>1 DEF TypeOK
<1> HIDE DEF e
<1>5. WatchesOK'
    <2>1. \A j \in Inodes : watch'[j] # 0 => watch'[j] = watch[j]
        BY <1>4
    <2>2. \A p \in Paths, j \in Inodes : wd[p] # 0 /\ watch'[j] = wd[p] => watch[j] = wd[p]
        BY <1>4
    <2> QED BY <1>1, <1>2, <2>1, <2>2 DEF NamesInv, WatchesOK
<1>6. OfFile(e)
    BY <1>1, <1>2 DEF OfFile, NamesInv, WatchesOK
<1>7. \A u \in Event : OfFile(u) => OfFile(u)'
    <2>1. \A u \in Event : u.wd # 0
        BY Numbers DEF Event
    <2> QED BY <1>1, <1>4, <2>1 DEF OfFile
<1>8. EventsOK'
    <2>1. /\ \A n \in 1 .. Len(queue) : OfFile(queue[n]) /\ queue[n].instance = starts
          /\ \A n \in 1 .. Len(events) : OfFile(events[n]) /\ events[n].instance <= starts
        BY DEF NamesInv, EventsOK
    <2>2. ASSUME NEW n \in 1 .. Len(queue') PROVE OfFile(queue[n])' /\ queue'[n].instance = starts'
        <3>1. (n \in 1 .. Len(queue) /\ queue'[n] = queue[n]) \/ queue'[n] = e
            BY <1>1, <1>3, <2>2, OneMore DEF TypeOK
        <3>2. queue'[n] \in Event /\ OfFile(queue'[n]) /\ queue'[n].instance = starts
            BY <1>2, <1>3, <1>6, <2>1, <3>1, Elements DEF OfFile
        <3> QED BY <1>1, <1>7, <3>2 DEF OfFile
    <2>3. ASSUME NEW n \in 1 .. Len(events') PROVE OfFile(events[n])' /\ events'[n].instance <= starts'
        BY <1>1, <1>7, <2>1, <2>3, Elements DEF OfFile
    <2> QED BY <2>2, <2>3 DEF EventsOK
<1>9. HandlerOK' /\ EventsNamed'
    <2>1. js = "handler" /\ Head(events).instance = starts => event.wd # 0
        BY ReportedWatch, Numbers DEF NamesInv
    <2> QED BY <1>1, <1>4, <2>1, SameHandler DEF NamesInv
<1> QED BY <1>5, <1>8, <1>9 DEF NamesInv

LEMMA NamesStep == TypeOK /\ ChainsOK /\ NamesInv /\ [Next]_vars => NamesInv'
<1> SUFFICES ASSUME TypeOK, ChainsOK, NamesInv, [Next]_vars PROVE NamesInv'
    OBVIOUS
<1>1. CASE StartFails
    <2>1. UNCHANGED <<wd, wdr, watch, nextWd, queue, starts, js, event, events>> /\ fd # 1 /\ fd' = -1
        BY <1>1 DEF StartFails, thread, kernel
    <2>2. \A e \in Event : OfFile(e) => OfFile(e)'
        BY <2>1 DEF OfFile
    <2> QED BY <2>1, <2>2, SameWatches, SameEvents, SameHandler DEF NamesInv
<1>2. CASE UNCHANGED vars
    <2>1. UNCHANGED <<fd, wd, wdr, watch, nextWd, queue, starts, js, event, events>>
        BY <1>2 DEF vars, object, thread, kernel
    <2>2. \A e \in Event : OfFile(e) => OfFile(e)'
        BY <2>1 DEF OfFile
    <2> QED BY <2>1, <2>2, SameWatches, SameEvents, SameHandler DEF NamesInv
<1> QED
    BY <1>1, <1>2, AddNames, RemoveNames, EmptyNames, PollNames, ReportNames, ReturnNames, KernelNames
    DEF Next, Loop

-----------------------------------------------------------------------------
(* The theorems.                                                           *)

\* At the start nothing is watched and nothing runs.
LEMMA InitIInv == Init => IInv
<1> SUFFICES ASSUME Init PROVE IInv
    OBVIOUS
<1>1. Watched = {} /\ Cardinality(Watched) = 0 /\ Len(queue) = 0 /\ Len(events) = 0
    BY FS_EmptySet DEF Init, Watched
<1>2. HistoryOK
    BY Zenon DEF Init, HistoryOK
<1>3. TypeOK
    <2>1. event \in [wd : Wds \cup {0}, path : Paths \cup {NoPath}]
        BY DEF Init, Silent
    <2> QED BY <1>2, <2>1, Numbers DEF Init, TypeOK
<1>4. ChainsInv
    BY <1>1 DEF Init, ChainsInv, ChainsOK, PollsWhileWatching, NoStrayRead
<1>5. NamesInv
    BY <1>1 DEF Init, NamesInv, WatchesOK, EventsOK, HandlerOK, EventsNamed
<1> QED BY <1>3, <1>4, <1>5 DEF IInv

\* The inductive invariant holds in every state of the watcher, which adds, removes
\* and reads while the kernel queues and deletes.
THEOREM Invariance == Spec => []IInv
<1>1. IInv /\ [Next]_vars => IInv'
    BY TypeStep, ChainsStep, NamesStep DEF IInv, ChainsInv, NamesInv
<1> QED BY <1>1, InitIInv, PTL DEF Spec

\* While paths are watched, each added once, a timer is pending or poll() runs:
\* nextTick() never lets the chain end with a path in wd.
THEOREM PollingGoesOn == Spec => []PollsWhileWatching
<1>1. IInv => PollsWhileWatching
    BY DEF IInv, ChainsInv
<1> QED BY <1>1, Invariance, PTL

\* poll() reads descriptor 0 after stop() only from a second chain, which addPath()
\* began beside the first.
THEOREM NoStrayReadEver == Spec => []NoStrayRead
<1>1. IInv => NoStrayRead
    BY DEF IInv, ChainsInv
<1> QED BY <1>1, Invariance, PTL

\* onevent() is called with a path of the event's file, or with none if none can be
\* told: wdr keeps one path for each watch.
THEOREM EventsAlwaysNamed == Spec => []EventsNamed
<1>1. IInv => EventsNamed
    BY DEF IInv, NamesInv
<1> QED BY <1>1, Invariance, PTL

==============================================================================
