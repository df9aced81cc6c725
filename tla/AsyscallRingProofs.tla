------------------------- MODULE AsyscallRingProofs -------------------------
(***************************************************************************)
(* Proofs about AsyscallRing, for any number of threads, blocks and calls: *)
(* the invariant IInv is inductive, and a callback is given the result of  *)
(* its own call, or a time-out that is due.                                *)
(***************************************************************************)
EXTENDS AsyscallRing, TLAPS

LEMMA Numbers ==
    /\ Queue \in Nat /\ Queue > 1 /\ MaxCalls \in Nat
    /\ \A b \in Blocks : NextOffset(b) \in Blocks /\ NextOffset(b) # b
    /\ Calls \subseteq Nat /\ \A c \in Calls : c > 0
BY NumbersAssumption DEF Blocks, NextOffset, Calls


LEMMA InitIInv == Init => IInv
<1> SUFFICES ASSUME Init PROVE IInv
    OBVIOUS
<1> USE Numbers
<1>1. TypeOK
    <2>1. 0 \in Blocks /\ 0 \in 0 .. MaxCalls
        BY DEF Blocks
    <2>2. NoAnswer \in Calls \cup {TimedOut, NoAnswer} /\ None \in Calls \cup {None, StopId}
        OBVIOUS
    <2> QED BY <2>1, <2>2 DEF Init, TypeOK, Locks
<1>2. HomesOK /\ FillingOK
    BY DEF Init, HomesOK, FillingOK, Filled, Blocks, Calls
<1>3. ResultsOK /\ AnswersRight
    BY DEF Init, ResultsOK, AnswersRight, OwnResults, TimeoutsAreLate, Blocks, Calls, None,
           NoAnswer, TimedOut
<1> QED BY <1>1, <1>2, <1>3 DEF IInv

-----------------------------------------------------------------------------
(* The JavaScript thread.                                                  *)

\* The mark is set on a block in which nobody executes, or late is set.
LEMMA ExecMarkKeeps == IInv /\ ExecMark => IInv'
<1> SUFFICES ASSUME IInv, ExecMark PROVE IInv'
    OBVIOUS
<1> USE Numbers DEF IInv, ExecMark
<1> DEFINE m == NextOffset(offset)
<1>0. m \in Blocks /\ m # offset
    BY DEF TypeOK
<1>1. TypeOK'
    BY <1>0 DEF TypeOK, Locks, threads, Executing
<1>2. Filled' = Filled
    BY DEF Filled, TypeOK
<1>3. HomesOK'
    BY <1>2 DEF HomesOK, Before
<1>4. FillingOK'
    BY <1>0 DEF FillingOK, TypeOK, NextOffset
<1>5. ResultsOK'
    <2>1. ASSUME ~late' PROVE ~late /\ \A t \in Threads : pc[t] \in {"execute", "done"} => block[t] # m
        BY <2>1 DEF Executing, TypeOK
    <2>2. \A b \in Blocks : lock'[b] = IF b = m THEN "UNINITIALIZED" ELSE lock[b]
        BY DEF TypeOK
    <2> QED BY <2>1, <2>2 DEF ResultsOK, TypeOK, threads
<1>6. AnswersRight'
    BY DEF AnswersRight, OwnResults, TimeoutsAreLate, TypeOK
<1> QED BY <1>1, <1>3, <1>4, <1>5, <1>6

\* The block of the new call was marked, so no thread executes in it.
LEMMA ExecFreeKeeps == IInv /\ ExecFree => IInv'
<1> SUFFICES ASSUME IInv, ExecFree PROVE IInv'
    OBVIOUS
<1> USE Numbers DEF IInv, ExecFree
<1>0. /\ issued \in Calls /\ offset \in Blocks /\ ~stopped
      /\ offset' \in Blocks /\ offset' # offset
    BY DEF TypeOK, Calls
<1>1. TypeOK'
    BY <1>0 DEF TypeOK, Locks, threads
<1>2. /\ \A b \in Blocks : /\ lock'[b] = IF b = offset THEN "FREE" ELSE lock[b]
                           /\ id'[b] = IF b = offset THEN issued ELSE id[b]
                           /\ args'[b] = IF b = offset THEN issued ELSE args[b]
      /\ \A c \in Calls : home'[c] = IF c = issued THEN offset ELSE home[c]
    BY DEF TypeOK
<1>3. HomesOK'
    <2> SUFFICES ASSUME NEW c \in Calls, c <= Filled', Filled' - c < Queue
                 PROVE  home'[c] = Before(offset', Filled' - c + 1) /\ id'[home'[c]] = c
        BY DEF HomesOK
    <2>1. Filled' = issued /\ Filled = issued - 1 /\ issued \in Nat
        BY DEF Filled, TypeOK
    <2>2. CASE c = issued
        <3>1. home'[c] = offset
            BY <1>2, <2>2
        <3>2. Before(offset', 1) = offset
            BY <1>0 DEF Before, NextOffset, Blocks
        <3> QED BY <1>0, <1>2, <2>1, <2>2, <3>1, <3>2
    <2>3. CASE c # issued
        <3>1. c <= Filled /\ Filled - c < Queue - 1 /\ Filled - c >= 0 /\ c \in Nat
            BY <2>1, <2>3
        <3>2. home[c] = Before(offset, Filled - c + 1) /\ id[home[c]] = c
            BY <1>0, <3>1, <2>1 DEF HomesOK
        <3>3. Filled' - c + 1 = (Filled - c + 1) + 1
            BY <2>1, <3>1
        <3>4. ASSUME NEW n \in 1 .. Queue - 1
              PROVE  Before(offset', n + 1) = Before(offset, n) /\ Before(offset, n) # offset
            BY <1>0 DEF Before, NextOffset, Blocks
        <3>5. Filled - c + 1 \in 1 .. Queue - 1
            BY <2>1, <3>1
        <3>6. home'[c] = home[c] /\ home[c] \in Blocks
            BY <1>2, <2>3 DEF TypeOK
        <3> QED BY <1>2, <3>2, <3>3, <3>4, <3>5, <3>6
    <2> QED BY <2>2, <2>3
<1>4. FillingOK'
    BY <1>0, <1>2 DEF FillingOK
<1>5. ResultsOK'
    <2>1. ~late => \A t \in Threads : pc[t] \in {"execute", "done"} => block[t] # offset
        BY <1>0 DEF FillingOK, ResultsOK
    <2>2. ~late' => \A t \in Threads : pc'[t] \in {"execute", "done"} =>
              /\ block'[t] \in Blocks /\ block'[t] # offset /\ block'[t] = block[t] /\ pc'[t] = pc[t]
        BY <2>1 DEF threads, TypeOK
    <2>3. \A b \in Blocks : id'[b] \in Calls => id'[b] = args'[b]
        BY <1>2 DEF ResultsOK
    <2>4. ~late' => \A b \in Blocks : lock'[b] = "DONE" => res'[b] = args'[b]
        BY <1>2 DEF ResultsOK
    <2>5. ~late' => \A t \in Threads :
              /\ pc'[t] \in {"execute", "done"} => lock'[block'[t]] \in {"LOCKED", "DONE", "EXIT"}
              /\ pc'[t] = "done" => res'[block'[t]] = args'[block'[t]]
        BY <1>2, <2>2 DEF ResultsOK
    <2> QED BY <2>3, <2>4, <2>5 DEF ResultsOK
<1>6. AnswersRight'
    BY DEF AnswersRight, OwnResults, TimeoutsAreLate, TypeOK
<1> QED BY <1>1, <1>3, <1>4, <1>5, <1>6

\* A call whose block is DONE under its ID gets its result; one that finds another
\* ID is Queue calls old.
LEMMA PollKeeps == ASSUME IInv, NEW c \in Calls, Poll(c) PROVE IInv'
<1> USE Numbers DEF IInv, Poll
<1> DEFINE r == Result(home[c], c)
<1>0. home[c] \in Blocks /\ c \in Nat /\ c > 0 /\ issued \in Nat /\ Filled = issued
    BY DEF TypeOK, Filled
<1>1. r \in Calls \cup {TimedOut, NoAnswer}
    BY <1>0 DEF Result, TypeOK, ResultsOK, None, NoAnswer, TimedOut
<1>2. TypeOK'
    BY <1>1 DEF TypeOK, ring, threads
<1>3. HomesOK' /\ FillingOK' /\ ResultsOK'
    BY DEF HomesOK, FillingOK, ResultsOK, ring, threads, Filled
<1>4. \A d \in Calls : answer'[d] = IF d = c THEN r ELSE answer[d]
    BY DEF TypeOK
<1>5. ~late => r \in {c, TimedOut, NoAnswer}
    BY <1>0 DEF Result, ResultsOK
<1>6. r = TimedOut => stopped \/ issued >= c + Queue
    <2> SUFFICES ASSUME r = TimedOut, ~stopped, ~(issued >= c + Queue) PROVE FALSE
        BY <1>0
    <2>1. id[home[c]] = c
        BY <1>0 DEF HomesOK
    <2>2. res[home[c]] # TimedOut
        BY <1>0 DEF TypeOK, None, TimedOut
    <2> QED BY <2>1, <2>2 DEF Result, NoAnswer, TimedOut
<1>7. AnswersRight'
    BY <1>4, <1>5, <1>6 DEF AnswersRight, OwnResults, TimeoutsAreLate
<1> QED BY <1>2, <1>3, <1>7

LEMMA StopKeeps == IInv /\ Stop => IInv'
<1> SUFFICES ASSUME IInv, Stop PROVE IInv'
    OBVIOUS
<1> USE Numbers DEF IInv, Stop
<1>1. TypeOK'
    BY DEF TypeOK, StopLocks, Locks, threads
<1>2. HomesOK' /\ FillingOK'
    BY DEF HomesOK, FillingOK, Filled, Before
<1>3. ResultsOK'
    BY DEF ResultsOK, TypeOK, StopLocks, StopId, threads
<1>4. AnswersRight'
    BY DEF AnswersRight, OwnResults, TimeoutsAreLate, TypeOK
<1> QED BY <1>1, <1>2, <1>3, <1>4

-----------------------------------------------------------------------------
(* The threads.                                                            *)

\* What a step of a thread leaves to be shown.
LEMMA ThreadFrame ==
    ASSUME IInv, UNCHANGED <<id, args, object, passed, late>>, TypeOK', FillingOK', ResultsOK'
    PROVE  IInv'
<1>1. HomesOK'
    BY DEF IInv, HomesOK, object, Filled, Before
<1>2. AnswersRight'
    BY DEF IInv, AnswersRight, OwnResults, TimeoutsAreLate, object
<1> QED BY <1>1, <1>2 DEF IInv

\* To go to another block, or on to a place that says nothing of the block.
LEMMA ThreadMoves ==
    ASSUME IInv, NEW t \in Threads, UNCHANGED <<ring, object, passed, late>>,
           \/ Advance(t)
           \/ \E l \in {"load", "cas", "verify", "exit"} : Goto(t, l)
           \/ Goto(t, "execute") /\ lock[block[t]] = "LOCKED"
    PROVE  IInv'
<1> USE Numbers DEF IInv
<1>1. block' \in [Threads -> Blocks]
    <2>1. block[t] \in Blocks
        BY DEF TypeOK
    <2>2. CASE Advance(t)
        <3> DEFINE b == IF block[t] + 1 > Queue - 1 THEN 0 ELSE block[t] + 1
        <3>1. b \in Blocks
            BY <2>1 DEF Blocks
        <3>2. block' = [block EXCEPT ![t] = b]
            BY <2>2 DEF Advance
        <3> QED BY <3>1, <3>2 DEF TypeOK
    <2>3. CASE UNCHANGED block
        BY <2>3 DEF TypeOK
    <2> QED BY <2>2, <2>3 DEF Goto
<1>2. pc' \in [Threads -> {"load", "cas", "verify", "execute", "done", "exit"}]
    <2>1. \E l \in {"load", "cas", "verify", "execute", "exit"} : pc' = [pc EXCEPT ![t] = l]
        BY DEF Advance, Goto
    <2> QED BY <2>1 DEF TypeOK
<1>3. TypeOK' /\ FillingOK'
    BY <1>1, <1>2 DEF TypeOK, FillingOK, ring, object
<1>4. ResultsOK'
    BY DEF ResultsOK, TypeOK, Advance, Goto, ring, object
<1> QED BY <1>3, <1>4, ThreadFrame DEF ring

LEMMA LoadKeeps == ASSUME IInv, NEW t \in Threads, Load(t) PROVE IInv'
BY ThreadMoves DEF Load

LEMMA VerifyKeeps == ASSUME IInv, NEW t \in Threads, Verify(t) PROVE IInv'
BY ThreadMoves DEF Verify

LEMMA CasKeeps == ASSUME IInv, NEW t \in Threads, Cas(t) PROVE IInv'
<1> USE Numbers DEF IInv, Cas, Goto
<1>1. TypeOK' /\ FillingOK'
    BY DEF TypeOK, FillingOK, Locks, object
<1>2. ResultsOK'
    BY DEF ResultsOK, TypeOK, object
<1> QED BY <1>1, <1>2, ThreadFrame

LEMMA ExecuteKeeps == ASSUME IInv, NEW t \in Threads, Execute(t) PROVE IInv'
<1> USE Numbers DEF IInv, Execute, Goto, Stored
<1>1. TypeOK' /\ FillingOK'
    BY DEF TypeOK, FillingOK, object
<1>2. ResultsOK'
    BY DEF ResultsOK, TypeOK, object, At
<1> QED BY <1>1, <1>2, ThreadFrame

\* No block that may be filled is marked DONE, as no thread is in it.
LEMMA MarkDoneKeeps == ASSUME IInv, NEW t \in Threads, MarkDone(t) PROVE IInv'
<1> USE Numbers DEF IInv, MarkDone, Advance, At
<1>1. TypeOK'
    BY DEF TypeOK, Locks, object, Blocks
<1>2. \A b \in Blocks : lock'[b] = IF b = block[t] THEN "DONE" ELSE lock[b]
    BY DEF TypeOK
<1>3. FillingOK'
    BY <1>2 DEF FillingOK, ResultsOK, TypeOK, object
<1>4. ResultsOK'
    BY <1>2 DEF ResultsOK, TypeOK, object
<1> QED BY <1>1, <1>3, <1>4, ThreadFrame

LEMMA NextKeeps == IInv /\ [Next]_vars => IInv'
<1> SUFFICES ASSUME IInv, [Next]_vars PROVE IInv'
    OBVIOUS
<1>1. CASE ExecMark
    BY <1>1, ExecMarkKeeps
<1>2. CASE ExecFree
    BY <1>2, ExecFreeKeeps
<1>3. CASE Stop
    BY <1>3, StopKeeps
<1>4. CASE \E c \in Calls : Poll(c)
    BY <1>4, PollKeeps
<1>5. CASE \E t \in Threads : ThreadStep(t)
    BY <1>5, LoadKeeps, CasKeeps, VerifyKeeps, ExecuteKeeps, MarkDoneKeeps DEF ThreadStep
<1>6. CASE UNCHANGED vars
    BY <1>6 DEF vars, ring, object, threads, IInv, TypeOK, HomesOK, FillingOK, ResultsOK, Filled,
                Before, NextOffset, AnswersRight, OwnResults, TimeoutsAreLate
<1> QED BY <1>1, <1>2, <1>3, <1>4, <1>5, <1>6 DEF Next

-----------------------------------------------------------------------------

\* The inductive invariant, which holds the types and what the blocks of exec()
\* contain, is never broken.
THEOREM Invariance == Spec => []IInv
<1>1. Init => IInv
    BY InitIInv
<1>2. IInv /\ [Next]_vars => IInv'
    BY NextKeeps
<1> QED BY <1>1, <1>2, PTL DEF Spec

\* Callbacks of exec() are given the result of their own call, unless a block came
\* round while a thread executed in it; and calls time out only after stop(), or
\* when Queue calls were made after them.
THEOREM AnswersAlwaysRight == Spec => []AnswersRight
<1>1. IInv => AnswersRight
    BY DEF IInv
<1> QED BY <1>1, Invariance, PTL

=============================================================================
