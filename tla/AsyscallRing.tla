---------------------------- MODULE AsyscallRing ----------------------------
(***************************************************************************)
(* The first system-call pool, class Asyscall of asyscall/index.ts: a ring *)
(* of blocks that JavaScript fills in turn and machine-code threads walk   *)
(* round and round.  A block that comes round again is filled whether its  *)
(* call was answered or not; that call then finds another ID and times out.*)
(*                                                                         *)
(* A call is its number, which stands for its ID, its arguments and its    *)
(* result; calls have fewer than six arguments (the result is stored in    *)
(* the place of the sixth).  One action per memory access that the other   *)
(* side can tell apart.                                                    *)
(*                                                                         *)
(* A definition named Mutant... is no part of the model: it is the         *)
(* definition that follows it with one plausible bug.                      *)
(***************************************************************************)
EXTENDS Integers, FiniteSets

CONSTANTS
    Threads,
    Queue,      \* blocks of the ring, this.queue
    MaxCalls    \* bound: calls ever made

\* The code has 4 threads and 100 blocks.
ASSUME ThreadsAssumption == IsFiniteSet(Threads) /\ Cardinality(Threads) < Queue
ASSUME NumbersAssumption == Queue \in Nat /\ Queue > 1 /\ MaxCalls \in Nat

Calls  == 1 .. MaxCalls
Blocks == 0 .. Queue - 1
None   == 0
StopId == -1        \* the IDs that stop() writes
NoAnswer == 0
TimedOut == -1      \* this.errorTimeout
Locks  == {"UNINITIALIZED", "FREE", "LOCKED", "DONE", "EXIT"}

VARIABLES
    lock, id, args, res,    \* of each block
    js,         \* exec(): "idle" or "marked"
    offset,     \* this.offset, the block of the next call
    issued,     \* calls made, this.id
    home,       \* the block that the poll() of each call looks at
    answer,     \* what each callback was given: a result, TimedOut or NoAnswer
    stopped,
    pc, block,     \* of each thread
    passed,     \* history: the block of the call was marked before the call
                \* was answered
    late        \* history: a block came round while a thread executed in it

ring    == <<lock, id, args, res>>
object  == <<js, offset, issued, home, answer, stopped>>
threads == <<pc, block>>
vars    == <<ring, object, threads, passed, late>>

Init ==
    /\ lock = [b \in Blocks |-> "UNINITIALIZED"]
    /\ id = [b \in Blocks |-> None]
    /\ args = [b \in Blocks |-> None] /\ res = [b \in Blocks |-> None]
    /\ js = "idle" /\ offset = 0 /\ issued = 0
    /\ home = [c \in Calls |-> 0]
    /\ answer = [c \in Calls |-> NoAnswer]
    /\ stopped = FALSE
    /\ pc = [t \in Threads |-> "load"]
    /\ block = [t \in Threads |-> 0]
    /\ passed = {} /\ late = FALSE

-----------------------------------------------------------------------------
(* The JavaScript thread.                                                  *)

\* nextOffset()
NextOffset(b) == IF b + 1 > Queue - 1 THEN 0 ELSE b + 1

Outstanding(b) == {c \in Calls : id[b] = c /\ answer[c] = NoAnswer}

\* A thread executes in block b: it will write the result and DONE there.
Executing(b) == \E t \in Threads : block[t] = b /\ pc[t] \in {"execute", "done"}

\* exec(): the next block is marked, for threads to stop there, ...
ExecMark ==
    /\ js = "idle" /\ ~stopped /\ issued < MaxCalls
    /\ lock' = [lock EXCEPT ![NextOffset(offset)] = "UNINITIALIZED"]
    /\ passed' = passed \cup Outstanding(NextOffset(offset))
    /\ late' = (late \/ Executing(NextOffset(offset)))
    /\ issued' = issued + 1
    /\ js' = "marked"
    /\ UNCHANGED <<id, args, res, offset, home, answer, stopped, threads>>

\* ... and the block before it is filled and given to the threads.  Threads leave
\* a marked block alone, so they see the ID and the arguments with the lock.
ExecFree ==
    /\ js = "marked"
    /\ lock' = [lock EXCEPT ![offset] = "FREE"]
    /\ id' = [id EXCEPT ![offset] = issued]
    /\ args' = [args EXCEPT ![offset] = issued]
    /\ home' = [home EXCEPT ![issued] = offset]
    /\ offset' = NextOffset(offset)
    /\ js' = "idle"
    /\ UNCHANGED <<res, issued, answer, stopped, threads, passed, late>>

\* poll(), once per turn of the loop, looks at the ID first.
MutantResult(b, c) == IF lock[b] = "DONE" THEN res[b] ELSE IF id[b] # c THEN TimedOut ELSE NoAnswer
Result(b, c) == IF id[b] # c THEN TimedOut ELSE IF lock[b] = "DONE" THEN res[b] ELSE NoAnswer

Poll(c) ==
    /\ js = "idle" /\ c <= issued /\ answer[c] = NoAnswer
    /\ Result(home[c], c) # NoAnswer
    /\ answer' = [answer EXCEPT ![c] = Result(home[c], c)]
    /\ UNCHANGED <<ring, js, offset, issued, home, stopped, threads, passed, late>>

\* stop()
MutantStopLocks == [b \in Blocks |-> IF b = offset THEN "EXIT" ELSE lock[b]]
StopLocks == [b \in Blocks |-> "EXIT"]

Stop ==
    /\ js = "idle" /\ ~stopped
    /\ lock' = StopLocks
    /\ id' = [b \in Blocks |-> StopId]
    /\ stopped' = TRUE
    /\ UNCHANGED <<args, res, js, offset, issued, home, answer, threads, passed, late>>

-----------------------------------------------------------------------------
(* A thread, from loop to the jump back to it.                             *)

At(t, l) == pc[t] = l
Goto(t, l) == pc' = [pc EXCEPT ![t] = l] /\ UNCHANGED block

\* The thread goes to the next block of the ring.
Advance(t) ==
    /\ block' = [block EXCEPT ![t] = IF @ + 1 > Queue - 1 THEN 0 ELSE @ + 1]
    /\ pc' = [pc EXCEPT ![t] = "load"]

\* The lock of the block is loaded: EXIT, wait, skip, or try to take the block.
Load(t) ==
    /\ At(t, "load")
    /\ \/ lock[block[t]] = "EXIT" /\ Goto(t, "exit")
       \/ lock[block[t]] = "FREE" /\ Goto(t, "cas")
       \/ lock[block[t]] \in {"LOCKED", "DONE"} /\ Advance(t)
    /\ UNCHANGED <<ring, object, passed, late>>

Cas(t) ==
    /\ At(t, "cas")
    /\ lock' = [lock EXCEPT ![block[t]] = IF @ = "FREE" THEN "LOCKED" ELSE @]
    /\ Goto(t, "verify")
    /\ UNCHANGED <<id, args, res, object, passed, late>>

\* The lock is read again; the outcome of cmpxchg is not looked at.
Verify(t) ==
    /\ At(t, "verify")
    /\ IF lock[block[t]] = "LOCKED" THEN Goto(t, "execute") ELSE Advance(t)
    /\ UNCHANGED <<ring, object, passed, late>>

\* The system call returns and its result is stored, in place of the sixth argument.
Stored(t) == [res EXCEPT ![block[t]] = args[block[t]]]
Execute(t) ==
    /\ At(t, "execute")
    /\ res' = Stored(t)
    /\ Goto(t, "done")
    /\ UNCHANGED <<lock, id, args, object, passed, late>>

MarkDone(t) ==
    /\ At(t, "done")
    /\ lock' = [lock EXCEPT ![block[t]] = "DONE"]
    /\ Advance(t)
    /\ UNCHANGED <<id, args, res, object, passed, late>>

ThreadStep(t) ==
    \/ Load(t) \/ Cas(t) \/ Verify(t) \/ Execute(t) \/ MarkDone(t)

Next ==
    \/ ExecMark \/ ExecFree \/ Stop
    \/ \E c \in Calls : Poll(c)
    \/ \E t \in Threads : ThreadStep(t)

Spec == Init /\ [][Next]_vars

\* Threads are scheduled, system calls return, exec() ends and the loop polls.
FairSpec ==
    /\ Spec
    /\ WF_vars(ExecFree)
    /\ WF_vars(\E c \in Calls : Poll(c))
    /\ \A t \in Threads : WF_vars(ThreadStep(t))

-----------------------------------------------------------------------------
(* Properties.                                                             *)

\* A callback is given the result of its own call, or the time-out.  Only a
\* thread that still executes in a block when it comes round can leave its
\* result there for another call.
OwnResults == ~late => \A c \in Calls : answer[c] \in {c, TimedOut, NoAnswer}

\* A call times out only after stop(), or when its block came round before it
\* was answered: Queue calls later and no sooner.
TimeoutsAreLate ==
    \A c \in Calls : answer[c] = TimedOut => stopped \/ issued >= c + Queue

\* What callbacks are given is right.
AnswersRight == OwnResults /\ TimeoutsAreLate

\* The inductive invariant of the proofs.  Blocks are filled in turn, so the last
\* Queue calls have a block each; without `late' no thread executes in a block
\* that JavaScript may fill, and what is DONE has the result of its arguments.
Filled == IF js = "marked" THEN issued - 1 ELSE issued

TypeOK ==
    /\ lock \in [Blocks -> Locks]
    /\ id \in [Blocks -> Calls \cup {None, StopId}]
    /\ args \in [Blocks -> Calls \cup {None}] /\ res \in [Blocks -> Calls \cup {None}]
    /\ js \in {"idle", "marked"} /\ offset \in Blocks
    /\ issued \in 0 .. MaxCalls /\ (js = "marked" => issued > 0)
    /\ home \in [Calls -> Blocks]
    /\ answer \in [Calls -> Calls \cup {TimedOut, NoAnswer}]
    /\ stopped \in BOOLEAN /\ (js = "marked" => ~stopped)
    /\ pc \in [Threads -> {"load", "cas", "verify", "execute", "done", "exit"}]
    /\ block \in [Threads -> Blocks]
    /\ late \in BOOLEAN

\* The block that is filled n calls after block b.
Before(b, n) == IF b - n >= 0 THEN b - n ELSE b - n + Queue

HomesOK ==
    \A c \in Calls : c <= Filled /\ Filled - c < Queue =>
        /\ home[c] = Before(offset, Filled - c + 1)
        /\ ~stopped => id[home[c]] = c

FillingOK ==
    ~late /\ ~stopped =>
        /\ lock[offset] = "UNINITIALIZED"
        /\ js = "marked" => lock[NextOffset(offset)] = "UNINITIALIZED"

ResultsOK ==
    /\ \A b \in Blocks : id[b] \in Calls => id[b] = args[b]
    /\ ~late => \A b \in Blocks : lock[b] = "DONE" => res[b] = args[b]
    /\ ~late => \A t \in Threads :
        /\ pc[t] \in {"execute", "done"} => lock[block[t]] \in {"LOCKED", "DONE", "EXIT"}
        /\ pc[t] = "done" => res[block[t]] = args[block[t]]

IInv == TypeOK /\ HomesOK /\ FillingOK /\ ResultsOK /\ AnswersRight

\* Every call is answered, unless the ring came round to the block of a call
\* that still waits: threads stop at that block until the next exec(), and the
\* calls behind it wait with it; or to a block a thread executed in, which then
\* writes DONE over the mark or over the next call.
AllAnswered ==
    \A c \in Calls :
        c <= issued ~> answer[c] # NoAnswer \/ late \/ \E d \in passed : answer[d] = NoAnswer

\* After stop() every thread exits: threads in the middle of a call write DONE
\* over the EXIT of their blocks, but there are more blocks than threads.
ThreadsExit == stopped ~> \A t \in Threads : pc[t] = "exit"

\* Neither calls nor threads wait for ever.
NobodyWaitsForever == AllAnswered /\ ThreadsExit

\* "in case queue is overfilled, blocks determine that they time-out by their
\* ID": every call is answered, by its result or by the time-out.  The code does
\* not keep this (see AllAnswered), and no run checks it.
OverfilledTimesOut == \A c \in Calls : c <= issued ~> answer[c] # NoAnswer

==============================================================================
