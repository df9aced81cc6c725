---------------------------- MODULE AsyscallPool ----------------------------
(***************************************************************************)
(* The asynchronous system-call pool of full-js/src/libasyscall.           *)
(*                                                                         *)
(* One JavaScript thread (class Asyscall, index.ts) and a fixed set of     *)
(* machine-code threads (func_thread, compiler.ts) share a linked list of  *)
(* 72-byte blocks.  JavaScript writes a system call into the block `curr`, *)
(* marks it FREE and moves on to `next`; a thread that finds a FREE block  *)
(* locks it, executes the call, stores the result in the block and marks   *)
(* it DONE; JavaScript polls the block and hands the result to a callback. *)
(*                                                                         *)
(* Shared memory (read and written by both sides):                         *)
(*   lock, left, link, and the slots arg, slot6, slot7 of every block.     *)
(* Registers of the threads: pc, r13 (current block), r14 (next block),    *)
(*   rax.                                                                  *)
(* State of the JavaScript object: js (where exec or stop stands), curr,   *)
(*   next, the used queue, poll (closures registered with setIOPoll) and   *)
(*   callback (the block whose callback is on the JavaScript stack).       *)
(* History: ran, delivered.                                                *)
(*                                                                         *)
(* Every step is one memory access of one thread, or a stretch of          *)
(* JavaScript between two writes the threads can tell apart.               *)
(*                                                                         *)
(* A definition named Mutant... is no part of the model: it is the         *)
(* definition that follows it with one plausible bug, kept to show that    *)
(* the properties notice it.                                               *)
(***************************************************************************)
EXTENDS Naturals, FiniteSets

CONSTANTS
    Threads,    \* the machine-code threads, CONF.THREADS of them
    MaxCalls,   \* bound: how many calls are ever issued with exec
    WideCalls   \* the calls whose system call reads arguments 5 and 6

Call == 1 .. MaxCalls

ASSUME ThreadsAssumption == IsFiniteSet(Threads) /\ Threads # {}
ASSUME CallsAssumption   == MaxCalls \in Nat
ASSUME KindsAssumption   == WideCalls \subseteq Call

\* Blocks are numbered in the order mmap returns them: `build` makes two and
\* each exec one more.  Address 0 is the null pointer.
Null  == 0
Block == 1 .. MaxCalls + 2

THREADS == Cardinality(Threads)

LOCK == {"UNINITIALIZED", "FREE", "LOCKED", "DONE", "EXIT"}

VARIABLES
    lock,       \* block -> LOCK, the 32 bits at offset 0
    left,       \* block -> number of threads that left it, offset 4
    link,       \* block -> address of the next block, offset 64
    arg,        \* block -> the call whose number and arguments it holds
    slot6,      \* block -> "argument" or, overwritten in debug, "thread"
    slot7,      \* block -> "argument", or the result stored in its place
    pc, r13, r14, rax,
    js, curr, next, block, usedFirst, usedLast, usedNext, poll, callback,
    ran,        \* call -> how often a thread executed it
    delivered   \* call -> what its callback was given

memory  == <<lock, left, link, arg, slot6, slot7>>
threads == <<pc, r13, r14, rax>>
used    == <<usedFirst, usedLast, usedNext>>
object  == <<js, curr, next, block, poll, callback>>
history == <<ran, delivered>>
vars    == <<memory, threads, used, object, history>>

TypeOK ==
    /\ lock  \in [Block -> LOCK]
    /\ left  \in [Block -> 0 .. THREADS]
    /\ link  \in [Block -> Block \cup {Null}]
    /\ arg   \in [Block -> Call \cup {Null}]
    /\ slot6 \in [Block -> {"argument", "thread"}]
    /\ slot7 \in [Block -> {"argument", "right", "wrong"}]
    /\ pc    \in [Threads -> {"load", "cas", "verify", "call", "store", "done",
                              "debug", "leave", "advance", "exit"}]
    /\ r13   \in [Threads -> Block]
    /\ r14   \in [Threads -> Block \cup {Null}]
    /\ rax   \in [Threads -> {"argument", "right", "wrong"}]
    /\ js    \in {"idle", "fill", "free", "stop", "stopped", "threw"}
    /\ curr  \in Block /\ next \in Block /\ block \in Block
    /\ usedFirst \in Block \cup {Null} /\ usedLast \in Block \cup {Null}
    /\ usedNext  \in [Block -> Block \cup {Null}]
    /\ poll      \in [Block -> Call \cup {Null}]
    /\ callback  \in Block \cup {Null}
    /\ ran       \in [Call -> 0 .. THREADS]
    /\ delivered \in [Call -> {"none", "argument", "right", "wrong", "twice"}]

\* build(): two blocks, the first linked to the second, then the threads are
\* cloned.  mmap and the zeroed tail of the code make every other field 0.
Init ==
    /\ lock  = [b \in Block |-> "UNINITIALIZED"]
    /\ left  = [b \in Block |-> 0]
    /\ link  = [b \in Block |-> IF b = 1 THEN 2 ELSE Null]
    /\ arg   = [b \in Block |-> Null]
    /\ slot6 = [b \in Block |-> "argument"]
    /\ slot7 = [b \in Block |-> "argument"]
    /\ pc    = [t \in Threads |-> "load"]
    /\ r13   = [t \in Threads |-> 1]
    /\ r14   = [t \in Threads |-> 2]
    /\ rax   = [t \in Threads |-> "argument"]
    /\ js = "idle" /\ curr = 1 /\ next = 2 /\ block = 2
    /\ usedFirst = Null /\ usedLast = Null
    /\ usedNext  = [b \in Block |-> Null]
    /\ poll      = [b \in Block |-> Null]
    /\ callback  = Null
    /\ ran       = [c \in Call |-> 0]
    /\ delivered = [c \in Call |-> "none"]

(***************************************************************************)
(* The threads: func_thread.                                               *)
(***************************************************************************)

Goto(t, from, to) == pc[t] = from /\ pc' = [pc EXCEPT ![t] = to]

\* cmp UNINITIALIZED; sched_yield; jmp process_block: the thread stays.
MutantWaits(t) == lock[r13[t]] = "UNINITIALIZED" /\ link[r14[t]] = Null
Waits(t) == lock[r13[t]] = "UNINITIALIZED"

\* Where a thread goes after reading any other lock.
AfterLoad(lck) ==
    CASE lck = "EXIT" -> "exit"
      [] lck = "FREE" -> "cas"
      [] OTHER        -> "leave"

\* process_block: mov eax, [curr]; cmp with EXIT, UNINITIALIZED, FREE.  The debug mark
\* of a thread that stops goes where a call would have its number; there is none.
Load(t) ==
    /\ ~Waits(t)
    /\ Goto(t, "load", AfterLoad(lock[r13[t]]))
    /\ UNCHANGED <<memory, r13, r14, rax, used, object, history>>

\* lock cmpxchg [curr], LOCKED: one atomic step.  The outcome (ZF) is not used.
CmpXchg(lck) == IF lck = "FREE" THEN "LOCKED" ELSE lck

Cas(t) ==
    /\ Goto(t, "cas", "verify")
    /\ lock' = [lock EXCEPT ![r13[t]] = CmpXchg(@)]
    /\ UNCHANGED <<left, link, arg, slot6, slot7, r13, r14, rax,
                   used, object, history>>

\* cmp [curr], LOCKED; jne go_to_next_block.  The test reads memory again, so
\* it also succeeds for a thread whose cmpxchg failed while the winner runs.
Verify(t) ==
    /\ Goto(t, "verify", IF lock[r13[t]] = "LOCKED" THEN "call" ELSE "leave")
    /\ UNCHANGED <<memory, r13, r14, rax, used, object, history>>

\* The arguments the kernel gets: slot 7 may already hold another thread's
\* result and slot 6 its thread ID, which matters to a call that reads them.
ArgumentsIntact(b) ==
    arg[b] \in WideCalls => slot6[b] = "argument" /\ slot7[b] = "argument"

\* abi.syscall(...): the kernel executes the call; its result is in rax.
Execute(t) ==
    LET b == r13[t] IN
    /\ Goto(t, "call", "store")
    /\ rax' = [rax EXCEPT ![t] = IF ArgumentsIntact(b) THEN "right" ELSE "wrong"]
    /\ ran' = [ran EXCEPT ![arg[b]] = @ + 1]
    /\ UNCHANGED <<memory, r13, r14, used, object, delivered>>

\* mov [curr + 56], rax: the result replaces argument 6.
Store(t) ==
    /\ Goto(t, "store", "done")
    /\ slot7' = [slot7 EXCEPT ![r13[t]] = rax[t]]
    /\ UNCHANGED <<lock, left, link, arg, slot6, r13, r14, rax,
                   used, object, history>>

\* mov [curr], DONE.
MarkDone(t) ==
    /\ Goto(t, "done", "debug")
    /\ lock' = [lock EXCEPT ![r13[t]] = "DONE"]
    /\ UNCHANGED <<left, link, arg, slot6, slot7, r13, r14, rax,
                   used, object, history>>

\* __DEBUG__: the thread ID replaces argument 5, after DONE.
StoreThreadId(t) ==
    /\ Goto(t, "debug", "leave")
    /\ slot6' = [slot6 EXCEPT ![r13[t]] = "thread"]
    /\ UNCHANGED <<lock, left, link, arg, slot7, r13, r14, rax,
                   used, object, history>>

\* go_to_next_block: lock add [curr + 4], 1.
MutantCountLeft(n) == n + 2
CountLeft(n) == n + 1

Leave(t) ==
    /\ Goto(t, "leave", "advance")
    /\ left' = [left EXCEPT ![r13[t]] = CountLeft(@)]
    /\ UNCHANGED <<lock, link, arg, slot6, slot7, r13, r14, rax,
                   used, object, history>>

\* mov curr, next; mov next, [curr + 64]: read from the new current block.
NextRead(t) == link[r14[t]]

Advance(t) ==
    /\ Goto(t, "advance", "load")
    /\ r13' = [r13 EXCEPT ![t] = r14[t]]
    /\ r14' = [r14 EXCEPT ![t] = NextRead(t)]
    /\ UNCHANGED <<memory, rax, used, object, history>>

ThreadStep(t) ==
    \/ Load(t)     \/ Cas(t)           \/ Verify(t)
    \/ Execute(t)  \/ Store(t)         \/ MarkDone(t)
    \/ StoreThreadId(t) \/ Leave(t)    \/ Advance(t)

(***************************************************************************)
(* The JavaScript object.  A step is taken only while no other JavaScript  *)
(* runs; exec and stop may be called by the program between two tasks and  *)
(* by a callback (callback # Null).                                        *)
(***************************************************************************)

\* newBlock: a used block that every thread has left is taken off the used
\* queue, yet a block fresh from mmap is returned in every case.
PopUsed ==
    IF usedFirst # Null /\ left[usedFirst] = THREADS
    THEN usedFirst' = usedNext[usedFirst]
    ELSE UNCHANGED usedFirst

\* link(curr, next): the address of `to` is stored at offset 64 of `from`.
MutantLink(from, to) == UNCHANGED link
Link(from, to) == link' = [link EXCEPT ![from] = to]

\* exec, first: newBlock, then link(this.next, block).  The bound is on calls.
ExecLink ==
    /\ js = "idle" /\ curr \in Call
    /\ js' = "fill"
    /\ PopUsed
    /\ block' = next + 1
    /\ lock' = [lock EXCEPT ![next + 1] = "UNINITIALIZED"]
    /\ left' = [left EXCEPT ![next + 1] = 0]
    /\ Link(next, next + 1)
    /\ UNCHANGED <<arg, slot6, slot7, threads, usedLast, usedNext,
                   curr, next, poll, callback, history>>

\* exec, then: fillBlock up to its last write.  The n-th call is written into
\* the n-th block, so a call is named by the number of that block.
ExecFill ==
    /\ js = "fill"
    /\ js' = "free"
    /\ arg'   = [arg   EXCEPT ![curr] = curr]
    /\ slot6' = [slot6 EXCEPT ![curr] = "argument"]
    /\ slot7' = [slot7 EXCEPT ![curr] = "argument"]
    /\ UNCHANGED <<lock, left, link, threads, used,
                   curr, next, block, poll, callback, history>>

\* this.curr = this.next; this.next = block.
MutantMoveOn == curr' = curr /\ next' = block
MoveOn == curr' = next /\ next' = block

\* exec, last: curr[0] = LOCK.FREE, pollBlock, curr = next, next = block.
ExecFree ==
    /\ js = "free"
    /\ js' = "idle"
    /\ lock' = [lock EXCEPT ![curr] = "FREE"]
    /\ poll' = [poll EXCEPT ![curr] = arg[curr]]
    /\ MoveOn
    /\ UNCHANGED <<left, link, arg, slot6, slot7, threads, used,
                   block, callback, history>>

\* A poll task runs: nothing else is on the JavaScript stack.
PollRuns(b) == js \in {"idle", "stopped"} /\ callback = Null /\ poll[b] # Null

\* lock === LOCK.DONE.
MutantFinished(b) == lock[b] \in {"LOCKED", "DONE"}
Finished(b) == lock[b] = "DONE"

\* poll(), lock is DONE: the callback gets the contents of slot 7.
PollDone(b) ==
    /\ PollRuns(b) /\ Finished(b)
    /\ callback' = b
    /\ poll' = [poll EXCEPT ![b] = Null]
    /\ delivered' = [delivered EXCEPT ![poll[b]] =
                        IF @ = "none" THEN slot7[b] ELSE "twice"]
    /\ UNCHANGED <<memory, threads, used, js, curr, next, block, ran>>

\* poll(), otherwise: setIOPoll(poll) again, for the next turn of the loop.
MutantSchedulePoll(b, c) == poll' = [poll EXCEPT ![b] = Null]
SchedulePoll(b, c) == poll' = [poll EXCEPT ![b] = c]

PollAgain(b) ==
    /\ PollRuns(b) /\ ~Finished(b)
    /\ SchedulePoll(b, poll[b])
    /\ UNCHANGED <<memory, threads, used, js, curr, next, block, callback, history>>

\* The callback returned: recycleBlock.
Recycle ==
    /\ js \in {"idle", "stopped"} /\ callback # Null
    /\ callback' = Null
    /\ usedLast' = callback
    /\ IF usedFirst = Null
       THEN usedFirst' = callback /\ UNCHANGED usedNext
       ELSE usedNext' = [usedNext EXCEPT ![callback] = usedLast] /\ UNCHANGED usedFirst
    /\ UNCHANGED <<memory, threads, js, curr, next, block, poll, history>>

\* stop(): EXIT in curr, EXIT in next, then this.code.free(), which no
\* StaticBuffer has: the TypeError is caught by the caller or ends the loop.
MutantWriteExit(b) == lock' = [b2 \in Block |-> IF b2 <= b THEN "EXIT" ELSE lock[b2]]
MutantNoExit(b)    == UNCHANGED lock
WriteExit(b)       == lock' = [lock EXCEPT ![b] = "EXIT"]

StopCurr ==
    /\ js = "idle"
    /\ js' = "stop"
    /\ WriteExit(curr)
    /\ UNCHANGED <<left, link, arg, slot6, slot7, threads, used,
                   curr, next, block, poll, callback, history>>

StopNext ==
    /\ js = "stop"
    /\ js' \in {"stopped", "threw"}
    /\ WriteExit(next)
    /\ UNCHANGED <<left, link, arg, slot6, slot7, threads, used,
                   curr, next, block, poll, callback, history>>

JavaScriptStep ==
    \/ ExecLink \/ ExecFill \/ ExecFree
    \/ \E b \in Block : PollDone(b) \/ PollAgain(b)
    \/ Recycle
    \/ StopCurr \/ StopNext

Next == JavaScriptStep \/ \E t \in Threads : ThreadStep(t)

\* The kernel schedules every thread and returns from every system call (one that
\* blocks for ever is left out); JavaScript finishes what it began, its callbacks return
\* and the event loop runs every task.  Nothing forces exec or stop.
Fairness ==
    /\ \A t \in Threads : WF_vars(ThreadStep(t))
    /\ \A b \in Block : WF_vars(PollDone(b))
    /\ WF_vars(ExecFill) /\ WF_vars(ExecFree)
    /\ WF_vars(StopNext) /\ WF_vars(Recycle)

Spec     == Init /\ [][Next]_vars
FairSpec == Spec /\ Fairness

(***************************************************************************)
(* Properties.                                                             *)
(***************************************************************************)

\* The call in block c was handed to the threads.
Issued(c) == c < curr

\* The blocks whose memory thread t will still read or write; between the
\* increment of `left` and the jump a thread only uses its register r14.
InUse(t) == CASE pc[t] = "exit"    -> {}
              [] pc[t] = "advance" -> {r14[t]}
              [] OTHER             -> {r13[t], r14[t]}

\* "threads that go to the next block can see a correct pointer": no thread
\* ever walks off the list, whatever JavaScript and the others are doing.
NoNullPointer == \A t \in Threads : Null \notin InUse(t)

\* newBlock takes left = CONF.THREADS as proof that no thread can touch a block
\* again; the counter is incremented without reading anything back, by threads
\* that ran the call and by threads that passed.
LeftMeansUnused ==
    \A b \in Block : left[b] = THREADS => \A t \in Threads : b \notin InUse(t)

\* fillBlock writes the arguments with plain stores: no thread may be between
\* reading FREE and leaving a block while they are being written.
ArgumentsWrittenAlone ==
    js \in {"fill", "free"} =>
        \A t \in Threads : r13[t] = curr => pc[t] = "load"

\* A callback is called once, and with a result computed from the arguments of
\* its own call, not with what slot 7 held before; for the calls that read at
\* most four arguments, which no thread overwrites.
AnswerRightOnce == \A c \in Call \ WideCalls : delivered[c] \in {"none", "right"}

\* Threads take calls in the order exec made them: no later call is taken while
\* an earlier one is still waiting, so no call is passed over.
TakenInOrder ==
    \A b1, b2 \in Block :
        b1 < b2 /\ lock[b2] \in {"LOCKED", "DONE"} => lock[b1] \in {"LOCKED", "DONE"}

\* stop() does not abandon work: when the last thread has exited, every call
\* that was issued has been executed and marked DONE.
StopDrains ==
    (\A t \in Threads : pc[t] = "exit") =>
        \A c \in Call : Issued(c) => lock[c] = "DONE" /\ ran[c] > 0

\* DONE is for ever: a poll closure that has not run yet will still find it,
\* whatever threads that come late to the block do.
DoneIsFinal == [][\A b \in Block : lock[b] = "DONE" => lock'[b] = "DONE"]_vars

\* Every call that is issued is answered, unless the loop was torn down by the
\* exception of stop.
EveryCallAnswered ==
    \A c \in Call : Issued(c) ~> (delivered[c] # "none" \/ js = "threw")

\* After stop every thread exits.
ThreadsExit == js = "stop" ~> (\A t \in Threads : pc[t] = "exit")

\* The pool implements the abstract service, in which one call may be executed
\* by as many threads as there are.
Service == INSTANCE AsyscallService WITH
    Calls    <- Call,
    MaxRuns  <- THREADS,
    issued   <- {c \in Call : Issued(c)},
    runs     <- ran,
    answered <- {c \in Call : delivered[c] # "none"}
ServiceSpec == Service!Spec

\* "Check we actually got the lock": one thread executes a call, no other.
ExecutedOnce == \A c \in Call : ran[c] <= 1

\* "Keep old used blocks [...] because some sleeping threads may not have yet
\* left them": a block whose callback returned stays in the used queue, which
\* starts at usedFirst, until every thread has left it.  The code does not keep
\* this, and no run checks it.
UsedQueue ==
    LET after[n \in 0 .. Cardinality(Block)] ==
            IF n = 0 THEN {usedFirst, usedLast}
            ELSE after[n - 1] \cup {usedNext[b] : b \in after[n - 1] \ {Null}}
    IN  after[Cardinality(Block)] \ {Null}
UsedKeptUntilLeft ==
    \A b \in Call : delivered[b] # "none" /\ callback # b /\ left[b] < THREADS
        => b \in UsedQueue

=============================================================================
