------------------------------ MODULE EventLoop ------------------------------
(***************************************************************************)
(* class EventLoop of full-js/src/lib/eloop.ts with the timers of          *)
(* timers.ts: two queues of macro tasks, for tasks that keep the process   *)
(* running and for those that do not, a queue of microtasks, and the poll  *)
(* for socket events.                                                      *)
(*                                                                         *)
(* The queues are TimerQueue, which EventQueue implements; the loop slices *)
(* them, pops their tasks and inserts new ones.  The program is everything *)
(* that a callback may do: schedule tasks and microtasks, clear tasks,     *)
(* bind a socket.  Time is the clock the loop reads with Date.now(), here  *)
(* in steps of 1.                                                          *)
(*                                                                         *)
(* cancel() takes a task out of its queue, or cuts the queue: when the     *)
(* task left the list of pending tasks, or a deep pointer of another class *)
(* names it.  The pointers are in EventQueue; here a clear that cuts a     *)
(* queue sets astray, and the module follows the loop no further.          *)
(*                                                                         *)
(* A definition named Mutant... is no part of the model: it is the         *)
(* definition that follows it with one plausible bug.                      *)
(***************************************************************************)
EXTENDS Integers, Sequences

CONSTANTS
    RefTask, UnrefTask, \* the tasks the program may schedule, by task.isRef
    PollTask,           \* bound: the timers poll.wait may ever set
    Timer,              \* task -> [kind, after]: how it is scheduled
    Intervals,          \* the tasks scheduled again whenever they run
    Handles,            \* the tasks that the program may clear
    MaxMicro,           \* bound: how many microtasks are ever queued
    MaxTime             \* bound: the clock stops there, no task is scheduled for later

Task == RefTask \cup UnrefTask \cup PollTask

CONSTANT NoTask
ASSUME TasksAssumption ==
    /\ NoTask \notin Task
    /\ Intervals \subseteq RefTask /\ Handles \subseteq RefTask \cup UnrefTask
    /\ UnrefTask \cap (RefTask \cup PollTask) = {} /\ RefTask \cap PollTask = {}
    /\ MaxMicro \in Nat /\ MaxTime \in Nat
    /\ \A t \in Task : Timer[t].kind \in {"timeout", "immediate", "io"} /\ Timer[t].after \in Int

VARIABLES
    phase,                          \* where the loop stands
    refPending, refActive,          \* refQueue
    unrefPending, unrefActive,      \* unrefQueue
    due,                            \* task.timeout
    refTask, unrefTask,             \* the two variables of start()
    running,                        \* the task whose callback runs
    micro, queued,                  \* length of the microtask queue; ever queued
    pollRefs,                       \* poll.refs
    now, wake,                      \* the clock; while the thread waits, until when
    state,                          \* history: what became of each task
    astray                          \* history: a clear... cut a queue

refQueue   == <<refPending, refActive>>
unrefQueue == <<unrefPending, unrefActive>>
picked     == <<refTask, unrefTask>>
micros     == <<micro, queued>>
vars == <<phase, refQueue, unrefQueue, due, picked, running, micros,
          pollRefs, now, wake, state, astray>>

TIMEOUT_MAX == 2147483647

\* setTimeout, setImmediate, setIOPoll: the delay of the task.
Delay(t) ==
    CASE Timer[t].kind = "immediate" -> -2
      [] Timer[t].kind = "io"        -> -1
      [] OTHER -> IF Timer[t].after \in 1 .. TIMEOUT_MAX THEN Timer[t].after ELSE 1

\* The two queues, each a TimerQueue that shares task.timeout.
Times == {0} \cup {at + Delay(t) : at \in 0 .. MaxTime, t \in Task}
Ref   == INSTANCE TimerQueue WITH pending <- refPending, active <- refActive, Time <- Times
Unref == INSTANCE TimerQueue WITH pending <- unrefPending, active <- unrefActive, Time <- Times

TypeOK ==
    /\ phase \in {"cycle", "cycleUnref", "pop", "pick", "macro", "micro", "inMicro",
                  "popOne", "decide", "sleep", "poll", "handler", "rearm", "stopped",
                  "astray"}
    /\ refPending \in Seq(RefTask \cup PollTask) /\ refActive \in Seq(RefTask \cup PollTask)
    /\ unrefPending \in Seq(UnrefTask) /\ unrefActive \in Seq(UnrefTask)
    /\ due \in [Task -> Times]
    /\ refTask \in RefTask \cup PollTask \cup {NoTask} /\ unrefTask \in UnrefTask \cup {NoTask}
    /\ running \in Task \cup {NoTask}
    /\ queued \in 0 .. MaxMicro /\ micro \in 0 .. queued
    /\ pollRefs \in {0, 1} /\ now \in 0 .. MaxTime
    /\ state \in [Task -> {"new", "queued", "executed", "cleared"}]
    /\ astray \in BOOLEAN

\* boot.js inserts the first task and starts the loop; here its callback, which
\* runs the program, has just been called.
Init ==
    /\ phase = "macro"
    /\ refPending = <<>> /\ refActive = <<>>
    /\ unrefPending = <<>> /\ unrefActive = <<>>
    /\ due = [t \in Task |-> 0]
    /\ refTask = NoTask /\ unrefTask = NoTask /\ running = NoTask
    /\ micro = 0 /\ queued = 0 /\ pollRefs = 0
    /\ now = 0 /\ wake = 0
    /\ state = [t \in Task |-> "new"]
    /\ astray = FALSE

(***************************************************************************)
(* timers.ts and EventLoop.insert.                                         *)
(***************************************************************************)

Insert(t) ==
    IF t \in UnrefTask
    THEN Unref!Insert(t, now + Delay(t)) /\ UNCHANGED refQueue
    ELSE Ref!Insert(t, now + Delay(t)) /\ UNCHANGED unrefQueue

\* A callback, of a macro task, a microtask or a socket, is on the stack.
InCallback == phase \in {"macro", "inMicro", "handler"}

Schedule(t) ==
    /\ InCallback /\ state[t] = "new"
    /\ now + Delay(t) <= MaxTime
    /\ Insert(t)
    /\ state' = [state EXCEPT ![t] = "queued"]
    /\ UNCHANGED <<phase, picked, running, micros, pollRefs, now, wake, astray>>

\* clearTimeout, clearInterval, clearImmediate, clearIOPoll: cancel() of a task that is
\* pending, or in the batch behind the task that is popped next.
Pending   == Ref!Tasks(refPending) \cup Ref!Tasks(unrefPending)
Behind(q) == {q[i] : i \in 2 .. Len(q)}
MutantCancel(t) ==
    IF t \in UnrefTask
    THEN Unref!Cancel(t) /\ UNCHANGED refQueue
    ELSE /\ refPending' = SelectSeq(refPending, LAMBDA u : due[u] < due[t])
         /\ refActive' = Ref!Without(refActive, t)
         /\ UNCHANGED <<due, unrefQueue>>
Cancel(t) ==
    IF t \in UnrefTask
    THEN Unref!Cancel(t) /\ UNCHANGED refQueue
    ELSE Ref!Cancel(t) /\ UNCHANGED unrefQueue
Clear(t) ==
    /\ InCallback
    /\ t \in Pending \cup Behind(refActive) \cup Behind(unrefActive)
    /\ Cancel(t)
    /\ state' = [state EXCEPT ![t] = "cleared"]
    /\ UNCHANGED <<phase, picked, running, micros, pollRefs, now, wake, astray>>

\* cancel() that cuts the queue.  If the deep pointer of another class names t, the
\* next task placed by that pointer hangs from t, which is out of the queue.  If t is
\* popped next, it runs all the same, and the batch behind it is lost.  If t was popped,
\* ran or was cleared before, and no task is linked before it, start becomes what t is
\* linked to, which can be the rest of the batch, and the pending tasks are lost.
Cuts(t, pending, active) ==
    IF t \in Ref!Tasks(pending) THEN {<<Ref!Without(pending, t), active>>}
    ELSE IF t \in Behind(active) THEN {}
    ELSE IF t \in Ref!Tasks(active) THEN {<<pending, <<t>>>>}
    ELSE {<<<<>>, active>>, <<active, active>>}
ClearCuts(t) ==
    /\ InCallback /\ state[t] # "new"
    /\ IF t \in UnrefTask
       THEN /\ \E q \in Cuts(t, unrefPending, unrefActive) \ {unrefQueue} :
                   unrefPending' = q[1] /\ unrefActive' = q[2]
            /\ UNCHANGED refQueue
       ELSE /\ \E q \in Cuts(t, refPending, refActive) \ {refQueue} :
                   refPending' = q[1] /\ refActive' = q[2]
            /\ UNCHANGED unrefQueue
    /\ phase' = "astray" /\ astray' = TRUE
    /\ UNCHANGED <<due, picked, running, micros, pollRefs, now, wake, state>>

\* process.nextTick, insertMicrotask.
NextTick ==
    /\ InCallback /\ queued < MaxMicro
    /\ micro' = micro + 1 /\ queued' = queued + 1
    /\ UNCHANGED <<phase, refQueue, unrefQueue, due, picked, running,
                   pollRefs, now, wake, state, astray>>

\* A socket is bound: poll.refs is incremented, and nothing ever decrements it.
Bind ==
    /\ InCallback /\ PollTask # {} /\ pollRefs = 0
    /\ pollRefs' = 1
    /\ UNCHANGED <<phase, refQueue, unrefQueue, due, picked, running, micros,
                   now, wake, state, astray>>

(***************************************************************************)
(* start(): the loop.                                                      *)
(***************************************************************************)

Goto(from, to) == phase = from /\ phase' = to

\* refQueue.cycle(), unrefQueue.cycle(): what timed out becomes the batch,
\* whether or not the last one was finished.
MutantSliceRef ==
    LET n == Ref!DueBy(refPending, due, now + 1) IN
    IF n = 0 THEN UNCHANGED refQueue
    ELSE /\ refActive' = SubSeq(refPending, 1, n)
         /\ refPending' = SubSeq(refPending, n + 1, Len(refPending))
SliceRef ==
    LET n == Ref!DueBy(refPending, due, now) IN
    IF n = 0 THEN UNCHANGED refQueue
    ELSE /\ refActive' = SubSeq(refPending, 1, n)
         /\ refPending' = SubSeq(refPending, n + 1, Len(refPending))
CycleRef ==
    /\ Goto("cycle", "cycleUnref")
    /\ SliceRef
    /\ UNCHANGED <<unrefQueue, due, picked, running, micros, pollRefs, now, wake, state, astray>>

CycleUnref ==
    LET n == Unref!DueBy(unrefPending, due, now) IN
    /\ Goto("cycleUnref", "pop")
    /\ IF n = 0 THEN UNCHANGED unrefQueue
       ELSE /\ unrefActive' = SubSeq(unrefPending, 1, n)
            /\ unrefPending' = SubSeq(unrefPending, n + 1, Len(unrefPending))
    /\ UNCHANGED <<refQueue, due, picked, running, micros, pollRefs, now, wake, state, astray>>

MutantPopRef ==
    IF refActive = <<>> THEN refTask' = NoTask /\ UNCHANGED refQueue
    ELSE refTask' = Head(refActive) /\ refActive' = <<>> /\ UNCHANGED refPending
PopRef ==
    IF refActive = <<>> THEN refTask' = NoTask /\ UNCHANGED refQueue
    ELSE refTask' = Head(refActive) /\ refActive' = Tail(refActive) /\ UNCHANGED refPending
PopUnref ==
    IF unrefActive = <<>> THEN unrefTask' = NoTask /\ UNCHANGED unrefQueue
    ELSE /\ unrefTask' = Head(unrefActive) /\ unrefActive' = Tail(unrefActive)
         /\ UNCHANGED unrefPending

PopBoth ==
    /\ Goto("pop", "pick")
    /\ PopRef /\ PopUnref
    /\ UNCHANGED <<due, running, micros, pollRefs, now, wake, state, astray>>

\* The task that is due first, the ref task if they are due together.
MutantRefFirst == refTask # NoTask
RefFirst ==
    /\ refTask # NoTask
    /\ unrefTask # NoTask => due[refTask] <= due[unrefTask]

\* exec(): the wrapper of setInterval inserts the next task before it calls the
\* callback, and a callback may pass itself to setImmediate; the task of poll.wait waits again, see PollReturns.
Exec(t) ==
    /\ running' = t
    /\ IF t \in Intervals
       THEN Insert(t) /\ state' = [state EXCEPT ![t] = "queued"]
       ELSE /\ state' = [state EXCEPT ![t] = "executed"]
            /\ UNCHANGED <<refQueue, unrefQueue, due>>

PickRef ==
    /\ Goto("pick", IF refTask \in PollTask THEN "poll" ELSE "macro")
    /\ RefFirst
    /\ Exec(refTask)
    /\ refTask' = NoTask
    /\ UNCHANGED <<unrefTask, micros, pollRefs, now, wake, astray>>

PickUnref ==
    /\ Goto("pick", "macro")
    /\ ~RefFirst /\ unrefTask # NoTask
    /\ Exec(unrefTask)
    /\ unrefTask' = NoTask
    /\ UNCHANGED <<refTask, micros, pollRefs, now, wake, astray>>

\* The callback returns; microtasks run until the queue is empty, each leaving
\* the queue after its callback.
EndMacro ==
    /\ Goto("macro", "micro")
    /\ running' = NoTask
    /\ UNCHANGED <<refQueue, unrefQueue, due, picked, micros, pollRefs, now, wake, state, astray>>

StartMicro ==
    /\ Goto("micro", "inMicro") /\ micro > 0
    /\ UNCHANGED <<refQueue, unrefQueue, due, picked, running, micros,
                   pollRefs, now, wake, state, astray>>

MutantAfterMicro == "popOne"
AfterMicro == "micro"
EndMicro ==
    /\ Goto("inMicro", AfterMicro)
    /\ micro' = micro - 1
    /\ UNCHANGED <<refQueue, unrefQueue, due, picked, running, queued,
                   pollRefs, now, wake, state, astray>>

NoMicro ==
    /\ Goto("micro", "popOne") /\ micro = 0
    /\ UNCHANGED <<refQueue, unrefQueue, due, picked, running, micros,
                   pollRefs, now, wake, state, astray>>

\* Pop one more task to execute: a ref task if that variable is empty.
PopOne ==
    /\ Goto("popOne", "pick")
    /\ IF refTask = NoTask
       THEN PopRef /\ UNCHANGED <<unrefTask, unrefQueue>>
       ELSE PopUnref /\ UNCHANGED <<refTask, refQueue>>
    /\ UNCHANGED <<due, running, micros, pollRefs, now, wake, state, astray>>

EndBatch ==
    /\ Goto("pick", "decide")
    /\ refTask = NoTask /\ unrefTask = NoTask
    /\ UNCHANGED <<refQueue, unrefQueue, due, picked, running, micros,
                   pollRefs, now, wake, state, astray>>

\* shouldStop() and no poll.hasRefs().
MutantShouldStop == refPending = <<>>
ShouldStop == refPending = <<>> /\ pollRefs = 0

Stop ==
    /\ Goto("decide", "stopped")
    /\ ShouldStop
    /\ UNCHANGED <<refQueue, unrefQueue, due, picked, running, micros,
                   pollRefs, now, wake, state, astray>>

\* After a cut the loop may find no task to keep it running.
StopAstray ==
    /\ Goto("astray", "stopped")
    /\ UNCHANGED <<refQueue, unrefQueue, due, picked, running, micros,
                   pollRefs, now, wake, state, astray>>

\* ms: msNextTask() of both queues, and no more than CAP.
CAP == 1000000
First(pending) == IF pending = <<>> THEN {} ELSE {due[Head(pending)]}
MutantNextTask ==
    LET times == First(refPending) \cup {now + CAP}
    IN  CHOOSE at \in times : \A other \in times : at <= other
NextTask ==
    LET times == First(refPending) \cup First(unrefPending) \cup {now + CAP}
    IN  CHOOSE at \in times : \A other \in times : at <= other

\* ms > 0: epoll_wait or nanosleep for ms; else the next cycle begins.
Decide ==
    /\ phase = "decide" /\ ~ShouldStop
    /\ phase' = IF NextTask <= now THEN "cycle"
                ELSE IF pollRefs > 0 THEN "poll" ELSE "sleep"
    /\ wake' = IF NextTask <= now THEN wake ELSE NextTask
    /\ UNCHANGED <<refQueue, unrefQueue, due, picked, running, micros,
                   pollRefs, now, state, astray>>

Wake ==
    /\ Goto("sleep", "cycle")
    /\ now >= wake /\ wake' = 0
    /\ UNCHANGED <<refQueue, unrefQueue, due, picked, running, micros,
                   pollRefs, now, state, astray>>

\* Poll.wait: the handler of the socket, if it has an event, then
\* setTimeout(wait, 1000), and back to the loop or to the end of the task.
SocketEvent ==
    /\ Goto("poll", "handler") /\ pollRefs > 0
    /\ UNCHANGED <<refQueue, unrefQueue, due, picked, running, micros,
                   pollRefs, now, wake, state, astray>>
EndHandler ==
    /\ Goto("handler", "rearm")
    /\ UNCHANGED <<refQueue, unrefQueue, due, picked, running, micros,
                   pollRefs, now, wake, state, astray>>

PollReturns ==
    /\ phase \in {"poll", "rearm"}
    /\ phase' = IF running = NoTask THEN "cycle" ELSE "micro"
    /\ running' = NoTask /\ wake' = 0
    /\ IF \E t \in PollTask : state[t] = "new"
       THEN LET t == CHOOSE u \in PollTask : state[u] = "new"
            IN  Insert(t) /\ state' = [state EXCEPT ![t] = "queued"]
       ELSE UNCHANGED <<refQueue, unrefQueue, due, state>>
    /\ UNCHANGED <<picked, micros, pollRefs, now, astray>>

Tick ==
    /\ now < MaxTime /\ ~astray
    /\ now' = now + 1
    /\ UNCHANGED <<phase, refQueue, unrefQueue, due, picked, running, micros,
                   pollRefs, wake, state, astray>>

Program ==
    \/ NextTick \/ Bind
    \/ \E t \in RefTask \cup UnrefTask : Schedule(t)
    \/ \E t \in Handles : Clear(t) \/ ClearCuts(t)
EndCallback == EndMacro \/ EndMicro \/ EndHandler
Loop ==
    \/ CycleRef \/ CycleUnref \/ PopBoth \/ PickRef \/ PickUnref
    \/ StartMicro \/ NoMicro \/ PopOne \/ EndBatch
    \/ Stop \/ Decide \/ Wake \/ PollReturns

Next == Program \/ EndCallback \/ Loop \/ SocketEvent \/ StopAstray \/ Tick

\* Callbacks return, the loop runs, time passes.
Fairness == WF_vars(EndCallback) /\ WF_vars(Loop) /\ WF_vars(Tick)

Spec     == Init /\ [][Next]_vars
FairSpec == Spec /\ Fairness

(***************************************************************************)
(* Properties.                                                             *)
(***************************************************************************)

\* The tasks of the current batch that did not run yet.
Waiting == Ref!Tasks(refActive) \cup Ref!Tasks(unrefActive)
              \cup ({refTask, unrefTask} \ {NoTask})

\* A timer never fires before the time it was set for, although the loop compares
\* times once per batch and sleeps by a difference of two readings.
NeverEarly == phase = "pick" => \A t \in Waiting : due[t] <= now

\* The two queues are merged in the order tasks are due: when a task is picked,
\* no other task of the batch is due before it.
BatchInOrder ==
    [][running' # running /\ running' # NoTask
         => \A t \in Waiting : due[running'] <= due[t]]_vars

\* The loop uses the queue of ref tasks as TimerQueue expects, until a clear cuts a
\* queue: it slices a new batch only when the last one was handed out, so no task is
\* overwritten.
RefQueue == INSTANCE TimerQueue WITH
    Task    <- RefTask \cup PollTask,
    Time    <- Times,
    pending <- refPending,
    active  <- refActive,
    due     <- [t \in RefTask \cup PollTask |-> due[t]]
UsesRefQueueRight == RefQueue!Init /\ [][RefQueue!Next \/ astray']_(RefQueue!vars)

\* "Execute all macro tasks of the current cycle": unless a clear cuts a queue, a
\* scheduled ref task is in a queue or about to run until it was executed or cleared,
\* and no longer.
NothingDropped ==
    ~astray => \A t \in RefTask \cup PollTask :
                   state[t] = "queued" <=> t \in Waiting \cup Ref!Tasks(refPending)

\* The same of unref tasks.  The code does not keep this, and no run checks it: an
\* unref task that runs when no ref task is left ends the batch, and the next
\* slice overwrites what is left of it.
NoUnrefDropped ==
    \A t \in UnrefTask : state[t] = "queued" => t \in Waiting \cup Ref!Tasks(unrefPending)

\* process.nextTick, as long as no socket is bound: when the next macro task is
\* picked, every microtask was executed, those queued by microtasks too.
MicrotasksFirst == phase = "pick" /\ pollRefs = 0 => micro = 0

\* "Execute all micro tasks accumulated while executing this macro task", and
\* process.nextTick of Node.js: the same with sockets, whose handlers run in
\* poll.wait.  The code does not keep this, and no run checks it.
MicrotasksAlwaysFirst == phase = "pick" => micro = 0

\* The process ends only when nothing is left that should keep it running: no
\* ref task, no socket and no microtask; unless a clear cut a queue.
StopsWhenIdle ==
    phase = "stopped" /\ ~astray =>
        /\ \A t \in RefTask \cup PollTask : state[t] # "queued"
        /\ pollRefs = 0 /\ micro = 0

\* The thread does not sleep through a timer that is in a queue, be it in nanosleep or
\* in the epoll_wait of the loop.
Asleep == phase = "sleep" \/ (phase = "poll" /\ running = NoTask)
NoOversleep == Asleep => \A t \in Pending : wake <= due[t]

\* The inductive invariant of the proofs.  Every task stands in one place, and in
\* one only; queues and batches are in order; a batch of ref tasks ends when it is
\* empty, and one of unref tasks before only if no ref task is left.
Ordered(q) == \A i, j \in 1 .. Len(q) : i < j => q[i] # q[j] /\ due[q[i]] <= due[q[j]]
BatchOrdered(t, q) ==
    /\ Ordered(q)
    /\ t # NoTask => \A u \in Ref!Tasks(q) : t # u /\ due[t] <= due[u]

QueuesOK ==
    /\ Ordered(refPending) /\ BatchOrdered(refTask, refActive)
    /\ Ordered(unrefPending) /\ BatchOrdered(unrefTask, unrefActive)
    /\ \A t \in Waiting : t \notin Pending
    /\ \A t \in Waiting \cup Pending : state[t] = "queued"
    /\ \A t \in Waiting : due[t] <= now

\* The loop is between two batches.
Between ==
    \/ phase \in {"cycle", "cycleUnref", "pop", "decide", "sleep", "stopped"}
    \/ phase \in {"poll", "handler", "rearm"} /\ running = NoTask

PhasesOK ==
    /\ running # NoTask => phase \in {"macro", "poll", "handler", "rearm"}
    /\ Between => refTask = NoTask /\ unrefTask = NoTask
    /\ Between /\ phase \notin {"cycleUnref", "pop"} => refActive = <<>>
    /\ phase = "pick" /\ refTask = NoTask => refActive = <<>>
    /\ (\/ phase = "pick" /\ refTask # NoTask
        \/ phase # "pick" /\ ~Between /\ refTask = NoTask /\ refActive # <<>>)
       => (unrefTask = NoTask => unrefActive = <<>>)
    /\ phase = "inMicro" => micro > 0
    /\ phase \in {"handler", "rearm"} => pollRefs > 0
    /\ pollRefs = 0 /\ phase \notin {"macro", "micro", "inMicro"} => micro = 0
    /\ phase = "stopped" => refPending = <<>> /\ pollRefs = 0

IInv ==
    /\ TypeOK
    /\ IF astray THEN phase \in {"astray", "stopped"}
       ELSE phase # "astray" /\ QueuesOK /\ PhasesOK /\ NothingDropped /\ NoOversleep

\* A ref task is executed or cleared in the end, even while intervals and immediates
\* keep scheduling themselves again, unless a clear cuts a queue.
EveryRefTaskRuns ==
    \A t \in RefTask \ Intervals :
        state[t] = "queued" ~> state[t] \in {"executed", "cleared"} \/ astray

=============================================================================
