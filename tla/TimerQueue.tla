----------------------------- MODULE TimerQueue -----------------------------
(***************************************************************************)
(* What the queue of macro tasks promises (eloop.ts, EventQueue): pending  *)
(* tasks are kept in the order they are due, tasks due at the same time in *)
(* the order they were scheduled; the tasks that timed out are taken all   *)
(* together into the active batch and handed out one by one; a cancelled   *)
(* task is not handed out any more.                                        *)
(***************************************************************************)
EXTENDS Integers, Sequences

CONSTANTS
    Task,       \* the tasks that are ever scheduled
    Time        \* the times Date.now() may return, and the timeouts

VARIABLES
    pending,    \* the tasks that wait, in the order they are due
    active,     \* the tasks of the current batch that were not handed out
    due         \* task -> the time it is due

vars == <<pending, active, due>>

Tasks(queue) == {queue[i] : i \in 1 .. Len(queue)}
Without(queue, t) ==
    IF t \notin Tasks(queue) THEN queue
    ELSE LET n == CHOOSE n \in 1 .. Len(queue) : queue[n] = t
         IN  SubSeq(queue, 1, n - 1) \o SubSeq(queue, n + 1, Len(queue))

\* The place of the last task of a queue that is due by a time, 0 if none is.
DueBy(queue, when, at) ==
    CHOOSE n \in 0 .. Len(queue) : /\ n > 0 => when[queue[n]] <= at
                                   /\ \A i \in n + 1 .. Len(queue) : when[queue[i]] > at

Init == pending = <<>> /\ active = <<>> /\ due \in [Task -> Time]

\* A task goes behind all those that are due no later than it.
Insert(t, at) ==
    LET n == DueBy(pending, due, at) IN
    /\ t \notin Tasks(pending)
    /\ due' = [due EXCEPT ![t] = at]
    /\ pending' = SubSeq(pending, 1, n) \o <<t>> \o SubSeq(pending, n + 1, Len(pending))
    /\ UNCHANGED active

Cycle(now) ==
    LET n == DueBy(pending, due, now) IN
    /\ active = <<>> /\ n > 0
    /\ active' = SubSeq(pending, 1, n)
    /\ pending' = SubSeq(pending, n + 1, Len(pending))
    /\ UNCHANGED due

Pop ==
    /\ active # <<>>
    /\ active' = Tail(active)
    /\ UNCHANGED <<pending, due>>

Cancel(t) ==
    /\ t \in Tasks(pending) \cup Tasks(active)
    /\ pending' = Without(pending, t)
    /\ active' = Without(active, t)
    /\ UNCHANGED due

Next ==
    \/ \E t \in Task, at \in Time : Insert(t, at)
    \/ \E now \in Time : Cycle(now)
    \/ Pop
    \/ \E t \in Task : Cancel(t)

Spec == Init /\ [][Next]_vars

=============================================================================
