----------------------------- MODULE EventQueue -----------------------------
(***************************************************************************)
(* class EventQueue of full-js/src/lib/eloop.ts: a doubly linked list of   *)
(* macro tasks in the order they are due, with one deep pointer per class  *)
(* of delays that tells an insertion where to start looking, and the batch *)
(* of timed-out tasks that the event loop is executing.                    *)
(*                                                                         *)
(* start, active, pointers are the fields of the queue; next, prev,        *)
(* timeout and pointer those of the tasks.  The clock is Date.now(), which *)
(* may also step back.  state records what the program did with a task and *)
(* is not read by the queue.                                               *)
(*                                                                         *)
(* A definition named Mutant... is no part of the model: it is the         *)
(* definition that follows it with one plausible bug.                      *)
(***************************************************************************)
EXTENDS Integers, Sequences, FiniteSets

CONSTANTS
    MaxTask,    \* bound: how many tasks are ever inserted
    MaxTime,    \* bound: the clock runs from 0 to MaxTime
    Delays,     \* the classes of delays, upper bounds in increasing order
    Requests,   \* the delays tasks are inserted with
    Cancels     \* which tasks the program cancels, see CancelKind

Null == 0
Task == 1 .. MaxTask
POINTER_NONE == 0
Last == Len(Delays)         \* the class of delays "Infinity"
Index == 1 .. Last

Kinds == {"simple", "pointed", "batched", "next", "over"}

ASSUME BoundsAssumption  == MaxTask \in Nat /\ MaxTime \in Nat
ASSUME DelaysAssumption  ==
    /\ Delays \in Seq(Int) /\ Last > 0
    /\ \A i, j \in Index : i < j => Delays[i] < Delays[j]
ASSUME RequestAssumption == Requests \subseteq Int /\ Cancels \subseteq Kinds

VARIABLES start, active, pointers, next, prev, timeout, pointer, clock, state

queue == <<start, active, pointers>>
links == <<next, prev>>
vars  == <<queue, links, timeout, pointer, clock, state>>

TypeOK ==
    /\ start \in Task \cup {Null} /\ active \in Task \cup {Null}
    /\ pointers \in [Index -> Task \cup {Null}]
    /\ next \in [Task -> Task \cup {Null}] /\ prev \in [Task -> Task \cup {Null}]
    /\ timeout \in [Task -> Int]
    /\ pointer \in [Task -> Index \cup {POINTER_NONE}]
    /\ clock \in 0 .. MaxTime
    /\ state \in [Task -> {"new", "queued", "executed", "cancelled"}]

Init ==
    /\ start = Null /\ active = Null
    /\ pointers = [i \in Index |-> Null]
    /\ next = [t \in Task |-> Null] /\ prev = [t \in Task |-> Null]
    /\ timeout = [t \in Task |-> 0]
    /\ pointer = [t \in Task |-> POINTER_NONE]
    /\ clock = 0
    /\ state = [t \in Task |-> "new"]

\* findDelayIndex: the first class a delay fits in.
FindDelayIndex(delay) ==
    CHOOSE i \in Index : /\ i = Last \/ delay <= Delays[i]
                         /\ \A j \in 1 .. i - 1 : Delays[j] < delay

\* setPointer(i, t), t due at `at`: the pointers of longer delays that are unset,
\* or not deeper than t, follow, up to the first that is deeper.
MutantPointersAt(i, t, at) == [pointers EXCEPT ![i] = t]
PointersAt(i, t, at) ==
    LET stays(j) == pointers[j] # Null /\ timeout[pointers[j]] > at
    IN  [j \in Index |->
            IF j = i \/ (j > i /\ \A k \in i + 1 .. j : ~stays(k)) THEN t ELSE pointers[j]]

SetPointer(i, t, at) ==
    /\ pointers' = PointersAt(i, t, at)
    /\ pointer' = [pointer EXCEPT ![t] = i]

\* What a loop visits that goes from `head` along a link until there is none: the
\* sequence of tasks, each linked to the next.  No task comes twice, or the loop
\* would not end.
Hangs(link, head, s) ==
    /\ IF s = <<>> THEN head = Null ELSE head = s[1]
    /\ \A i \in 1 .. Len(s) : link[s[i]] = IF i = Len(s) THEN Null ELSE s[i + 1]
Lists == {s \in {SubSeq(all, 1, n) : all \in [Task -> Task], n \in 0 .. MaxTask} :
            \A i, j \in 1 .. Len(s) : s[i] = s[j] => i = j}
ListAlong(link, head) == CHOOSE s \in Lists : Hangs(link, head, s)

\* The walks of insertTask and sliceActiveQueue: along next while tasks are due
\* by `at`, and along prev while they are due after it.
Walk(s, While) ==
    s[CHOOSE n \in 1 .. Len(s) : /\ \A k \in 2 .. n : s[k] \in While
                                 /\ n < Len(s) => s[n + 1] \notin While]
LastDueBy(t, at) == Walk(ListAlong(next, t), {u \in Task : timeout[u] <= at})
MutantFirstDueAfter(t, at) == Walk(ListAlong(prev, t), {u \in Task : timeout[u] >= at})
FirstDueAfter(t, at) == Walk(ListAlong(prev, t), {u \in Task : timeout[u] > at})

\* insertTask(curr, t), in its two directions.
MutantInsertBehind(curr, t, at) ==
    LET before == curr
        after == next[before]
    IN  /\ next' = [u \in Task |-> IF u = before THEN t ELSE IF u = t THEN after ELSE next[u]]
        /\ prev' = [u \in Task |-> IF u = t THEN before ELSE IF u = after THEN t ELSE prev[u]]
        /\ UNCHANGED start
InsertBehind(curr, t, at) ==
    LET before == LastDueBy(curr, at)
        after  == next[before]
    IN  /\ next' = [u \in Task |-> IF u = before THEN t ELSE IF u = t THEN after ELSE next[u]]
        /\ prev' = [u \in Task |-> IF u = t THEN before ELSE IF u = after THEN t ELSE prev[u]]
        /\ UNCHANGED start

InsertInFront(curr, t, at) ==
    LET after  == FirstDueAfter(curr, at)
        before == prev[after]
    IN  /\ prev' = [u \in Task |-> IF u = after THEN t ELSE IF u = t THEN before ELSE prev[u]]
        /\ next' = [u \in Task |-> IF u = t THEN after ELSE IF u = before THEN t ELSE next[u]]
        /\ start' = IF before = Null THEN t ELSE start

InsertTask(curr, t, at) ==
    IF at >= timeout[curr] THEN InsertBehind(curr, t, at) ELSE InsertInFront(curr, t, at)

\* The deepest pointer set for a shorter delay, or else the head of the queue.
SearchFrom(i) ==
    LET set == {j \in 1 .. i - 1 : pointers[j] # Null}
    IN  IF set = {} THEN start ELSE pointers[CHOOSE j \in set : \A k \in set : k <= j]

\* insert(task): tasks are inserted once, in the order of their numbers.
Insert(t, delay) ==
    LET at == clock + delay
        i  == FindDelayIndex(delay)
    IN  /\ state[t] = "new" /\ \A u \in 1 .. t - 1 : state[u] # "new"
        /\ timeout' = [timeout EXCEPT ![t] = at]
        /\ state' = [state EXCEPT ![t] = "queued"]
        /\ IF pointers[i] = Null
           THEN /\ SetPointer(i, t, at)
                /\ IF SearchFrom(i) = Null
                   THEN start' = t /\ UNCHANGED links
                   ELSE InsertTask(SearchFrom(i), t, at)
           ELSE /\ IF at >= timeout[pointers[i]]
                   THEN SetPointer(i, t, at)
                   ELSE UNCHANGED <<pointers, pointer>>
                /\ InsertTask(pointers[i], t, at)
        /\ UNCHANGED <<active, clock>>

\* sliceActiveQueue: pointers to timed-out tasks are unset, up to the first that
\* points to another task; the list is cut behind the last timed-out task.
MutantExpired == {}
Expired ==
    {i \in Index : pointers[i] # Null /\
        \A j \in 1 .. i : pointers[j] # Null => timeout[pointers[j]] <= clock}

SliceFrom ==
    IF Expired = {} THEN start
    ELSE pointers[CHOOSE i \in Expired : \A j \in Expired : j <= i]

\* cycle(), called by the loop when it handed out its last batch.
Cycle ==
    /\ active = Null /\ start # Null
    /\ pointers' = [i \in Index |-> IF i \in Expired THEN Null ELSE pointers[i]]
    /\ IF timeout[SliceFrom] > clock
       THEN UNCHANGED <<start, active, links>>
       ELSE LET before == LastDueBy(SliceFrom, clock)
                after  == next[before]
            IN  /\ next' = [next EXCEPT ![before] = Null]
                /\ prev' = [u \in Task |-> IF u = after THEN Null ELSE prev[u]]
                /\ active' = start
                /\ start' = after
    /\ UNCHANGED <<timeout, pointer, clock, state>>

\* pop(): the loop executes the task at once.
Pop ==
    /\ active # Null
    /\ active' = next[active]
    /\ state' = [state EXCEPT ![active] = "executed"]
    /\ UNCHANGED <<start, pointers, links, timeout, pointer, clock>>

\* The lists that hang from start and from active.
ListFrom(head) == ListAlong(next, head)
Listed(head) == LET s == ListFrom(head) IN {s[i] : i \in 1 .. Len(s)}

\* What a cancelled task is to the queue: executed or cancelled already; the next to
\* run of the batch being executed; further behind in that batch; pointed to by the
\* deep pointer of another class; or none of these.
CancelKind(t) ==
    CASE state[t] # "queued" -> "over"
      [] state[t] = "queued" /\ t = active -> "next"
      [] state[t] = "queued" /\ t # active /\ t \in Listed(active) -> "batched"
      [] OTHER -> IF \E i \in Index : i # pointer[t] /\ pointers[i] = t
                  THEN "pointed" ELSE "simple"

\* cancel(task).
MutantUnpointed(i) == pointers[i]
Unpointed(i) == IF i = 1 THEN Null ELSE pointers[i - 1]

Cancel(t) ==
    /\ state[t] # "new" /\ CancelKind(t) \in Cancels
    /\ next' = [u \in Task |-> IF u = t THEN Null
                               ELSE IF u = prev[t] THEN next[t] ELSE next[u]]
    /\ prev' = [u \in Task |-> IF u = t THEN Null
                               ELSE IF u = next[t] THEN prev[t] ELSE prev[u]]
    /\ start' = IF prev[t] = Null THEN next[t] ELSE start
    /\ pointers' = [i \in Index |-> IF i = pointer[t] THEN Unpointed(i) ELSE pointers[i]]
    /\ state' = [state EXCEPT ![t] = IF @ = "queued" THEN "cancelled" ELSE @]
    /\ UNCHANGED <<active, timeout, pointer, clock>>

\* The system clock moves, forwards or back.
Tick == clock' \in {clock - 1, clock + 1} \cap 0 .. MaxTime /\ UNCHANGED <<queue, links, timeout, pointer, state>>

Next ==
    \/ \E t \in Task, delay \in Requests : Insert(t, delay)
    \/ Cycle
    \/ Pop
    \/ \E t \in Task : Cancel(t)
    \/ Tick

Spec == Init /\ [][Next]_vars

(***************************************************************************)
(* Properties.                                                             *)
(***************************************************************************)

\* What Date.now() may return, and when tasks may be due.
Times == (0 .. MaxTime) \cup {now + delay : now \in 0 .. MaxTime, delay \in Requests}

\* The queue keeps the promise of TimerQueue: order by due time, first come
\* first served among equals, nothing lost, nothing handed out twice.
Promise == INSTANCE TimerQueue WITH
    Time    <- Times,
    pending <- ListFrom(start),
    active  <- ListFrom(active),
    due     <- timeout
KeepsPromise == Promise!Spec

\* A task that was scheduled and neither executed nor cancelled can still be
\* reached by the loop.
NothingLost ==
    {t \in Task : state[t] = "queued"} \subseteq Listed(start) \cup Listed(active)

\* clearTimeout, clearImmediate: a cancelled task is not executed any more.
CancelledNeverRuns ==
    [][\A t \in Task : state[t] = "cancelled" => state'[t] # "executed"]_vars

\* Deep pointers point into the pending list, deeper for longer delays, and no
\* deeper than their class allows an insertion to start looking.
PointersOK ==
    /\ {pointers[i] : i \in Index} \ {Null} \subseteq Listed(start)
    /\ \A i, j \in Index : i < j /\ pointers[i] # Null /\ pointers[j] # Null
                              => timeout[pointers[i]] <= timeout[pointers[j]]

\* next and prev describe the same pending list.
LinksAgree ==
    \A t \in Listed(start) :
        /\ prev[t] = Null <=> t = start
        /\ next[t] # Null => prev[next[t]] = t /\ timeout[t] <= timeout[next[t]]

\* The doubly linked list and the pointers into it are consistent.
StructureOK == TypeOK /\ PointersOK /\ LinksAgree

=============================================================================
