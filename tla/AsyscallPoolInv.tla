--------------------------- MODULE AsyscallPoolInv ---------------------------
(***************************************************************************)
(* The inductive invariant of AsyscallPool, in named parts.  TLC checks it *)
(* on small instances; AsyscallPoolProofs proves it inductive.             *)
(***************************************************************************)
EXTENDS AsyscallPool

\* Where threads are: the steps between reading FREE and going to read the next
\* block, and those of a thread that executes the call of its block.
InBlock   == {"cas", "verify", "call", "store", "done", "debug", "leave", "advance"}
Executing == {"verify", "call", "store", "done"}

Stopping == js \in {"stop", "stopped", "threw"}

\* The threads that left block b, and those that are past executing its call.
Past(b) == {t \in Threads : r13[t] > b \/ (r13[t] = b /\ pc[t] = "advance")}
PastCall(b) ==
    {t \in Threads : \/ r13[t] > b
                     \/ /\ r13[t] = b
                        /\ pc[t] \in {"store", "done", "debug", "leave", "advance"}}

\* The list: next follows curr, block follows next while exec is under way, and
\* every block a thread can be in, or go to, points to its successor.
ListOK ==
    /\ next = curr + 1
    /\ js \in {"fill", "free"} => curr \in Call /\ block = next + 1 /\ link[next] = next + 1
    /\ \A b \in Block : b <= curr => link[b] = b + 1

\* Issued blocks are FREE, LOCKED or DONE, and only they are; EXIT is in curr
\* and next, and only after stop.
LocksOK ==
    \A b \in Block :
        /\ b < curr => lock[b] \in {"FREE", "LOCKED", "DONE"}
        /\ b = curr => lock[b] = (IF Stopping THEN "EXIT" ELSE "UNINITIALIZED")
        /\ b > curr => lock[b] \in {"UNINITIALIZED", "EXIT"}
        /\ b > curr /\ ~Stopping => lock[b] = "UNINITIALIZED"

\* Threads are in issued blocks, or wait at curr, or exited there; and r14 is the
\* successor of r13.
RegistersOK ==
    \A t \in Threads :
        /\ r13[t] <= curr
        /\ r14[t] = r13[t] + 1
        /\ pc[t] \in InBlock => r13[t] < curr
        /\ pc[t] = "exit" => r13[t] = curr /\ Stopping

\* A FREE block has not been passed by any thread; a LOCKED one is being
\* executed; a thread is beyond its compare-and-exchange only in a taken block.
TakenOK ==
    /\ \A b \in Block : lock[b] = "FREE" =>
          \A t \in Threads : r13[t] < b \/ (r13[t] = b /\ pc[t] \in {"load", "cas"})
    /\ \A b \in Block : lock[b] = "LOCKED" =>
          \E t \in Threads : r13[t] = b /\ pc[t] \in Executing
    /\ \A b \in Block : lock[b] = "DONE" => \E t \in Threads : r13[t] >= b
    /\ \A t \in Threads : pc[t] \in {"verify", "call", "store", "done"} =>
          lock[r13[t]] \in {"LOCKED", "DONE"}

\* The two counters.
CountsOK ==
    /\ \A b \in Block : left[b] = Cardinality(Past(b))
    /\ \A c \in Call : ran[c] <= Cardinality(PastCall(c))

\* The data in the blocks: arguments, results, and what was delivered.
DataOK ==
    /\ \A b \in Block : b < curr => arg[b] = b
    /\ js = "free" => arg[curr] = curr
    /\ \A t \in Threads : pc[t] \in {"store", "done"} => ran[r13[t]] > 0
    /\ \A c \in Call : lock[c] = "DONE" => ran[c] > 0
    /\ \A t \in Threads : pc[t] = "store" /\ r13[t] \notin WideCalls => rax[t] = "right"
    /\ \A t \in Threads : pc[t] = "done" /\ r13[t] \notin WideCalls => slot7[r13[t]] = "right"
    /\ \A b \in Block : lock[b] = "DONE" /\ b \notin WideCalls => slot7[b] = "right"

DeliveryOK ==
    /\ \A b \in Block : poll[b] # Null => poll[b] = b /\ b \in Call /\ b < curr /\ delivered[b] = "none"
    /\ \A c \in Call : c >= curr => delivered[c] = "none"
    /\ AnswerRightOnce

IInv ==
    /\ TypeOK /\ ListOK /\ LocksOK /\ RegistersOK
    /\ TakenOK /\ CountsOK /\ DataOK /\ DeliveryOK

=============================================================================
