--------------------------- MODULE AsyscallService ---------------------------
(***************************************************************************)
(* What process.asyscall(num, ...args, callback) promises its caller: a    *)
(* call that was issued is executed by the kernel, and its callback is     *)
(* then given the outcome, once.  MaxRuns is how often the kernel may      *)
(* execute one call: a caller expects 1.                                   *)
(***************************************************************************)
EXTENDS Naturals

CONSTANTS Calls, MaxRuns

VARIABLES
    issued,     \* the calls that were made
    runs,       \* call -> how often the kernel executed it
    answered    \* the calls whose callback was called

vars == <<issued, runs, answered>>

Init ==
    /\ issued = {}
    /\ runs = [c \in Calls |-> 0]
    /\ answered = {}

Issue(c) ==
    /\ c \notin issued
    /\ issued' = issued \cup {c}
    /\ UNCHANGED <<runs, answered>>

Run(c) ==
    /\ c \in issued /\ runs[c] < MaxRuns
    /\ runs' = [runs EXCEPT ![c] = @ + 1]
    /\ UNCHANGED <<issued, answered>>

Answer(c) ==
    /\ runs[c] > 0 /\ c \notin answered
    /\ answered' = answered \cup {c}
    /\ UNCHANGED <<issued, runs>>

Next == \E c \in Calls : Issue(c) \/ Run(c) \/ Answer(c)

Spec == Init /\ [][Next]_vars

=============================================================================
