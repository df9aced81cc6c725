------------------------------- MODULE FileOps -------------------------------
(***************************************************************************)
(* The asynchronous functions of full-js/src/lib/fs.ts that take more than *)
(* one system call: open and close, read, readFile, writeFile, appendFile, *)
(* and readdir with libjs.readdirListAsync.                                *)
(*                                                                         *)
(* kind is the function the program called; got and callbacks record what  *)
(* it was given.  A definition named Mutant... is no part of the model: it *)
(* is the definition that follows it with one plausible bug.               *)
(***************************************************************************)
EXTENDS AsyncFiles

VARIABLES
    kind,       \* what each operation is, "none" before it is called
    position,   \* the position given to read()
    got,        \* the chunks an operation has read
    callbacks,  \* how many times its callback was called
    result,     \* with what: "none", "error", "ok"
    failed,     \* history: the system call that failed, or "none"
    disturbed   \* history: two reads of the program's descriptor at once

operations == <<kind, position, got, callbacks, result, failed, disturbed>>

Kinds   == {"open", "read", "readFile", "readdir", "writeFile", "appendFile"}
Opening == Kinds \ {"read"}
Readers == {"readFile", "readdir"}

OpsInit ==
    /\ kind = [o \in Operations |-> "none"]
    /\ position = [o \in Operations |-> 0]
    /\ got = [o \in Operations |-> <<>>]
    /\ callbacks = [o \in Operations |-> 0]
    /\ result = [o \in Operations |-> "none"]
    /\ failed = [o \in Operations |-> "none"]
    /\ disturbed = [o \in Operations |-> FALSE]

\* Operations are made in a fixed order.
Unused == {o \in Operations : kind[o] = "none"}

Call(o, calling, call) ==
    /\ Unused # {} /\ o = CHOOSE u \in Unused : TRUE
    /\ kind' = [kind EXCEPT ![o] = calling]
    /\ calls' = calls \cup {call}
    /\ UNCHANGED <<owner, offset, strays, got, callbacks, result, failed>>

\* open, readFile, readdir, writeFile, appendFile of a path.
CallOpening(o, k) ==
    /\ Call(o, k, Ask(o, "open", 0, 0))
    /\ UNCHANGED <<position, disturbed>>

\* read() of the program's descriptor: position 0 is taken for none.
Reads == {o \in Operations : kind[o] = "read" /\ callbacks[o] = 0}
FirstCall(o, at) ==
    IF at # 0 THEN Ask(o, "lseek", ProgramFd, at) ELSE Ask(o, "read", ProgramFd, 0)

CallRead(o, at) ==
    /\ Call(o, "read", FirstCall(o, at))
    /\ position' = [position EXCEPT ![o] = at]
    /\ disturbed' = [r \in Operations |->
                        disturbed[r] \/ (r \in Reads \cup {o} /\ Reads # {})]

\* The program closes what open gave it.
CallClose(o) ==
    /\ kind[o] = "open" /\ result[o] = "ok" /\ InFlight(o) = {}
    /\ kind' = [kind EXCEPT ![o] = "close"]
    /\ \E f \in Fds : owner[f] = o /\ calls' = calls \cup {Ask(o, "close", f, 0)}
    /\ UNCHANGED <<owner, offset, strays, position, got, callbacks, result, failed, disturbed>>

-----------------------------------------------------------------------------
(* The callbacks of the system calls.                                      *)

Callback(o, times, outcome) ==
    /\ callbacks' = [callbacks EXCEPT ![o] = @ + times]
    /\ result' = [result EXCEPT ![o] = outcome]
NoCallback == UNCHANGED <<callbacks, result>>

Fail(c) == failed' = [failed EXCEPT ![c.by] = c.sys]

MutantAfterOpenFails(c) ==
    /\ c.sys = "open" /\ c.res = Failed
    /\ Callback(c.by, IF kind[c.by] = "open" THEN 2 ELSE 1, "error")
    /\ Fail(c) /\ UNCHANGED got
    /\ Answered(c, IF kind[c.by] = "readFile" THEN {Ask(c.by, "read", c.res, 0)} ELSE {})
\* fs.open reports the error and then the negative result as a success.
AfterOpenFails(c) ==
    /\ c.sys = "open" /\ c.res = Failed
    /\ Callback(c.by, IF kind[c.by] = "open" THEN 2 ELSE 1, "error")
    /\ Fail(c) /\ Answered(c, {}) /\ UNCHANGED got

\* on_open: reading and writing go on in the pool; open is done; appendFile writes
\* at once, closes, and never calls its callback; if the write fails it throws.
AfterOpen(c) ==
    LET o == c.by
    IN  /\ c.sys = "open" /\ c.res # Failed
        /\ \/ kind[o] \in Readers /\ Answered(c, {Ask(o, "read", c.res, 0)})
              /\ NoCallback /\ UNCHANGED failed
           \/ kind[o] = "writeFile" /\ Answered(c, {Ask(o, "write", c.res, 0)})
              /\ NoCallback /\ UNCHANGED failed
           \/ kind[o] = "open" /\ Answered(c, {})
              /\ Callback(o, 1, "ok") /\ UNCHANGED failed
           \/ kind[o] = "appendFile" /\ Answered(c, {Ask(o, "close", c.res, 0)})
              /\ NoCallback /\ UNCHANGED failed
           \/ kind[o] = "appendFile" /\ Answered(c, {})
              /\ NoCallback /\ failed' = [failed EXCEPT ![o] = "write"]
        /\ UNCHANGED got

MutantAfterSeek(c) ==
    /\ c.sys = "lseek"
    /\ NoCallback
    /\ Answered(c, IF c.res = Failed THEN {} ELSE {Ask(c.by, "read", c.fd, 0)})
    /\ UNCHANGED <<failed, got>>
AfterSeek(c) ==
    /\ c.sys = "lseek"
    /\ IF c.res = Failed
       THEN Callback(c.by, 1, "error") /\ Fail(c) /\ Answered(c, {})
       ELSE NoCallback /\ Answered(c, {Ask(c.by, "read", c.fd, 0)}) /\ UNCHANGED failed
    /\ UNCHANGED got

\* A failed read is reported, and the descriptor of readFile and readdir forgotten.
AfterReadFails(c) ==
    /\ c.sys = "read" /\ c.res = Failed
    /\ Callback(c.by, 1, "error")
    /\ Fail(c) /\ Answered(c, {}) /\ UNCHANGED got

\* loop() of readFile and readdir reads until nothing is left, then done().
MutantNextCall(c) == IF c.res > 0 /\ c.data.at > 0 THEN Ask(c.by, "read", c.fd, 0)
                                                  ELSE Ask(c.by, "close", c.fd, 0)
NextCall(c) == IF c.res > 0 THEN Ask(c.by, "read", c.fd, 0) ELSE Ask(c.by, "close", c.fd, 0)

AfterRead(c) ==
    LET o == c.by
        over == kind[o] = "read" \/ NextCall(c).sys = "close"
    IN  /\ c.sys = "read" /\ c.res # Failed
        /\ got' = IF c.res > 0 THEN [got EXCEPT ![o] = Append(@, c.data)] ELSE got
        /\ IF over THEN Callback(o, 1, "ok") ELSE NoCallback
        /\ Answered(c, IF kind[o] = "read" THEN {} ELSE {NextCall(c)})
        /\ UNCHANGED failed

MutantAfterWriteCloses(c) == c.res # Failed
AfterWriteCloses(c) == TRUE
AfterWrite(c) ==
    /\ c.sys = "write"
    /\ Callback(c.by, 1, IF c.res = Failed THEN "error" ELSE "ok")
    /\ IF c.res = Failed THEN Fail(c) ELSE UNCHANGED failed
    /\ Answered(c, IF AfterWriteCloses(c) THEN {Ask(c.by, "close", c.fd, 0)} ELSE {})
    /\ UNCHANGED got

\* noop, or the callback of close.
AfterClose(c) ==
    /\ c.sys = "close"
    /\ Answered(c, {}) /\ NoCallback /\ UNCHANGED <<got, failed>>

Callbacks(c) ==
    /\ Executed(c) /\ c.by \in Operations
    /\ \/ AfterOpenFails(c) \/ AfterOpen(c) \/ AfterSeek(c) \/ AfterReadFails(c)
       \/ AfterRead(c) \/ AfterWrite(c) \/ AfterClose(c)
    /\ UNCHANGED <<kind, position, disturbed>>

Calls ==
    \E o \in Operations :
        \/ \E k \in Opening : CallOpening(o, k)
        \/ \E at \in 0 .. Size : CallRead(o, at)
        \/ CallClose(o)

==============================================================================
