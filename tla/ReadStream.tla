----------------------------- MODULE ReadStream -----------------------------
(***************************************************************************)
(* class ReadStream of full-js/src/lib/fs.ts, with autoClose, which is the *)
(* default: open in the constructor, _read, destroy and close called by    *)
(* the program at any moment, also while open or a read is under way.      *)
(*                                                                         *)
(* The shared pool of buffers is left out: used only grows, so the slices  *)
(* of two reads never meet.  A read asks for one chunk.                    *)
(*                                                                         *)
(* A definition named Mutant... is no part of the model: it is the         *)
(* definition that follows it with one plausible bug.                      *)
(***************************************************************************)
EXTENDS AsyncFiles, FiniteSets

CONSTANT End    \* options.end, in chunks

ASSUME EndAssumption == End \in Nat

VARIABLES
    made,               \* was the stream created
    sfd,                \* this.fd: NullFd, BadFd of a failed open, or a descriptor
    pos, start,         \* this.pos, this.start, -1 for undefined
    destroyed, closed,
    onOpen,             \* handlers waiting for 'open': "read" and "close"
    reading, ended,     \* of _readableState
    pushed,             \* the chunks given to push()
    early, interrupted  \* history: destroyed before it was open;
                        \* closed with a read or another close under way
flags   == <<destroyed, closed>>
state   == <<onOpen, reading, ended>>
streams == <<made, sfd, pos, start, flags, state, pushed, early, interrupted>>

NullFd == 0
BadFd  == -1

StreamInit ==
    /\ made = [s \in Streams |-> FALSE]
    /\ sfd = [s \in Streams |-> NullFd]
    /\ pos = [s \in Streams |-> -1] /\ start = [s \in Streams |-> -1]
    /\ destroyed = [s \in Streams |-> FALSE] /\ closed = [s \in Streams |-> FALSE]
    /\ onOpen = [s \in Streams |-> <<>>]
    /\ reading = [s \in Streams |-> FALSE] /\ ended = [s \in Streams |-> FALSE]
    /\ pushed = [s \in Streams |-> <<>>]
    /\ early = [s \in Streams |-> FALSE] /\ interrupted = [s \in Streams |-> FALSE]

IsOpening(s) == \E c \in InFlight(s) : c.sys = "open"
Count(s, what) == Cardinality({i \in 1 .. Len(onOpen[s]) : onOpen[s][i] = what})

\* once('open', ...): a handler that comes after the event never runs.
Once(s, what) ==
    onOpen' = IF IsOpening(s) THEN [onOpen EXCEPT ![s] = Append(@, what)] ELSE onOpen

\* read(this.fd, ..., this.pos, onread): lseek first if the position is not 0.
Reading(s, fd) == Ask(s, IF pos[s] > 0 THEN "lseek" ELSE "read", fd, IF pos[s] > 0 THEN pos[s] ELSE 0)
PosAfter(s) == IF pos[s] = -1 THEN -1 ELSE pos[s] + 1

-----------------------------------------------------------------------------
(* What the program calls.                                                 *)

\* A start behind the end is refused.
Create(s, at) ==
    /\ ~made[s] /\ at <= End
    /\ made' = [made EXCEPT ![s] = TRUE]
    /\ pos' = [pos EXCEPT ![s] = at] /\ start' = [start EXCEPT ![s] = at]
    /\ calls' = calls \cup {Ask(s, "open", 0, 0)}
    /\ UNCHANGED <<owner, offset, strays, sfd, flags, state, pushed, early, interrupted>>

\* read() of Readable, which calls _read() unless it is waiting for one.
Read(s) ==
    /\ made[s] /\ ~reading[s] /\ ~ended[s]
    /\ \/ /\ sfd[s] = NullFd
          /\ Once(s, "read")
          /\ reading' = [reading EXCEPT ![s] = TRUE]
          /\ UNCHANGED <<calls, pos, ended>>
       \/ /\ sfd[s] # NullFd /\ destroyed[s]
          /\ reading' = [reading EXCEPT ![s] = TRUE]
          /\ UNCHANGED <<onOpen, calls, pos, ended>>
       \/ /\ sfd[s] # NullFd /\ ~destroyed[s] /\ pos[s] > End
          /\ ended' = [ended EXCEPT ![s] = TRUE]
          /\ UNCHANGED <<onOpen, reading, calls, pos>>
       \/ /\ sfd[s] # NullFd /\ ~destroyed[s] /\ pos[s] <= End
          /\ calls' = calls \cup {Reading(s, sfd[s])}
          /\ pos' = [pos EXCEPT ![s] = PosAfter(s)]
          /\ reading' = [reading EXCEPT ![s] = TRUE]
          /\ UNCHANGED <<onOpen, ended>>
    /\ UNCHANGED <<owner, offset, strays, made, sfd, start, flags, pushed, early, interrupted>>

MutantFdAfterClose(s) == sfd[s]
FdAfterClose(s) == NullFd

\* _close() of an open stream; c is the call being answered, if there is one.
CloseNow(s, c) ==
    /\ calls' = (calls \ c) \cup {Ask(s, "close", sfd[s], 0)}
    /\ closed' = [closed EXCEPT ![s] = TRUE]
    /\ sfd' = [sfd EXCEPT ![s] = FdAfterClose(s)]
    /\ interrupted' = [interrupted EXCEPT ![s] = @ \/ InFlight(s) \ c # {}]

\* destroy(), with what it does to the calls.
Destroying(s, c) ==
    /\ destroyed' = [destroyed EXCEPT ![s] = TRUE]
    /\ early' = [early EXCEPT ![s] = @ \/ IsOpening(s)]
    /\ IF ~destroyed[s] /\ sfd[s] # NullFd THEN CloseNow(s, c)
       ELSE calls' = calls \ c /\ UNCHANGED <<closed, sfd, interrupted>>

Destroy(s) ==
    /\ made[s] /\ ~destroyed[s]
    /\ Destroying(s, {})
    /\ UNCHANGED <<owner, offset, strays, made, pos, start, state, pushed>>

Close(s) ==
    /\ made[s]
    /\ IF sfd[s] = NullFd
       THEN /\ Count(s, "close") < 2
            /\ Once(s, "close") /\ UNCHANGED <<calls, closed, sfd, interrupted>>
       ELSE CloseNow(s, {}) /\ UNCHANGED onOpen
    /\ UNCHANGED <<owner, offset, strays, made, pos, start, destroyed, reading, ended, pushed, early>>

-----------------------------------------------------------------------------
(* The callbacks of the system calls.                                      *)

CloseCalls(s, fd) == {CallOf(s, "close", fd, 0, n) : n \in 1 .. Count(s, "close")}

\* Called twice by fs.open: destroy() for the error, then the negative result is
\* taken for a descriptor, and the handlers of 'open' run.
StreamOpenFails(s, c) ==
    /\ c.sys = "open" /\ c.res = Failed
    /\ Answered(c, CloseCalls(s, BadFd))
    /\ destroyed' = [destroyed EXCEPT ![s] = TRUE]
    /\ sfd' = [sfd EXCEPT ![s] = IF Count(s, "close") = 0 THEN BadFd ELSE NullFd]
    /\ onOpen' = [onOpen EXCEPT ![s] = <<>>]
    /\ reading' = [reading EXCEPT ![s] = TRUE]
    /\ UNCHANGED <<pos, ended, closed, pushed, early, interrupted>>

\* The handlers run in their order, and then read(): a waiting _read reads if no
\* close is before it, and read() does if no _read waited and none closed.
StreamOpens(s, c) ==
    LET closes == Count(s, "close")
        reads  == /\ ~destroyed[s]
                  /\ closes > 0 => onOpen[s][1] = "read"
    IN  /\ c.sys = "open" /\ c.res # Failed
        /\ Answered(c, CloseCalls(s, c.res) \cup (IF reads THEN {Reading(s, c.res)} ELSE {}))
        /\ pos' = IF reads THEN [pos EXCEPT ![s] = PosAfter(s)] ELSE pos
        /\ sfd' = [sfd EXCEPT ![s] = IF closes = 0 THEN c.res ELSE NullFd]
        /\ interrupted' = [interrupted EXCEPT ![s] = closes > 1 \/ (closes = 1 /\ reads)]
        /\ onOpen' = [onOpen EXCEPT ![s] = <<>>]
        /\ reading' = [reading EXCEPT ![s] = TRUE]
        /\ UNCHANGED <<ended, destroyed, closed, pushed, early>>

StreamSeeks(s, c) ==
    /\ c.sys = "lseek" /\ c.res # Failed
    /\ Answered(c, {Ask(s, "read", c.fd, 0)})
    /\ UNCHANGED <<sfd, pos, flags, state, pushed, early, interrupted>>

\* onread
StreamReads(s, c) ==
    /\ c.sys = "read" /\ c.res # Failed
    /\ Answered(c, {})
    /\ pushed' = IF c.res > 0 THEN [pushed EXCEPT ![s] = Append(@, c.data)] ELSE pushed
    /\ ended' = [ended EXCEPT ![s] = @ \/ c.res = 0]
    /\ reading' = [reading EXCEPT ![s] = FALSE]
    /\ UNCHANGED <<sfd, pos, flags, onOpen, early, interrupted>>

StreamReadFails(s, c) ==
    /\ c.sys \in {"read", "lseek"} /\ c.res = Failed
    /\ Destroying(s, {c})
    /\ UNCHANGED <<owner, offset, strays, pos, state, pushed>>

StreamCloses(s, c) ==
    /\ c.sys = "close"
    /\ Answered(c, {})
    /\ UNCHANGED <<sfd, pos, flags, state, pushed, early, interrupted>>

StreamCallbacks(c) ==
    /\ Executed(c) /\ c.by \in Streams
    /\ \/ StreamOpenFails(c.by, c) \/ StreamOpens(c.by, c) \/ StreamSeeks(c.by, c)
       \/ StreamReads(c.by, c) \/ StreamReadFails(c.by, c) \/ StreamCloses(c.by, c)
    /\ UNCHANGED <<made, start>>

StreamProgram ==
    \E s \in Streams :
        \/ \E at \in {-1, 0, 1} : Create(s, at)
        \/ Read(s) \/ Destroy(s) \/ Close(s)

==============================================================================
