----------------------------- MODULE AsyncFiles -----------------------------
(***************************************************************************)
(* What the asynchronous part of full-js/src/lib/fs.ts stands on: libjs'   *)
(* ...Async functions, each of which hands one system call to the pool     *)
(* (AsyscallService) and gives its result to a callback, and the kernel's  *)
(* table of descriptors.  Calls of different operations are executed and   *)
(* answered in any order.                                                  *)
(*                                                                         *)
(* A file is a number of chunks (CHUNK bytes, or what one read() of a      *)
(* stream asks for); every operation opens a file of its own, and the      *)
(* program has one descriptor from the start.                              *)
(***************************************************************************)
EXTENDS Integers, Sequences

CONSTANTS
    Operations,     \* calls of fs functions
    Streams,        \* read streams
    MaxFd,          \* bound: descriptors of the process
    Size            \* chunks of a file

CONSTANTS Program, Nobody

ASSUME ActorsAssumption ==
    /\ Operations \cap Streams = {}
    /\ {Program, Nobody} \cap (Operations \cup Streams) = {} /\ Program # Nobody
ASSUME NumbersAssumption == MaxFd \in Nat \ {0} /\ Size \in Nat

Actors    == Operations \cup Streams
Fds       == 1 .. MaxFd
ProgramFd == 1

VARIABLES
    owner,      \* kernel: who opened the file a descriptor is for
    offset,     \* kernel: the position of its next read, in chunks
    calls,      \* calls handed to the pool and not yet answered
    strays      \* history: actors that used a descriptor that was not theirs

files == <<owner, offset, calls, strays>>

Sys     == {"open", "lseek", "read", "write", "close"}
Waiting == -2       \* the result of a call that was not executed yet
Failed  == -1       \* any negative result
Chunk   == [of : Actors \cup {Program}, at : Nat]
NoData  == [of |-> Nobody, at |-> 0]

FilesInit ==
    /\ owner = [f \in Fds |-> IF f = ProgramFd THEN Program ELSE Nobody]
    /\ offset = [f \in Fds |-> 0]
    /\ calls = {} /\ strays = {}

\* A call to be made; n tells two like calls of an actor apart.
CallOf(a, sys, fd, at, n) ==
    [by |-> a, sys |-> sys, fd |-> fd, at |-> at, n |-> n, res |-> Waiting, data |-> NoData]
Ask(a, sys, fd, at) == CallOf(a, sys, fd, at, 1)

InFlight(a) == {c \in calls : c.by = a}
Executed(c) == c \in calls /\ c.res # Waiting

\* The answer to c is given, and the callback makes the calls of new.
Answered(c, new) ==
    /\ calls' = (calls \ {c}) \cup new
    /\ UNCHANGED <<owner, offset, strays>>

Returns(c, res, data) == calls' = (calls \ {c}) \cup {[c EXCEPT !.res = res, !.data = data]}

-----------------------------------------------------------------------------
(* The threads of the pool and the kernel.                                 *)

Free == {f \in Fds : owner[f] = Nobody}

ExecuteOpen(c) ==
    \/ \E f \in Free :
        /\ \A g \in Free : f <= g
        /\ owner' = [owner EXCEPT ![f] = c.by]
        /\ offset' = [offset EXCEPT ![f] = 0]
        /\ Returns(c, f, NoData)
    \/ Returns(c, Failed, NoData) /\ UNCHANGED <<owner, offset>>

\* EBADF, or an error of the device.
Fails(c) == Returns(c, Failed, NoData) /\ UNCHANGED <<owner, offset>>

ExecuteRead(c) ==
    IF offset[c.fd] < Size
    THEN /\ Returns(c, 1, [of |-> owner[c.fd], at |-> offset[c.fd]])
         /\ offset' = [offset EXCEPT ![c.fd] = @ + 1] /\ UNCHANGED owner
    ELSE Returns(c, 0, NoData) /\ UNCHANGED <<owner, offset>>

ExecuteSeek(c) ==
    Returns(c, c.at, NoData) /\ offset' = [offset EXCEPT ![c.fd] = c.at] /\ UNCHANGED owner

ExecuteClose(c) ==
    Returns(c, 0, NoData) /\ owner' = [owner EXCEPT ![c.fd] = Nobody] /\ UNCHANGED offset

OnDescriptor(c) ==
    \/ c.sys = "read" /\ ExecuteRead(c)
    \/ c.sys = "write" /\ Returns(c, 1, NoData) /\ UNCHANGED <<owner, offset>>
    \/ c.sys \in {"read", "write", "lseek"} /\ Fails(c)
    \/ c.sys = "lseek" /\ ExecuteSeek(c)
    \/ c.sys = "close" /\ ExecuteClose(c)

Execute(c) ==
    /\ c.res = Waiting
    /\ IF c.sys = "open" THEN ExecuteOpen(c) /\ UNCHANGED strays
       ELSE /\ IF c.fd \in Fds /\ owner[c.fd] # Nobody THEN OnDescriptor(c) ELSE Fails(c)
            /\ strays' = IF c.fd \in Fds /\ owner[c.fd] \notin {c.by, Program}
                          THEN strays \cup {c.by} ELSE strays

==============================================================================
