----------------------------- MODULE FileSystem -----------------------------
(***************************************************************************)
(* The asynchronous functions and the streams of full-js/src/lib/fs.ts     *)
(* together, over one table of descriptors and one pool of system calls.   *)
(***************************************************************************)
EXTENDS FileOps, ReadStream

CONSTANT MaxActors  \* bound: operations and streams started in a behaviour

vars == <<files, operations, streams>>

Started == {o \in Operations : kind[o] # "none"} \cup {s \in Streams : made[s]}
Bounded == Cardinality(Started') <= MaxActors

Init == FilesInit /\ OpsInit /\ StreamInit

\* The pool executes what it is given, and the loop polls for the results.
Pool ==
    \/ \E c \in calls : Execute(c) /\ UNCHANGED <<operations, streams>>
    \/ \E c \in calls : Callbacks(c) /\ UNCHANGED streams
    \/ \E c \in calls : StreamCallbacks(c) /\ UNCHANGED operations

Next ==
    \/ Pool
    \/ Calls /\ UNCHANGED streams /\ Bounded
    \/ StreamProgram /\ UNCHANGED operations /\ Bounded

Spec == Init /\ [][Next]_vars
FairSpec == Spec /\ WF_vars(Pool)

-----------------------------------------------------------------------------
(* Properties.                                                             *)

\* An operation only ever uses descriptors that it opened itself, although
\* numbers are given out again at once.  It takes a stream closed with a read
\* under way, or closed twice while it was being opened, to meet another's.
OwnDescriptors == strays # {} => \E s \in strays \cap Streams : interrupted[s]

\* Unless one of these exceptions happens, readFile gives its whole file in
\* order, and a stream its part of the file in order, up to the end.
Part(a, first, last) == [i \in 1 .. last - first + 1 |-> [of |-> a, at |-> first + i - 1]]
First(s) == IF start[s] = -1 THEN 0 ELSE start[s]
LastOf(s) == IF start[s] # -1 /\ End < Size - 1 THEN End ELSE Size - 1
WholeFiles ==
    strays = {} =>
        /\ \A o \in Operations : kind[o] \in Readers /\ result[o] = "ok"
                => got[o] = Part(o, 0, Size - 1)
        /\ \A s \in Streams : pushed[s] = Part(s, First(s), First(s) + Len(pushed[s]) - 1)
        /\ \A s \in Streams : ended[s] => pushed[s] = Part(s, First(s), LastOf(s))

\* What is over has closed its descriptor, except after a failed read of
\* readFile and readdir, a failed write of appendFile, and of a stream that was
\* destroyed before its open returned.
Over(a) ==
    /\ InFlight(a) = {}
    /\ IF a \in Streams THEN closed[a] \/ destroyed[a]
       ELSE /\ kind[a] \notin {"none", "open"}
            /\ ~(kind[a] \in Readers /\ failed[a] = "read")
            /\ ~(kind[a] = "appendFile" /\ failed[a] = "write")
NothingLeaks ==
    \A a \in Actors : Over(a) /\ (a \in Streams => ~early[a]) => \A f \in Fds : owner[f] # a

\* read() gives what is at its position, unless another read of the descriptor
\* ran between its lseek and its read; position 0 is wherever the last read ended.
PositionsRespected ==
    \A o \in Operations : kind[o] = "read" /\ ~disturbed[o] /\ position[o] # 0 =>
        \A i \in DOMAIN got[o] : got[o][i].at = position[o]

\* The bytes that callers are given are those they asked for.
RightBytes == WholeFiles /\ PositionsRespected

\* Every function that was called calls back in the end, but appendFile.
AllAnswered ==
    \A o \in Operations : kind[o] # "none" ~> callbacks[o] > 0 \/ kind[o] = "appendFile"

\* And it calls back once, but open, when it fails.
AnsweredOnce ==
    \A o \in Operations : callbacks[o] > 1 => kind[o] = "open" /\ failed[o] = "open"

-----------------------------------------------------------------------------
(* The inductive invariant of the proofs.  TypeOK has the types that matter.*)

Handles == Fds \cup {NullFd, BadFd}
Owners  == Actors \cup {Program, Nobody}
ACall   == [by : Actors, sys : Sys, fd : Handles, at : Int, n : Nat, res : Int,
            data : [of : Owners, at : Int]]

TypeOK ==
    /\ calls \subseteq ACall /\ strays \subseteq Actors
    /\ owner \in [Fds -> Owners] /\ offset \in [Fds -> Int]
    /\ kind \in [Operations -> Kinds \cup {"none", "close"}]
    /\ position \in [Operations -> Int]
    /\ callbacks \in [Operations -> Nat] /\ result \in [Operations -> {"none", "error", "ok"}]
    /\ failed \in [Operations -> Sys \cup {"none"}]
    /\ sfd \in [Streams -> Handles] /\ pos \in [Streams -> Int]
    /\ onOpen \in [Streams -> Seq({"read", "close"})]
    /\ made \in [Streams -> BOOLEAN] /\ destroyed \in [Streams -> BOOLEAN]
    /\ closed \in [Streams -> BOOLEAN] /\ early \in [Streams -> BOOLEAN]
    /\ interrupted \in [Streams -> BOOLEAN]

\* What a call in flight has to do with a descriptor.
Gives(c, f)  == c.sys = "open" /\ c.res = f
Closes(c, f) == c.sys = "close" /\ c.res = Waiting /\ c.fd = f
Uses(c, f)   == (c.sys \in {"lseek", "read", "write"} /\ c.fd = f) \/ Closes(c, f)

\* The program's descriptor is never closed; nobody else has more than one.
CallOK(c) ==
    /\ c.fd = ProgramFd => c.by \in Operations /\ kind[c.by] = "read"
    /\ c.sys = "open" =>
        /\ c.res \in (Fds \ {ProgramFd}) \cup {Failed, Waiting}
        /\ c.res = Waiting => \A f \in Fds : owner[f] # c.by
TableOK ==
    /\ \A f \in Fds : owner[f] = Program <=> f = ProgramFd
    /\ \A f, g \in Fds : owner[f] \in Actors /\ owner[f] = owner[g] => f = g
    /\ \A c \in calls : CallOK(c)

\* The calls that an operation makes.
Fits(o, c) ==
    \/ c.sys = "open" /\ kind[o] \in Opening
    \/ c.sys \in {"lseek", "read"} /\ kind[o] = "read" /\ c.fd = ProgramFd
    \/ c.sys = "read" /\ kind[o] \in Readers
    \/ c.sys = "write" /\ kind[o] = "writeFile"
    \/ c.sys = "close" /\ kind[o] \notin {"none", "open", "read"}

\* An operation makes its calls one after another, and what it owns is in use or
\* is known to leak.
Keeps(o, f) ==
    \/ \E c \in InFlight(o) : Gives(c, f) \/ Uses(c, f)
    \/ kind[o] = "open"
    \/ kind[o] \in Readers /\ failed[o] = "read"
    \/ kind[o] = "appendFile" /\ failed[o] = "write"

OperationOK(o) ==
    /\ \A c \in InFlight(o) : InFlight(o) = {c} /\ Fits(o, c)
    /\ kind[o] = "none" => /\ InFlight(o) = {} /\ callbacks[o] = 0 /\ failed[o] = "none"
                           /\ \A f \in Fds : owner[f] # o
    /\ \A f \in Fds : owner[f] = o => Keeps(o, f)
    /\ \A c \in InFlight(o) : c.sys # "close" => callbacks[o] = 0 /\ failed[o] = "none"
    /\ callbacks[o] > 1 => kind[o] = "open" /\ failed[o] = "open" /\ result[o] = "error"

\* A stream owns what its fd names, or what will be closed.
StreamOK(s) ==
    /\ ~made[s] => InFlight(s) = {} /\ sfd[s] = NullFd /\ ~destroyed[s] /\ ~closed[s]
                   /\ ~interrupted[s] /\ \A f \in Fds : owner[f] # s
    /\ \A c \in InFlight(s) : c.sys = "open" =>
        /\ InFlight(s) = {c} /\ sfd[s] = NullFd /\ ~interrupted[s] /\ ~closed[s]
        /\ destroyed[s] => early[s]
    /\ sfd[s] \in Fds => sfd[s] # ProgramFd /\ ~closed[s] /\ (destroyed[s] => early[s])
    /\ \A f \in Fds : owner[f] = s =>
        sfd[s] = f \/ \E c \in InFlight(s) : Gives(c, f) \/ Closes(c, f)

\* As long as no interrupted stream met another's descriptor, every descriptor in
\* use is its user's own.
OwnOperation(o) ==
    \A c \in InFlight(o) : \A f \in Fds : Gives(c, f) \/ Uses(c, f) => owner[f] \in {o, Program}
OwnStream(s) ==
    ~interrupted[s] =>
        /\ \A f \in Fds : sfd[s] = f => owner[f] = s
        /\ \A c \in InFlight(s) : \A f \in Fds :
            /\ Gives(c, f) \/ Uses(c, f) => owner[f] = s
            /\ Closes(c, f) => sfd[s] = NullFd /\ InFlight(s) = {c}
Stray == \E s \in strays \cap Streams : interrupted[s]
OwnOK ==
    \/ Stray
    \/ strays = {} /\ (\A o \in Operations : OwnOperation(o)) /\ (\A s \in Streams : OwnStream(s))

IInv ==
    /\ TypeOK /\ TableOK /\ OwnOK
    /\ \A o \in Operations : OperationOK(o)
    /\ \A s \in Streams : StreamOK(s)

-----------------------------------------------------------------------------
(* What RightBytes rests on besides: how far each chain of reads has come in *)
(* its file, as long as nobody strayed.                                      *)

AChunk == [of : Owners, at : Int]
BytesTypes ==
    /\ got \in [Operations -> Seq(AChunk)] /\ disturbed \in [Operations -> BOOLEAN]
    /\ start \in [Streams -> Int] /\ pushed \in [Streams -> Seq(AChunk)]
    /\ reading \in [Streams -> BOOLEAN] /\ ended \in [Streams -> BOOLEAN]

\* The chunks of q are those of a's file from the one numbered first on.
InPlace(q, a, first) == \A i \in 1 .. Len(q) : q[i] = [of |-> a, at |-> first + i - 1]

\* A descriptor that a owns is at chunk n.
AtChunk(a, f, n) == f \in Fds /\ owner[f] = a => offset[f] = n

\* A call that opens, seeks or reads for an actor whose next chunk is n.
Seeks(c) == c.sys \in {"lseek", "read"}
ChainOK(c, n) ==
    /\ c.sys = "open" => \A f \in Fds : Gives(c, f) => AtChunk(c.by, f, 0)
    /\ c.sys = "lseek" =>
        /\ c.at = n
        /\ c.res \notin {Waiting, Failed} => AtChunk(c.by, c.fd, n)
    /\ c.sys = "read" =>
        /\ c.res \in {Waiting, Failed, 0, 1}
        /\ c.res = Waiting => AtChunk(c.by, c.fd, n)
        /\ c.res = 0 => n >= Size
        /\ c.res = 1 => /\ n < Size /\ c.data = [of |-> c.by, at |-> n]
                        /\ AtChunk(c.by, c.fd, n + 1)

\* readFile and readdir.
ReaderOK(o) ==
    /\ kind[o] = "none" => result[o] # "ok"
    /\ kind[o] \in Readers =>
        /\ InPlace(got[o], o, 0) /\ Len(got[o]) <= Size
        /\ result[o] = "ok" => Len(got[o]) = Size
        /\ \A c \in InFlight(o) : ChainOK(c, Len(got[o])) /\ (c.sys = "open" => got[o] = <<>>)

\* The chunks that a stream has pushed are a front of its part of the file.
NextChunk(s) == First(s) + Len(pushed[s])
PushedOK(s) ==
    /\ InPlace(pushed[s], s, First(s))
    /\ Len(pushed[s]) > 0 => NextChunk(s) <= LastOf(s) + 1
    /\ ended[s] => NextChunk(s) > LastOf(s)

\* A stream has one read under way while it is `reading`; pos is ahead by it.
BeginsOK(s) ==
    /\ start[s] >= -1 /\ start[s] <= End /\ pos[s] >= -1 /\ (pos[s] = -1 <=> start[s] = -1)
    /\ ~made[s] => pushed[s] = <<>> /\ ~ended[s] /\ ~reading[s]
ReadingOK(s, c) ==
    /\ ChainOK(c, NextChunk(s))
    /\ c.sys = "open" => pushed[s] = <<>> /\ pos[s] = start[s]
    /\ Seeks(c) =>
        /\ reading[s] /\ sfd[s] \in {NullFd, c.fd}
        /\ \A d \in InFlight(s) : Seeks(d) => d = c
        /\ pos[s] # -1 => pos[s] = NextChunk(s) + 1 /\ NextChunk(s) <= End
IdleOK(s) ==
    ~reading[s] /\ ~ended[s] /\ sfd[s] # NullFd =>
        /\ AtChunk(s, sfd[s], NextChunk(s))
        /\ pos[s] # -1 => pos[s] = NextChunk(s)
StreamReadsOK(s) ==
    BeginsOK(s) /\ PushedOK(s) /\ IdleOK(s) /\ \A c \in InFlight(s) : ReadingOK(s, c)

\* read() at a position, alone with the program's descriptor.
Sought(c) ==
    \/ c.sys = "lseek" /\ c.res \notin {Waiting, Failed}
    \/ c.sys = "read" /\ c.res = Waiting
AtPosition(o) ==
    /\ \A i \in 1 .. Len(got[o]) : got[o][i].at = position[o]
    /\ \A c \in InFlight(o) :
        /\ c.sys = "lseek" => c.at = position[o]
        /\ Sought(c) => offset[ProgramFd] = position[o]
        /\ c.sys = "read" /\ c.res > 0 => c.data.at = position[o]
PositionOK(o) ==
    kind[o] = "read" /\ ~disturbed[o] =>
        /\ o \in Reads => Reads = {o}
        /\ position[o] # 0 => AtPosition(o)

BytesInv ==
    /\ BytesTypes /\ \A o \in Operations : PositionOK(o) /\ (kind[o] = "none" => got[o] = <<>>)
    /\ strays = {} => (\A o \in Operations : ReaderOK(o)) /\ (\A s \in Streams : StreamReadsOK(s))

==============================================================================
