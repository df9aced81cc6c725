------------------------------- MODULE Inotify -------------------------------
(***************************************************************************)
(* class Inotify of full-js/src/libaio/inotify.ts, on which FSWatcher of   *)
(* fs.ts is built: paths under watch, and a chain of timers that reads the *)
(* events of an inotify descriptor without blocking.                       *)
(*                                                                         *)
(* fd, wd, wdr, wdCount, timeout are the fields of the object.  The kernel *)
(* is a model of inotify(7): one watch per inode, numbered upwards in each *)
(* instance, and an IN_IGNORED event when a watch is removed.              *)
(*                                                                         *)
(* A definition named Mutant... is no part of the model: it is the         *)
(* definition that follows it with one plausible bug.                      *)
(***************************************************************************)
EXTENDS Integers, Sequences, FiniteSets

CONSTANTS
    Paths,      \* the paths the program watches
    Inodes,     \* the files
    Inode,      \* the file a path leads to; several paths may lead to one
    MaxWd,      \* bound: watches ever added to an instance
    MaxStarts,  \* bound: successful calls of start()
    MaxCount,   \* bound: wdCount
    MaxEvents,  \* bound: events of file changes that wait in the kernel
    BufEvents   \* events that fit into buf

CONSTANT NoPath
ASSUME PathsAssumption ==
    /\ IsFiniteSet(Paths) /\ NoPath \notin Paths
    /\ Inode \in [Paths -> Inodes]
ASSUME NumbersAssumption ==
    /\ MaxWd \in Nat /\ MaxStarts \in Nat /\ MaxCount \in Nat
    /\ MaxEvents \in Nat /\ BufEvents \in Nat \ {0}

Wds == 1 .. MaxWd

VARIABLES
    fd,                 \* 1 open, 0 none, -1 the error start() threw
    wd, wdr, wdCount,   \* path -> watch (0 none); watch -> path; their count
    timeout,            \* the timer in this.timeout: "none", "pending", "fired"
    orphans,            \* pending timers that no field holds any more
    js,                 \* "idle", "batch" (in poll), "handler" (in onevent)
    events, event,      \* events read and not yet reported; the one reported
    watch, nextWd,      \* kernel: inode -> watch (0 none); number of the next one
    queue,              \* kernel: events not yet read
    starts,             \* instances so far, the number of the current one
    overlap,            \* history: addPath started a chain beside a running one
    stray,              \* history: poll read descriptor 0
    cleared             \* history: clearTimeout was given a timer that had fired

object == <<fd, wd, wdr, wdCount>>
timers == <<timeout, orphans>>
thread == <<js, events, event>>
kernel == <<watch, nextWd, queue>>
history == <<overlap, stray, cleared>>
vars == <<object, timers, thread, kernel, starts, history>>

Event == [wd : Wds, inode : Inodes, instance : 1 .. MaxStarts]
Silent == [wd |-> 0, path |-> NoPath]    \* between two events, and an event of zeros

Watched == {p \in Paths : wd[p] # 0}
Chains  == orphans + (IF timeout = "pending" THEN 1 ELSE 0) + (IF js = "idle" THEN 0 ELSE 1)

Init ==
    /\ fd = 0
    /\ wd = [p \in Paths |-> 0] /\ wdr = [w \in Wds |-> NoPath] /\ wdCount = 0
    /\ timeout = "none" /\ orphans = 0
    /\ js = "idle" /\ events = <<>> /\ event = Silent
    /\ watch = [i \in Inodes |-> 0] /\ nextWd = 1 /\ queue = <<>>
    /\ starts = 0
    /\ overlap = FALSE /\ stray = FALSE /\ cleared = FALSE

-----------------------------------------------------------------------------
(* What the program calls, from a task of the loop or from onevent.        *)

Program == js \in {"idle", "handler"}

\* setTimeout(pollBound): a timer that this.timeout held goes on without it.
SetTimeout ==
    /\ timeout' = "pending"
    /\ orphans' = orphans + (IF timeout = "pending" THEN 1 ELSE 0)

\* nextTick(), for the values hasStarted() and wdCount have by then.
MutantPolls(started, count) == started /\ count > 1
Polls(started, count) == started /\ count # 0
NextTick(started, count) ==
    IF Polls(started, count) THEN SetTimeout ELSE UNCHANGED timers

\* start() on an object that is not started; start() of a started one would
\* forget its descriptor.
Start ==
    /\ Program /\ fd # 1 /\ starts < MaxStarts
    /\ fd' = 1 /\ starts' = starts + 1
    /\ watch' = [i \in Inodes |-> 0] /\ nextWd' = 1 /\ queue' = <<>>
    /\ UNCHANGED <<wd, wdr, wdCount, timers, thread, history>>

\* inotify_init1 fails: start() throws, with the error number left in fd.
StartFails ==
    /\ Program /\ fd # 1
    /\ fd' = -1
    /\ UNCHANGED <<wd, wdr, wdCount, timers, thread, kernel, starts, history>>

\* addPath(): inotify_add_watch gives the watch of the inode if there is one.
MutantReverse(w, p) == [wdr EXCEPT ![wdCount + 1] = p]
Reverse(w, p) == [wdr EXCEPT ![w] = p]

AddPath(p) ==
    LET i   == Inode[p]
        new == watch[i] = 0
        w   == IF new THEN nextWd ELSE watch[i]
    IN  /\ Program /\ fd = 1 /\ wdCount < MaxCount
        /\ new => nextWd <= MaxWd
        /\ watch' = [watch EXCEPT ![i] = w]
        /\ nextWd' = IF new THEN nextWd + 1 ELSE nextWd
        /\ wdCount' = wdCount + 1
        /\ wd' = [wd EXCEPT ![p] = w]
        /\ wdr' = Reverse(w, p)
        /\ IF wdCount' = 1 THEN NextTick(TRUE, 1) /\ overlap' = (overlap \/ Chains > 0)
                    ELSE UNCHANGED <<timers, overlap>>
        /\ UNCHANGED <<fd, thread, queue, starts, stray, cleared>>

\* inotify_rm_watch of a watch that may be gone: IN_IGNORED is queued for it.
Owner(w) == {i \in Inodes : watch[i] = w}
Ignored(w) ==
    IF Owner(w) = {} THEN <<>>
    ELSE <<[wd |-> w, inode |-> CHOOSE i \in Owner(w) : TRUE, instance |-> starts]>>
Unwatch(w) == [i \in Inodes |-> IF watch[i] = w THEN 0 ELSE watch[i]]

RemovePath(p) ==
    /\ Program /\ wd[p] # 0
    /\ wd' = [wd EXCEPT ![p] = 0]
    /\ wdr' = [wdr EXCEPT ![wd[p]] = NoPath]
    /\ wdCount' = wdCount - 1
    /\ watch' = Unwatch(wd[p])
    /\ queue' = queue \o Ignored(wd[p])
    /\ UNCHANGED <<fd, timers, thread, nextWd, starts, history>>

\* stop(): clearTimeout() throws on an object whose timeout was never set, before
\* anything changed; else the timer is cleared, all paths removed, fd closed.
MutantStopTimer == timeout' = timeout
StopTimer == timeout' = "none"

Stop ==
    /\ Program /\ timeout # "none"
    /\ StopTimer
    /\ cleared' = (cleared \/ timeout = "fired")
    /\ wd' = [p \in Paths |-> 0]
    /\ wdr' = [w \in Wds |-> IF \E p \in Paths : wd[p] = w THEN NoPath ELSE wdr[w]]
    /\ wdCount' = wdCount - Cardinality(Watched)
    /\ fd' = 0
    /\ watch' = [i \in Inodes |-> 0] /\ queue' = <<>>
    /\ UNCHANGED <<orphans, thread, nextWd, starts, overlap, stray>>

-----------------------------------------------------------------------------
(* poll(), called by the timers.                                           *)

Read ==
    LET n == IF Len(queue) < BufEvents THEN Len(queue) ELSE BufEvents
    IN  /\ events' = SubSeq(queue, 1, n)
        /\ queue' = SubSeq(queue, n + 1, Len(queue))

\* EAGAIN and errors are a read of no events; with fd = 0 poll reads whatever
\* descriptor 0 is, and finds no path in wdr for what it takes for events.
Poll ==
    /\ js = "idle"
    /\ \/ timeout = "pending" /\ timeout' = "fired" /\ UNCHANGED orphans
       \/ orphans > 0 /\ orphans' = orphans - 1 /\ UNCHANGED timeout
    /\ IF fd = 1 THEN Read ELSE events' = <<>> /\ UNCHANGED queue
    /\ stray' = (stray \/ fd = 0)
    /\ js' = "batch"
    /\ UNCHANGED <<object, event, watch, nextWd, starts, overlap, cleared>>

\* The event that is unpacked next.  start() makes a new buf, of zeros: the rest of what
\* was read before comes as events of no watch (16 bytes each; here as many as it had).
Unpacked(e) ==
    IF e.instance = starts THEN [wd |-> e.wd, path |-> wdr[e.wd]] ELSE Silent

\* The lookup of event.path, and the call of onevent.
Report ==
    /\ js = "batch" /\ events # <<>>
    /\ event' = Unpacked(Head(events))
    /\ js' = "handler"
    /\ UNCHANGED <<object, timers, events, kernel, starts, history>>

HandlerReturns ==
    /\ js = "handler"
    /\ js' = "batch" /\ event' = Silent /\ events' = Tail(events)
    /\ UNCHANGED <<object, timers, kernel, starts, history>>

PollEnds ==
    /\ js = "batch" /\ events = <<>>
    /\ NextTick(fd # 0, wdCount)
    /\ js' = "idle"
    /\ UNCHANGED <<object, events, event, kernel, starts, history>>

Loop == Poll \/ Report \/ HandlerReturns \/ PollEnds

-----------------------------------------------------------------------------
(* The kernel.                                                             *)

ChangeOf(i) == [wd |-> watch[i], inode |-> i, instance |-> starts]

\* A watched file changes.
Change(i) ==
    /\ watch[i] # 0 /\ Len(queue) < MaxEvents
    /\ queue' = Append(queue, ChangeOf(i))
    /\ UNCHANGED <<object, timers, thread, watch, nextWd, starts, history>>

\* A watched file is deleted, and its watch with it; another may take its path.
\* IN_DELETE_SELF and IN_IGNORED are one event here.
Delete(i) ==
    /\ watch[i] # 0 /\ Len(queue) < MaxEvents
    /\ queue' = Append(queue, ChangeOf(i))
    /\ watch' = [watch EXCEPT ![i] = 0]
    /\ UNCHANGED <<object, timers, thread, nextWd, starts, history>>

Next ==
    \/ Loop
    \/ Start \/ StartFails \/ Stop
    \/ \E p \in Paths : AddPath(p) \/ RemovePath(p)
    \/ \E i \in Inodes : Change(i) \/ Delete(i)

Spec == Init /\ [][Next]_vars

\* The loop runs the timers, and callbacks return.
FairSpec == Spec /\ WF_vars(Loop)

-----------------------------------------------------------------------------
(* Properties.                                                             *)

\* No path was added twice: wdCount is the number of paths.
CountedOnce == wdCount = Cardinality(Watched)

\* An event is reported under a path of its file, and without a path only when
\* no path of it is left, or when one of two paths to the same file was removed.
\* Events that were read before a handler restarted the object are lost (Unpacked).
EventsNamed ==
    js = "handler" /\ Head(events).instance = starts =>
        IF event.path # NoPath
        THEN Inode[event.path] = Head(events).inode
        ELSE \A p \in Paths : wd[p] = event.wd =>
                 \E q \in Paths \ {p} : Inode[q] = Inode[p]

\* While paths are watched, each counted once, some timer will poll: removing
\* the last path and adding another never leaves the watcher asleep.
PollsWhileWatching ==
    fd = 1 /\ CountedOnce /\ wdCount > 0 /\ ~cleared => Chains > 0

\* After stop() no timer goes on to read descriptor 0, which is not its own:
\* that takes a path added again before the last poll of the former chain.
NoStrayRead == stray => overlap

\* The inductive invariant of the proofs.  A watch of the kernel, the paths and
\* the events that name its number are of one file; a watch that is alive has a
\* name in wdr, as the removal of any of its paths ends it.
HistoryOK == overlap \in BOOLEAN /\ stray \in BOOLEAN /\ cleared \in BOOLEAN

TypeOK ==
    /\ fd \in {-1, 0, 1} /\ starts \in 0 .. MaxStarts /\ (fd = 1 => starts > 0)
    /\ wd \in [Paths -> Wds \cup {0}] /\ wdr \in [Wds -> Paths \cup {NoPath}]
    /\ wdCount \in Nat /\ orphans \in Nat
    /\ timeout \in {"none", "pending", "fired"}
    /\ js \in {"idle", "batch", "handler"}
    /\ events \in Seq(Event) /\ queue \in Seq(Event)
    /\ event \in [wd : Wds \cup {0}, path : Paths \cup {NoPath}]
    /\ watch \in [Inodes -> Wds \cup {0}] /\ nextWd \in 1 .. MaxWd + 1
    /\ HistoryOK

ChainsOK ==
    /\ Cardinality(Watched) <= wdCount
    /\ fd # 1 => Watched = {}
    /\ fd = 0 => timeout # "pending"
    /\ ~overlap => orphans = 0 /\ (js # "idle" => timeout # "pending")

WatchesOK ==
    /\ fd # 1 => queue = <<>> /\ \A i \in Inodes : watch[i] = 0
    /\ \A i \in Inodes : watch[i] # 0 =>
        /\ watch[i] < nextWd /\ wdr[watch[i]] # NoPath
        /\ \A j \in Inodes : watch[j] = watch[i] => j = i
        /\ Inode[wdr[watch[i]]] = i
    /\ \A p \in Paths : wd[p] # 0 =>
        /\ wd[p] < nextWd
        /\ \A i \in Inodes : watch[i] = wd[p] => Inode[p] = i
        /\ wdr[wd[p]] # NoPath => Inode[wdr[wd[p]]] = Inode[p]
        /\ wdr[wd[p]] = NoPath => \E q \in Paths \ {p} : Inode[q] = Inode[p]
        /\ \A q \in Paths : wd[q] = wd[p] => Inode[q] = Inode[p]

OfFile(e) ==
    e.instance = starts =>
        /\ e.wd < nextWd
        /\ wdr[e.wd] # NoPath => Inode[wdr[e.wd]] = e.inode
        /\ \A i \in Inodes : watch[i] = e.wd => i = e.inode
        /\ \A p \in Paths : wd[p] = e.wd => Inode[p] = e.inode

EventsOK ==
    /\ \A n \in 1 .. Len(queue) : OfFile(queue[n]) /\ queue[n].instance = starts
    /\ \A n \in 1 .. Len(events) : OfFile(events[n]) /\ events[n].instance <= starts

HandlerOK ==
    js = "handler" =>
        /\ events # <<>>
        /\ Head(events).instance = starts =>
            /\ event.wd = Head(events).wd
            /\ event.path = NoPath => \A i \in Inodes : watch[i] # event.wd

ChainsInv == ChainsOK /\ PollsWhileWatching /\ NoStrayRead
NamesInv  == WatchesOK /\ EventsOK /\ HandlerOK /\ EventsNamed
IInv      == TypeOK /\ ChainsInv /\ NamesInv

\* What the kernel reports is read in the end, for as long as a path is watched.
EventsRead ==
    queue # <<>> ~> queue = <<>> \/ fd # 1 \/ wdCount = 0 \/ ~CountedOnce \/ cleared

==============================================================================
