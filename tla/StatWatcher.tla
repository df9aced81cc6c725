----------------------------- MODULE StatWatcher -----------------------------
(***************************************************************************)
(* watchFile, unwatchFile and class StatWatcher of full-js/src/lib/fs.ts:  *)
(* a file is asked for its status again and again, through asynchronous    *)
(* calls whose answers may come late and in any order.                     *)
(*                                                                         *)
(* One file name is watched.  StatWatcher.map has a watcher for it or not; *)
(* watchers are numbered as they are made.  What stat returns is abstracted*)
(* to the version of the file: the code compares only atime.               *)
(*                                                                         *)
(* A definition named Mutant... is no part of the model: it is the         *)
(* definition that follows it with one plausible bug.                      *)
(***************************************************************************)
EXTENDS Integers

CONSTANTS
    MaxWatchers,    \* bound: watchers ever made
    MaxListeners,   \* bound: listeners of a watcher
    MaxCalls,       \* bound: stat calls of a watcher in flight
    MaxVersion      \* bound: versions of the file

ASSUME NumbersAssumption ==
    /\ MaxWatchers \in Nat /\ MaxListeners \in Nat
    /\ MaxCalls \in Nat \ {0} /\ MaxVersion \in Nat \ {0}

Watchers == 1 .. MaxWatchers
Calls    == 1 .. MaxCalls
Versions == 1 .. MaxVersion
Unread   == 0       \* the call was not executed yet
Missing  == -1      \* the call found no file

NoCall   == [for |-> "none", got |-> Unread]
NoChange == [by |-> 0, curr |-> 0, prev |-> 0]

VARIABLES
    map,        \* StatWatcher.map[filename], 0 for none
    made,       \* watchers made so far
    listeners,  \* listenerCount('change') of each watcher
    interval,   \* "undefined", "running", "cleared"
    last,       \* the version in this.last, 0 for null
    calls,      \* the stat calls in flight of each watcher
    file,       \* the version of the file
    exists,     \* is there a file of that name
    change,     \* the 'change' event that was just emitted
    overlap,    \* history: two calls of the watcher were in flight at once
    broken      \* history: an interval was cleared twice

objects == <<map, made, listeners, interval, last>>
disk    == <<file, exists>>
vars    == <<objects, calls, disk, change, overlap, broken>>

Call == {NoCall} \cup [for : {"start", "loop"}, got : {Unread, Missing} \cup Versions]

InFlight(w) == {k \in Calls : calls[w][k] # NoCall}
Starting(w) == \E k \in Calls : calls[w][k].for = "start"

Init ==
    /\ map = 0 /\ made = 0
    /\ listeners = [w \in Watchers |-> 0]
    /\ interval = [w \in Watchers |-> "undefined"]
    /\ last = [w \in Watchers |-> 0]
    /\ calls = [w \in Watchers |-> [k \in Calls |-> NoCall]]
    /\ file = 1 /\ exists \in BOOLEAN
    /\ change = NoChange
    /\ overlap = [w \in Watchers |-> FALSE] /\ broken = FALSE

\* stat(filename, callback): the call is handed to the pool.
Send(w, for) ==
    \E k \in Calls :
        /\ calls[w][k] = NoCall /\ \A j \in 1 .. k - 1 : calls[w][j] # NoCall
        /\ calls' = [calls EXCEPT ![w] = [@ EXCEPT ![k] = [for |-> for, got |-> Unread]]]
        /\ overlap' = [overlap EXCEPT ![w] = @ \/ InFlight(w) # {}]

-----------------------------------------------------------------------------
(* What the program calls.                                                 *)

\* watchFile(): the watcher of the map, or a new one whose first stat is sent.
WatchFile ==
    \/ \E w \in Watchers :
        /\ map = 0 /\ w = made + 1
        /\ made' = w /\ map' = w
        /\ Send(w, "start")
        /\ listeners' = [listeners EXCEPT ![w] = 1]
        /\ change' = NoChange
        /\ UNCHANGED <<interval, last, disk, broken>>
    \/ \E w \in Watchers :
        /\ map = w /\ listeners[w] < MaxListeners
        /\ listeners' = [listeners EXCEPT ![w] = @ + 1]
        /\ change' = NoChange
        /\ UNCHANGED <<map, made, interval, last, calls, disk, overlap, broken>>

\* stop(): clearInterval(undefined) throws, and nothing after it is done.  To
\* clear an interval a second time breaks the queue of the loop (EventQueue).
MutantThrows(w) == FALSE
Throws(w) == interval[w] = "undefined"

LastAfterStop(w) == 0

StopInterval(w) ==
    IF Throws(w) THEN UNCHANGED <<interval, last, broken>>
    ELSE /\ interval' = [interval EXCEPT ![w] = "cleared"]
         /\ last' = [last EXCEPT ![w] = LastAfterStop(w)]
         /\ broken' = (broken \/ interval[w] = "cleared")

\* unwatchFile(filename, listener) takes one listener away, unwatchFile(filename)
\* all.  The watcher leaves the map if it has none left and stop() returned.
UnwatchFile(n) ==
    \E w \in Watchers :
        /\ map = w
        /\ listeners' = [listeners EXCEPT ![w] = n]
        /\ IF n = 0
           THEN /\ StopInterval(w)
                /\ map' = IF Throws(w) THEN w ELSE 0
           ELSE UNCHANGED <<map, interval, last, broken>>
        /\ change' = NoChange
        /\ UNCHANGED <<made, calls, disk, overlap>>

Unwatch ==
    \/ UnwatchFile(0)
    \/ \E w \in Watchers : map = w /\ listeners[w] > 1 /\ UnwatchFile(listeners[w] - 1)

\* stop() of the watcher that watchFile() returned.
Stop(w) ==
    /\ w <= made
    /\ StopInterval(w)
    /\ change' = NoChange
    /\ UNCHANGED <<map, made, listeners, calls, disk, overlap>>

-----------------------------------------------------------------------------
(* The interval, the threads and the answers.                              *)

\* loop()
IntervalFires(w) ==
    /\ interval[w] = "running"
    /\ Send(w, "loop")
    /\ change' = NoChange
    /\ UNCHANGED <<objects, disk, broken>>

\* A thread of the pool executes stat.
Execute(w) ==
    \E k \in Calls :
        /\ calls[w][k] # NoCall /\ calls[w][k].got = Unread
        /\ calls' = [calls EXCEPT ![w] = [@ EXCEPT ![k] =
                        [for |-> calls[w][k].for, got |-> IF exists THEN file ELSE Missing]]]
        /\ change' = NoChange
        /\ UNCHANGED <<objects, disk, overlap, broken>>

\* The callback of start(); an error is emitted and leaves no interval.
AfterFirst(w, v) ==
    IF v = Missing THEN UNCHANGED <<interval, last>>
    ELSE /\ last' = [last EXCEPT ![w] = v]
         /\ interval' = [interval EXCEPT ![w] = "running"]

\* The event that the callback of loop() emits.
MutantEmitted(w, v) ==
    IF v # Missing /\ last[w] # 0 /\ v # last[w]
    THEN [by |-> w, curr |-> last[w], prev |-> v] ELSE NoChange
Emitted(w, v) ==
    IF v # Missing /\ last[w] # 0 /\ v # last[w]
    THEN [by |-> w, curr |-> v, prev |-> last[w]] ELSE NoChange

Answer(w) ==
    \E k \in Calls :
        LET v == calls[w][k].got
        IN  /\ calls[w][k] # NoCall /\ v # Unread
            /\ calls' = [calls EXCEPT ![w] = [@ EXCEPT ![k] = NoCall]]
            /\ IF calls[w][k].for = "start"
               THEN AfterFirst(w, v) /\ change' = NoChange
               ELSE /\ change' = Emitted(w, v)
                    /\ last' = [last EXCEPT ![w] = IF v = Missing THEN @ ELSE v]
                    /\ UNCHANGED interval
            /\ UNCHANGED <<map, made, listeners, disk, overlap, broken>>

\* The file is accessed, removed or made again.
FileChanges ==
    /\ \/ file < MaxVersion /\ file' = file + 1 /\ exists' = TRUE
       \/ exists /\ exists' = FALSE /\ UNCHANGED file
    /\ change' = NoChange
    /\ UNCHANGED <<objects, calls, overlap, broken>>

Next ==
    \/ WatchFile \/ Unwatch \/ FileChanges
    \/ \E w \in Watchers : Stop(w) \/ IntervalFires(w) \/ Execute(w) \/ Answer(w)

Spec == Init /\ [][Next]_vars

-----------------------------------------------------------------------------
(* Properties.                                                             *)

\* An interval that runs, or that an answer will start, belongs to the watcher in
\* the map: unwatchFile can always reach it, and a file is never asked for twice
\* at a time by two watchers.  It is the exception in stop() that sees to this.
IntervalsReachable ==
    \A w \in Watchers : interval[w] = "running" \/ Starting(w) => map = w

\* A listener is told of a newer version and of the one before, never back in
\* time, unless a second stat was sent before the first was answered.
ChangesGoForward ==
    change # NoChange /\ ~overlap[change.by] => change.prev < change.curr

\* After stop() a watcher is quiet, unless it had more than one stat in flight:
\* the first answer sets last again and the second is compared with it.
QuietAfterStop ==
    change # NoChange /\ interval[change.by] = "cleared" => overlap[change.by]

\* What listeners are told is right.
ChangesRight == ChangesGoForward /\ QuietAfterStop

\* The inductive invariant of the proofs: a watcher that waits for its first stat
\* sends no other; without an overlap at most one call is in flight, its result is
\* no older than last, and last is empty when it comes after stop().
TypeOK ==
    /\ made \in 0 .. MaxWatchers /\ map \in 0 .. made
    /\ listeners \in [Watchers -> Nat]
    /\ interval \in [Watchers -> {"undefined", "running", "cleared"}]
    /\ last \in [Watchers -> 0 .. MaxVersion]
    /\ calls \in [Watchers -> [Calls -> Call]]
    /\ file \in Versions /\ exists \in BOOLEAN
    /\ change = NoChange \/ change \in [by : Watchers, curr : 1 .. MaxVersion, prev : 1 .. MaxVersion]
    /\ overlap \in [Watchers -> BOOLEAN] /\ broken \in BOOLEAN

StartsOK ==
    \A w \in Watchers :
        /\ w > made => interval[w] = "undefined" /\ ~overlap[w] /\ InFlight(w) = {}
        /\ Starting(w) => interval[w] = "undefined" /\ ~overlap[w]

AnswersOK ==
    \A w \in Watchers :
        /\ last[w] <= file
        /\ \A k \in Calls : calls[w][k].got <= file
        /\ ~overlap[w] => \A j, k \in InFlight(w) : j = k
        /\ ~overlap[w] => \A k \in Calls : calls[w][k].got \in Versions => last[w] <= calls[w][k].got
        /\ ~overlap[w] /\ interval[w] = "cleared" => last[w] = 0 \/ InFlight(w) = {}

IInv == TypeOK /\ StartsOK /\ AnswersOK /\ IntervalsReachable /\ ChangesRight

==============================================================================
