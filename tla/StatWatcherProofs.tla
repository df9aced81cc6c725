-------------------------- MODULE StatWatcherProofs --------------------------
(***************************************************************************)
(* What StatWatcher keeps for every number of watchers, listeners, calls   *)
(* and versions: a running interval belongs to the watcher in the map, and *)
(* without overlapping calls listeners are told of newer versions only,    *)
(* and of none after stop().                                               *)
(*                                                                         *)
(* One inductive invariant, IInv of StatWatcher, carries both.  While the  *)
(* first stat of a watcher is in flight its interval is undefined, so that *)
(* stop() throws before unwatchFile takes the watcher out of the map.      *)
(***************************************************************************)
EXTENDS StatWatcher, TLAPS

\* No watcher has the number 0, and no change is made by one.
LEMMA Numbers ==
    /\ \A w \in Watchers : w \in Nat /\ w # 0
    /\ 0 \notin Versions /\ -1 \notin Versions /\ 0 \in 0 .. MaxVersion
    /\ Versions = 1 .. MaxVersion /\ Versions \subseteq 0 .. MaxVersion
BY NumbersAssumption DEF Watchers, Versions

\* At the start no watcher was made.
LEMMA InitIInv == Init => IInv
<1> SUFFICES ASSUME Init PROVE IInv
    OBVIOUS
<1>1. calls \in [Watchers -> [Calls -> Call]] /\ \A w \in Watchers : InFlight(w) = {} /\ ~Starting(w)
    BY DEF Init, Call, InFlight, Starting, NoCall
<1>2. TypeOK
    <2>1. 1 \in Versions /\ 0 \in 0 .. MaxWatchers /\ 0 \in 0 .. MaxVersion
        BY NumbersAssumption DEF Versions
    <2>2. map \in 0 .. made
        BY DEF Init
    <2>3. overlap \in [Watchers -> BOOLEAN] /\ broken \in BOOLEAN /\ exists \in BOOLEAN
        BY DEF Init
    <2> QED BY <1>1, <2>1, <2>2, <2>3 DEF Init, TypeOK
<1>3. AnswersOK
    BY <1>1, NumbersAssumption, Numbers DEF Init, AnswersOK, NoCall, Unread
<1> QED
    BY <1>1, <1>2, <1>3
       DEF Init, IInv, StartsOK, IntervalsReachable, ChangesRight, ChangesGoForward, QuietAfterStop

\* What is said of changes holds when there is none.
LEMMA Quiet == change' = NoChange => ChangesRight' 
BY DEF ChangesRight, ChangesGoForward, QuietAfterStop

\* A call that is sent is unread and belongs to w; it makes an overlap if another
\* call of w is in flight.
LEMMA SendAdds ==
    ASSUME IInv, NEW w \in Watchers, NEW f \in {"start", "loop"}, Send(w, f)
    PROVE  /\ calls' \in [Watchers -> [Calls -> Call]] /\ overlap' \in [Watchers -> BOOLEAN]
           /\ \A u \in Watchers \ {w} : calls'[u] = calls[u] /\ overlap'[u] = overlap[u]
           /\ \A k \in Calls : calls'[w][k] = calls[w][k] \/ calls'[w][k] = [for |-> f, got |-> Unread]
           /\ overlap'[w] = (overlap[w] \/ InFlight(w) # {})
           /\ InFlight(w) = {} => \A i, j \in InFlight(w)' : i = j
<1>1. PICK k \in Calls :
        /\ calls' = [calls EXCEPT ![w] = [@ EXCEPT ![k] = [for |-> f, got |-> Unread]]]
        /\ overlap' = [overlap EXCEPT ![w] = @ \/ InFlight(w) # {}]
    BY DEF Send
<1>2. [for |-> f, got |-> Unread] \in Call
    BY DEF Call, Unread
<1>3. calls' \in [Watchers -> [Calls -> Call]] /\ overlap' \in [Watchers -> BOOLEAN]
    BY <1>1, <1>2 DEF IInv, TypeOK
<1>4. \A u \in Watchers \ {w} : calls'[u] = calls[u] /\ overlap'[u] = overlap[u]
    BY <1>1 DEF IInv, TypeOK
<1>5. \A j \in Calls : calls'[w][j] = IF j = k THEN [for |-> f, got |-> Unread] ELSE calls[w][j]
    BY <1>1 DEF IInv, TypeOK
<1>6. overlap'[w] = (overlap[w] \/ InFlight(w) # {})
    BY <1>1 DEF IInv, TypeOK
<1>7. InFlight(w) = {} => \A i, j \in InFlight(w)' : i = j
    BY <1>5 DEF InFlight
<1> QED BY <1>3, <1>4, <1>5, <1>6, <1>7

\* watchFile() of a file without a watcher: nothing ran or waited, as no watcher
\* was in the map.
LEMMA WatchNewIInv ==
    ASSUME IInv, NEW w \in Watchers, map = 0, w = made + 1, made' = w, map' = w,
           Send(w, "start"), listeners' = [listeners EXCEPT ![w] = 1],
           change' = NoChange, UNCHANGED <<interval, last, disk, broken>>
    PROVE  IInv'
<1> USE DEF IInv, disk
<1>1. /\ calls' \in [Watchers -> [Calls -> Call]] /\ overlap' \in [Watchers -> BOOLEAN]
      /\ \A u \in Watchers \ {w} : calls'[u] = calls[u] /\ overlap'[u] = overlap[u]
      /\ \A k \in Calls : calls'[w][k] = calls[w][k] \/ calls'[w][k] = [for |-> "start", got |-> Unread]
      /\ overlap'[w] = (overlap[w] \/ InFlight(w) # {})
      /\ InFlight(w) = {} => \A i, j \in InFlight(w)' : i = j
    BY SendAdds
<1>2. made \in Nat /\ w > made /\ w \in 0 .. MaxWatchers
    BY NumbersAssumption, Numbers DEF TypeOK, Watchers
<1>3. InFlight(w) = {} /\ interval[w] = "undefined"
    BY <1>2 DEF StartsOK
<1>4. TypeOK'
    <2>1. made' \in 0 .. MaxWatchers /\ map' \in 0 .. made'
        BY <1>2
    <2> QED BY <1>1, <2>1 DEF TypeOK, Watchers
<1>5. \A u \in Watchers : u # w => interval[u] # "running" /\ ~Starting(u)
    BY Numbers DEF IntervalsReachable
<1>6. \A u \in Watchers \ {w} : InFlight(u)' = InFlight(u) /\ (Starting(u)' <=> Starting(u))
    BY <1>1 DEF InFlight, Starting
<1>7. StartsOK'
    <2>1. interval'[w] = "undefined" /\ ~overlap'[w] /\ ~(w > made')
        BY <1>1, <1>2, <1>3 DEF StartsOK
    <2>2. ASSUME NEW u \in Watchers \ {w}
          PROVE  /\ u > made' => interval'[u] = "undefined" /\ ~overlap'[u] /\ InFlight(u)' = {}
                 /\ ~Starting(u)'
        <3>1. u > made' => u > made
            BY <1>2, Numbers
        <3>2. overlap'[u] = overlap[u] /\ InFlight(u)' = InFlight(u) /\ ~Starting(u)'
            BY <1>1, <1>5, <1>6
        <3>3. u > made => interval[u] = "undefined" /\ ~overlap[u] /\ InFlight(u) = {}
            BY DEF StartsOK
        <3> QED BY <3>1, <3>2, <3>3
    <2> QED BY <2>1, <2>2 DEF StartsOK
<1>8. AnswersOK'
    BY <1>1, <1>3, <1>6, Numbers DEF AnswersOK, TypeOK, Unread
<1>9. IntervalsReachable'
    BY <1>3, <1>5, <1>6 DEF IntervalsReachable
<1> QED BY <1>4, <1>7, <1>8, <1>9, Quiet

\* stop() and unwatchFile(): an interval that is cleared leaves last empty; the map
\* loses a watcher only if its interval was defined, so it was not starting.
LEMMA StopIntervalIInv ==
    ASSUME IInv, NEW w \in Watchers, w <= made, StopInterval(w),
           map' \in 0 .. made, map' = map \/ (map = w /\ map' = 0 /\ ~Throws(w)),
           listeners' \in [Watchers -> Nat],
           change' = NoChange, UNCHANGED <<made, calls, disk, overlap>>
    PROVE  IInv'
<1> USE DEF IInv, disk
<1>1. \A u \in Watchers : InFlight(u)' = InFlight(u) /\ (Starting(u)' <=> Starting(u))
    BY DEF InFlight, Starting
<1>2. \A u \in Watchers \ {w} : interval'[u] = interval[u] /\ last'[u] = last[u]
    BY DEF StopInterval, TypeOK
<1>3. /\ interval \in [Watchers -> {"undefined", "running", "cleared"}]
      /\ last \in [Watchers -> 0 .. MaxVersion]
    BY DEF TypeOK
<1>4. \/ interval[w] = "undefined" /\ interval'[w] = "undefined" /\ last'[w] = last[w]
      \/ interval[w] # "undefined" /\ interval'[w] = "cleared" /\ last'[w] = 0
    BY <1>3 DEF StopInterval, Throws, LastAfterStop
<1>5. /\ interval' \in [Watchers -> {"undefined", "running", "cleared"}]
      /\ last' \in [Watchers -> 0 .. MaxVersion]
    BY <1>3, Numbers DEF StopInterval, LastAfterStop
<1>6. broken' \in BOOLEAN
    BY DEF StopInterval, TypeOK
<1>7. TypeOK'
    BY <1>5, <1>6 DEF TypeOK
<1>8. StartsOK'
    BY <1>1, <1>2, <1>4, NumbersAssumption DEF StartsOK, TypeOK, Watchers
<1>9. AnswersOK'
    <2> SUFFICES ASSUME NEW u \in Watchers
                 PROVE  /\ last'[u] <= file
                        /\ ~overlap[u] => \A k \in Calls : calls[u][k].got \in Versions => last'[u] <= calls[u][k].got
                        /\ ~overlap[u] /\ interval'[u] = "cleared" => last'[u] = 0 \/ InFlight(u) = {}
        BY <1>1 DEF AnswersOK
    <2>1. file \in Nat /\ \A k \in Versions : k \in Nat
        BY NumbersAssumption DEF TypeOK, Versions
    <2> QED BY <1>2, <1>4, <2>1 DEF AnswersOK
<1>10. IntervalsReachable'
    <2> SUFFICES ASSUME NEW u \in Watchers, interval'[u] = "running" \/ Starting(u)
                 PROVE  map' = u
        BY <1>1 DEF IntervalsReachable
    <2>1. interval[u] = "running" \/ Starting(u)
        BY <1>2, <1>4
    <2>2. map = u
        BY <2>1 DEF IntervalsReachable
    <2>3. u = w => interval[w] = "undefined"
        BY <1>4, <2>1 DEF StartsOK
    <2> QED BY <2>2, <2>3 DEF Throws
<1> QED BY <1>7, <1>8, <1>9, <1>10, Quiet

\* The interval of a watcher runs, so its first stat was answered.
LEMMA FiresIInv == ASSUME IInv, NEW w \in Watchers, IntervalFires(w) PROVE IInv'
<1> USE DEF IInv, disk, objects
<1>1. Send(w, "loop") /\ interval[w] = "running"
    BY DEF IntervalFires
<1>2. /\ calls' \in [Watchers -> [Calls -> Call]] /\ overlap' \in [Watchers -> BOOLEAN]
      /\ \A u \in Watchers \ {w} : calls'[u] = calls[u] /\ overlap'[u] = overlap[u]
      /\ \A k \in Calls : calls'[w][k] = calls[w][k] \/ calls'[w][k] = [for |-> "loop", got |-> Unread]
      /\ overlap'[w] = (overlap[w] \/ InFlight(w) # {})
      /\ InFlight(w) = {} => \A i, j \in InFlight(w)' : i = j
    BY <1>1, SendAdds
<1>3. UNCHANGED <<map, made, listeners, interval, last, file, exists, broken>> /\ change' = NoChange
    BY DEF IntervalFires
<1>4. ~Starting(w) /\ ~Starting(w)'
    BY <1>1, <1>2 DEF StartsOK, Starting
<1>5. \A u \in Watchers : Starting(u)' <=> Starting(u)
    BY <1>2, <1>4 DEF Starting
<1>6. \A u \in Watchers \ {w} : InFlight(u)' = InFlight(u)
    BY <1>2 DEF InFlight
<1>7. TypeOK'
    BY <1>2, <1>3 DEF TypeOK
<1>8. StartsOK'
    BY <1>1, <1>2, <1>3, <1>5, <1>6 DEF StartsOK
<1>9. AnswersOK'
    <2>1. 0 <= file
        BY NumbersAssumption DEF TypeOK, Versions
    <2> QED BY <1>1, <1>2, <1>3, <1>6, <2>1, Numbers DEF AnswersOK, Unread
<1>10. IntervalsReachable'
    BY <1>3, <1>5 DEF IntervalsReachable
<1> QED BY <1>3, <1>7, <1>8, <1>9, <1>10, Quiet

\* A result is the version of the file, which is no older than last.
LEMMA ExecuteIInv == ASSUME IInv, NEW w \in Watchers, Execute(w) PROVE IInv'
<1> USE DEF IInv, disk, objects
<1> DEFINE got == IF exists THEN file ELSE Missing
<1>1. PICK k \in Calls :
        /\ calls[w][k] # NoCall
        /\ calls' = [calls EXCEPT ![w] = [@ EXCEPT ![k] = [for |-> calls[w][k].for, got |-> got]]]
    BY DEF Execute
<1>2. UNCHANGED <<map, made, listeners, interval, last, file, exists, overlap, broken>> /\ change' = NoChange
    BY DEF Execute
<1>3. calls[w][k] \in [for : {"start", "loop"}, got : {Unread, Missing} \cup Versions]
    BY <1>1 DEF TypeOK, Call
<1>4. [for |-> calls[w][k].for, got |-> got] \in Call /\ [for |-> calls[w][k].for, got |-> got] # NoCall
    BY <1>3 DEF Call, TypeOK, NoCall
<1>5. calls' \in [Watchers -> [Calls -> Call]]
    BY <1>1, <1>4 DEF TypeOK
<1>6. \A u \in Watchers, j \in Calls : calls'[u][j] =
          IF u = w /\ j = k THEN [for |-> calls[w][k].for, got |-> got] ELSE calls[u][j]
    BY <1>1 DEF TypeOK
<1>7. \A u \in Watchers : InFlight(u)' = InFlight(u) /\ (Starting(u)' <=> Starting(u))
    BY <1>1, <1>4, <1>6 DEF InFlight, Starting
<1>8. TypeOK'
    BY <1>2, <1>5 DEF TypeOK
<1>9. StartsOK' /\ IntervalsReachable'
    BY <1>2, <1>7 DEF StartsOK, IntervalsReachable
<1>10. AnswersOK'
    <2>1. got <= file /\ (got \in Versions => got = file)
        BY Numbers, NumbersAssumption DEF TypeOK, Missing, Versions
    <2> QED BY <1>2, <1>6, <1>7, <2>1 DEF AnswersOK
<1> QED BY <1>2, <1>8, <1>9, <1>10, Quiet

\* The answer of the only call in flight is no older than last, and last is empty
\* when it comes after stop().
LEMMA AnswerIInv == ASSUME IInv, NEW w \in Watchers, Answer(w) PROVE IInv'
<1> USE DEF IInv, disk
<1>1. PICK k \in Calls :
        /\ calls[w][k] # NoCall /\ calls[w][k].got # Unread
        /\ calls' = [calls EXCEPT ![w] = [@ EXCEPT ![k] = NoCall]]
        /\ IF calls[w][k].for = "start"
           THEN AfterFirst(w, calls[w][k].got) /\ change' = NoChange
           ELSE /\ change' = Emitted(w, calls[w][k].got)
                /\ last' = [last EXCEPT ![w] = IF calls[w][k].got = Missing THEN @ ELSE calls[w][k].got]
                /\ UNCHANGED interval
        /\ UNCHANGED <<map, made, listeners, file, exists, overlap, broken>>
    BY DEF Answer
<1> DEFINE v == calls[w][k].got
<1>2. /\ calls[w][k] \in [for : {"start", "loop"}, got : {Unread, Missing} \cup Versions]
      /\ v \in {Missing} \cup Versions
    BY <1>1 DEF TypeOK, Call
<1>3. calls' \in [Watchers -> [Calls -> Call]]
    BY <1>1 DEF TypeOK, Call
<1>4. \A u \in Watchers, j \in Calls : calls'[u][j] = IF u = w /\ j = k THEN NoCall ELSE calls[u][j]
    BY <1>1 DEF TypeOK
<1>5. /\ \A u \in Watchers : InFlight(u)' = IF u = w THEN InFlight(w) \ {k} ELSE InFlight(u)
      /\ k \in InFlight(w)
    BY <1>1, <1>4 DEF InFlight
<1>6. \A u \in Watchers : Starting(u)' => Starting(u)
    BY <1>4 DEF Starting, NoCall
<1>7. ~overlap[w] => InFlight(w)' = {} /\ ~Starting(w)'
    <2> SUFFICES ASSUME ~overlap[w] PROVE InFlight(w)' = {} /\ ~Starting(w)'
        OBVIOUS
    <2>1. InFlight(w) = {k}
        BY <1>5 DEF AnswersOK
    <2>2. \A j \in Calls : calls'[w][j] = NoCall
        BY <1>5, <2>1 DEF InFlight
    <2> QED BY <1>5, <2>1, <2>2 DEF Starting, NoCall
<1>8. /\ \A u \in Watchers \ {w} : interval'[u] = interval[u] /\ last'[u] = last[u]
      /\ interval'[w] = interval[w] \/ (calls[w][k].for = "start" /\ interval'[w] = "running")
      /\ last'[w] = IF v = Missing THEN last[w] ELSE v
      /\ interval' \in [Watchers -> {"undefined", "running", "cleared"}]
      /\ last' \in [Watchers -> 0 .. MaxVersion]
    <2>1. /\ interval \in [Watchers -> {"undefined", "running", "cleared"}]
          /\ last \in [Watchers -> 0 .. MaxVersion]
        BY DEF TypeOK
    <2>2. v # Missing => v \in 0 .. MaxVersion
        BY <1>2, Numbers
    <2> QED BY <1>1, <2>1, <2>2 DEF AfterFirst
<1>9. change' = NoChange \/
        /\ calls[w][k].for = "loop" /\ v # Missing /\ last[w] # 0 /\ v # last[w]
        /\ change' = [by |-> w, curr |-> v, prev |-> last[w]]
    BY <1>1, <1>2 DEF Emitted
<1>10. TypeOK'
    <2>1. change' = NoChange \/ change' \in [by : Watchers, curr : 1 .. MaxVersion, prev : 1 .. MaxVersion]
        <3>1. last[w] \in 0 .. MaxVersion
            BY DEF TypeOK
        <3> QED BY <1>2, <1>9, <3>1, Numbers
    <2> QED BY <1>1, <1>3, <1>8, <2>1 DEF TypeOK
<1>11. calls[w][k].for = "start" => Starting(w) /\ interval[w] = "undefined" /\ ~overlap[w] /\ map = w
    BY DEF Starting, StartsOK, IntervalsReachable
<1>12. StartsOK'
    <2>1. w <= made
        BY <1>5 DEF StartsOK, TypeOK, Watchers
    <2>2. \A u \in Watchers : u > made => u # w
        BY <2>1 DEF TypeOK, Watchers
    <2> QED BY <1>1, <1>5, <1>6, <1>7, <1>8, <1>11, <2>2 DEF StartsOK
<1>13. IntervalsReachable'
    BY <1>1, <1>6, <1>8, <1>11 DEF IntervalsReachable
<1>14. AnswersOK'
    <2>1. \A u \in Watchers : last[u] <= file /\ file \in Nat /\ v <= file
        BY NumbersAssumption DEF AnswersOK, TypeOK, Versions
    <2>2. NoCall.got <= file /\ NoCall.got \notin Versions
        BY <2>1, Numbers DEF NoCall, Unread
    <2>3. ASSUME NEW u \in Watchers \ {w}
          PROVE  /\ last'[u] <= file
                 /\ \A j \in Calls : calls'[u][j].got <= file
                 /\ ~overlap[u] => \A i, j \in InFlight(u)' : i = j
                 /\ ~overlap[u] => \A j \in Calls : calls'[u][j].got \in Versions => last'[u] <= calls'[u][j].got
                 /\ ~overlap[u] /\ interval'[u] = "cleared" => last'[u] = 0 \/ InFlight(u)' = {}
        BY <1>4, <1>5, <1>8 DEF AnswersOK
    <2>4. /\ last'[w] <= file
          /\ \A j \in Calls : calls'[w][j].got <= file
        BY <1>4, <1>8, <2>1, <2>2 DEF AnswersOK
    <2>5. ~overlap[w] => \A j \in Calls : calls'[w][j].got \notin Versions
        BY <1>7, <2>2 DEF InFlight
    <2> QED BY <1>1, <1>7, <2>3, <2>4, <2>5 DEF AnswersOK
<1>15. ChangesRight'
    <2> SUFFICES ASSUME change' # NoChange PROVE ChangesRight'
        BY Quiet
    <2>1. ~overlap[w] => last[w] <= v
        BY <1>2, <1>9 DEF AnswersOK
    <2>2. last[w] \in Int /\ v \in Int
        BY <1>2, NumbersAssumption DEF TypeOK, Missing, Versions
    <2>3. interval'[w] = "cleared" => overlap[w]
        BY <1>5, <1>8, <1>9 DEF AnswersOK
    <2>4. change'.by = w /\ change'.curr = v /\ change'.prev = last[w] /\ v # last[w]
        BY <1>9
    <2> QED BY <1>1, <2>1, <2>2, <2>3, <2>4 DEF ChangesRight, ChangesGoForward, QuietAfterStop
<1> QED BY <1>10, <1>12, <1>13, <1>14, <1>15

\* A version of the file is newer than all that was read.
LEMMA FileIInv == ASSUME IInv, FileChanges PROVE IInv'
<1> USE DEF IInv, objects
<1>1. /\ UNCHANGED <<map, made, listeners, interval, last, calls, overlap, broken>>
      /\ file' \in {file, file + 1} /\ file' \in Versions /\ exists' \in BOOLEAN /\ change' = NoChange
    <2>1. /\ UNCHANGED <<map, made, listeners, interval, last, calls, overlap, broken>>
          /\ change' = NoChange /\ exists' \in BOOLEAN
          /\ (file < MaxVersion /\ file' = file + 1) \/ file' = file
        BY DEF FileChanges
    <2>2. file' \in {file, file + 1} /\ file' \in Versions
        BY <2>1, NumbersAssumption DEF TypeOK, Versions
    <2> QED BY <2>1, <2>2
<1>2. TypeOK'
    BY <1>1 DEF TypeOK
<1>3. StartsOK' /\ IntervalsReachable'
    BY <1>1 DEF StartsOK, IntervalsReachable, InFlight, Starting
<1>4. AnswersOK'
    <2>1. \A u \in Watchers : last[u] \in Int /\ \A k \in Calls : calls[u][k].got \in Int
        BY NumbersAssumption DEF TypeOK, Call, NoCall, Unread, Missing, Versions
    <2>2. file \in Int /\ file <= file'
        BY <1>1, NumbersAssumption DEF TypeOK, Versions
    <2> QED BY <1>1, <2>1, <2>2 DEF AnswersOK, InFlight
<1> QED BY <1>1, <1>2, <1>3, <1>4, Quiet

-----------------------------------------------------------------------------

\* Every step keeps the invariant.
LEMMA NextIInv == IInv /\ [Next]_vars => IInv'
<1> SUFFICES ASSUME IInv, [Next]_vars PROVE IInv'
    OBVIOUS
<1>1. CASE WatchFile
    <2>1. CASE \E w \in Watchers :
                /\ map = 0 /\ w = made + 1 /\ made' = w /\ map' = w /\ Send(w, "start")
                /\ listeners' = [listeners EXCEPT ![w] = 1] /\ change' = NoChange
                /\ UNCHANGED <<interval, last, disk, broken>>
        BY <2>1, WatchNewIInv
    <2>2. CASE \E w \in Watchers :
                /\ map = w /\ listeners[w] < MaxListeners
                /\ listeners' = [listeners EXCEPT ![w] = @ + 1] /\ change' = NoChange
                /\ UNCHANGED <<map, made, interval, last, calls, disk, overlap, broken>>
        <3>1. TypeOK'
            BY <2>2 DEF IInv, TypeOK, disk
        <3>2. StartsOK' /\ AnswersOK' /\ IntervalsReachable'
            BY <2>2 DEF IInv, StartsOK, AnswersOK, IntervalsReachable, InFlight, Starting, disk
        <3> QED BY <2>2, <3>1, <3>2, Quiet DEF IInv
    <2> QED BY <1>1, <2>1, <2>2 DEF WatchFile
<1>2. ASSUME NEW n \in Nat, UnwatchFile(n) PROVE IInv'
    <2>1. PICK w \in Watchers :
            /\ map = w /\ listeners' = [listeners EXCEPT ![w] = n]
            /\ IF n = 0 THEN StopInterval(w) /\ map' = (IF Throws(w) THEN w ELSE 0)
                        ELSE UNCHANGED <<map, interval, last, broken>>
            /\ change' = NoChange /\ UNCHANGED <<made, calls, disk, overlap>>
        BY <1>2 DEF UnwatchFile
    <2>2. listeners' \in [Watchers -> Nat] /\ w <= made /\ made \in Nat /\ map \in 0 .. made
        BY <2>1, NumbersAssumption DEF IInv, TypeOK, Watchers
    <2>3. CASE n = 0
        <3>1. map' \in 0 .. made /\ (map' = map \/ (map = w /\ map' = 0 /\ ~Throws(w)))
            BY <2>1, <2>2, <2>3
        <3> QED BY <2>1, <2>2, <2>3, <3>1, StopIntervalIInv
    <2>4. CASE n # 0
        <3>1. TypeOK'
            BY <2>1, <2>2, <2>4 DEF IInv, TypeOK, disk
        <3>2. StartsOK' /\ AnswersOK' /\ IntervalsReachable'
            BY <2>1, <2>4 DEF IInv, StartsOK, AnswersOK, IntervalsReachable, InFlight, Starting, disk
        <3> QED BY <2>1, <3>1, <3>2, Quiet DEF IInv
    <2> QED BY <2>3, <2>4
<1>3. CASE Unwatch
    <2>1. CASE UnwatchFile(0)
        BY <1>2, <2>1
    <2>2. CASE \E w \in Watchers : map = w /\ listeners[w] > 1 /\ UnwatchFile(listeners[w] - 1)
        <3>1. PICK w \in Watchers : listeners[w] > 1 /\ UnwatchFile(listeners[w] - 1)
            BY <2>2
        <3>2. listeners[w] - 1 \in Nat
            BY <3>1 DEF IInv, TypeOK
        <3> QED BY <1>2, <3>1, <3>2
    <2> QED BY <1>3, <2>1, <2>2 DEF Unwatch
<1>4. ASSUME NEW w \in Watchers, Stop(w) PROVE IInv'
    <2>1. map' = map /\ map \in 0 .. made /\ listeners' \in [Watchers -> Nat] /\ map' \in 0 .. made
        BY <1>4 DEF Stop, IInv, TypeOK
    <2>2. w <= made /\ StopInterval(w) /\ change' = NoChange /\ UNCHANGED <<made, calls, disk, overlap>>
        BY <1>4 DEF Stop
    <2> QED BY <2>1, <2>2, StopIntervalIInv
<1>5. CASE UNCHANGED vars
    <2>1. UNCHANGED <<map, made, listeners, interval, last, calls, file, exists, change, overlap, broken>>
        BY <1>5 DEF vars, objects, disk
    <2> QED BY <2>1 DEF IInv, TypeOK, StartsOK, AnswersOK, IntervalsReachable, ChangesRight,
                       ChangesGoForward, QuietAfterStop, InFlight, Starting
<1> QED BY <1>1, <1>3, <1>4, <1>5, FiresIInv, ExecuteIInv, AnswerIInv, FileIInv DEF Next

\* The invariant holds in every state.
THEOREM Invariance == Spec => []IInv
BY InitIInv, NextIInv, PTL DEF Spec

\* A running interval, or one that an answer will start, belongs to the watcher
\* in the map, where unwatchFile finds it: the exception in stop() sees to this.
THEOREM IntervalsAlwaysReachable == Spec => []IntervalsReachable
<1>1. IInv => IntervalsReachable
    BY DEF IInv
<1> QED BY Invariance, <1>1, PTL

\* Without overlapping stat calls a listener is told of newer versions only, and
\* of none after stop().
THEOREM ChangesAlwaysRight == Spec => []ChangesRight
<1>1. IInv => ChangesRight
    BY DEF IInv
<1> QED BY Invariance, <1>1, PTL

=============================================================================
