------------------------- MODULE AsyscallPoolProofs -------------------------
(***************************************************************************)
(* Proofs about AsyscallPool, for every set of threads, every number of    *)
(* calls and every choice of wide and blocking calls, and at the end about *)
(* what its calls, and those made at once, carry: NativeCalls, for every   *)
(* width of the halves and every largest errno.                            *)
(***************************************************************************)
EXTENDS AsyscallPoolInv, NativeCalls, FiniteSetTheorems, TLAPS


LEMMA ThreadsNat == THREADS \in Nat /\ THREADS > 0
  BY ThreadsAssumption, FS_CardinalityType, FS_EmptySet DEF THREADS

\* Blocks and the calls written in them.
LEMMA CallsAreBlocks == Call \subseteq Block
  BY CallsAssumption DEF Call, Block

LEMMA IssuedBlocks ==
  ASSUME TypeOK, ListOK
  PROVE  /\ \A b \in Block : b < curr => b \in Call
         /\ curr \in Int /\ curr + 1 \in Block
  BY CallsAssumption DEF TypeOK, ListOK, Call, Block

\* Init establishes the invariant.
LEMMA InitIInv == Init => IInv
<1> SUFFICES ASSUME Init PROVE IInv
  OBVIOUS
<1> USE CallsAssumption, ThreadsNat DEF Init, Null, Block, Call
<1>1. TypeOK
  BY DEF TypeOK, LOCK
<1>2. ListOK /\ LocksOK /\ RegistersOK /\ TakenOK
  BY DEF ListOK, LocksOK, RegistersOK, TakenOK, Stopping, InBlock
<1>3. CountsOK
  <2>1. \A b \in Block : Past(b) = {}
    BY DEF Past
  <2>2. \A c \in Call : PastCall(c) \in SUBSET Threads
    BY DEF PastCall
  <2>3. \A c \in Call : Cardinality(PastCall(c)) \in Nat
    BY <2>2, ThreadsAssumption, FS_Subset, FS_CardinalityType
  <2>4. \A b \in Block : Cardinality(Past(b)) = 0
    BY <2>1, FS_EmptySet
  <2> QED
    BY <2>3, <2>4 DEF CountsOK
<1>4. DataOK /\ DeliveryOK
  BY DEF DataOK, DeliveryOK, AnswerRightOnce
<1> QED
  BY <1>1, <1>2, <1>3, <1>4 DEF IInv

\* Cardinalities of sets of threads.
LEMMA ThreadSets ==
  ASSUME NEW S \in SUBSET Threads
  PROVE  /\ Cardinality(S) \in Nat /\ Cardinality(S) <= THREADS
         /\ Cardinality(S) = THREADS => S = Threads
         /\ \A t \in Threads \ S : /\ S \cup {t} \in SUBSET Threads
                                  /\ Cardinality(S \cup {t}) = Cardinality(S) + 1
         /\ \A R \in SUBSET S : Cardinality(R) \in Nat /\ Cardinality(R) <= Cardinality(S)
<1>1. IsFiniteSet(S)
  BY ThreadsAssumption, FS_Subset
<1>2. Cardinality(S) \in Nat /\ Cardinality(S) <= THREADS
  BY <1>1, ThreadsAssumption, FS_Subset, FS_CardinalityType DEF THREADS
<1>3. Cardinality(S) = THREADS => S = Threads
  BY ThreadsAssumption, FS_Subset DEF THREADS
<1>4. ASSUME NEW t \in Threads \ S
      PROVE  S \cup {t} \in SUBSET Threads /\ Cardinality(S \cup {t}) = Cardinality(S) + 1
  BY <1>1, <1>4, FS_AddElement
<1>5. ASSUME NEW R \in SUBSET S
      PROVE  Cardinality(R) \in Nat /\ Cardinality(R) <= Cardinality(S)
  BY <1>1, <1>5, FS_Subset, FS_CardinalityType
<1> QED
  BY <1>2, <1>3, <1>4, <1>5

\* The counters stay right when no thread moves to another block, is counted or
\* goes back before its call.
LEMMA CountsKept ==
  ASSUME CountsOK, UNCHANGED <<left, ran, r13>>, TypeOK,
         \A u \in Threads : pc'[u] = "advance" <=> pc[u] = "advance",
         \A u \in Threads : pc[u] \in {"store", "done", "debug", "leave"}
                              => pc'[u] \in {"store", "done", "debug", "leave"}
  PROVE  CountsOK'
<1>1. \A b \in Block : Past(b)' = Past(b)
  BY DEF Past
<1>2. \A c \in Call : PastCall(c) \in SUBSET PastCall(c)'
  BY DEF PastCall
<1>3. \A c \in Call : PastCall(c)' \in SUBSET Threads
  BY DEF PastCall
<1>4. \A c \in Call : ran[c] \in Int
  BY DEF TypeOK, THREADS
<1>5. \A c \in Call : ran[c] <= Cardinality(PastCall(c)')
  <2> TAKE c \in Call
  <2>1. /\ Cardinality(PastCall(c)) \in Nat /\ Cardinality(PastCall(c)') \in Nat
        /\ Cardinality(PastCall(c)) <= Cardinality(PastCall(c)')
    BY <1>2, <1>3, ThreadSets
  <2> QED
    BY <1>4, <2>1 DEF CountsOK
<1> QED
  BY <1>1, <1>5 DEF CountsOK

\* Taking or finishing an issued block keeps the locks in order.
LEMMA LocksKept ==
  ASSUME TypeOK, LocksOK, UNCHANGED <<js, curr>>, NEW b0 \in Block, b0 < curr,
         lock' = [lock EXCEPT ![b0] = lock'[b0]],
         lock'[b0] \in {"FREE", "LOCKED", "DONE"}
  PROVE  LocksOK'
<1> SUFFICES ASSUME NEW b \in Block
    PROVE  /\ b < curr => lock'[b] \in {"FREE", "LOCKED", "DONE"}
           /\ b = curr => lock'[b] = (IF Stopping THEN "EXIT" ELSE "UNINITIALIZED")
           /\ b > curr => lock'[b] \in {"UNINITIALIZED", "EXIT"}
           /\ b > curr /\ ~Stopping => lock'[b] = "UNINITIALIZED"
  BY DEF LocksOK, Stopping
<1>1. CASE b = b0
  BY <1>1 DEF TypeOK, Block
<1>2. CASE b # b0
  BY <1>2 DEF TypeOK, LocksOK
<1> QED BY <1>1, <1>2

\* process_block leads to a lock, to the next block, or out.
LEMMA LoadStep == ASSUME IInv, NEW t \in Threads, Load(t) PROVE IInv'
<1> USE DEF IInv
<1>1. /\ UNCHANGED <<lock, left, link, arg, slot6, slot7, r13, r14, rax>>
      /\ UNCHANGED <<js, curr, next, block, usedFirst, usedLast, usedNext>>
      /\ UNCHANGED <<poll, callback, ran, delivered>>
  BY DEF Load, memory, used, object, history
<1>2. /\ pc[t] = "load" /\ lock[r13[t]] # "UNINITIALIZED"
      /\ pc' = [pc EXCEPT ![t] = pc'[t]]
      /\ \/ lock[r13[t]] = "EXIT" /\ pc'[t] = "exit"
         \/ lock[r13[t]] = "FREE" /\ pc'[t] = "cas"
         \/ lock[r13[t]] \in {"LOCKED", "DONE"} /\ pc'[t] = "leave"
  BY DEF Load, Goto, AfterLoad, Waits, TypeOK, LOCK
<1>3. TypeOK'
  BY <1>1, <1>2 DEF TypeOK
<1>4. ListOK' /\ LocksOK'
  BY <1>1 DEF ListOK, LocksOK, Stopping
<1>5. RegistersOK'
  <2> SUFFICES ASSUME NEW u \in Threads
      PROVE  /\ r13[u] <= curr
             /\ r14[u] = r13[u] + 1
             /\ pc'[u] \in InBlock => r13[u] < curr
             /\ pc'[u] = "exit" => r13[u] = curr /\ Stopping'
    BY <1>1 DEF RegistersOK
  <2>1. r13[t] \in Block /\ curr \in Block /\ lock[r13[t]] # "UNINITIALIZED"
    BY <1>2 DEF TypeOK
  <2>2. CASE u = t
    BY <1>1, <1>2, <2>1, <2>2, CallsAssumption DEF RegistersOK, LocksOK, Stopping, InBlock, TypeOK, Block
  <2>3. CASE u # t
    BY <1>1, <1>2, <2>3 DEF RegistersOK, Stopping, TypeOK
  <2> QED BY <2>2, <2>3
<1>6. TakenOK'
  BY <1>1, <1>2 DEF TakenOK, TypeOK, Executing
<1>7. CountsOK'
  BY <1>1, <1>2, CountsKept DEF TypeOK
<1>8. DataOK' /\ DeliveryOK'
  BY <1>1, <1>2 DEF DataOK, DeliveryOK, AnswerRightOnce, TypeOK
<1> QED
  BY <1>3, <1>4, <1>5, <1>6, <1>7, <1>8

\* The compare-and-exchange takes a FREE block, and leaves any other alone.
LEMMA CasStep == ASSUME IInv, NEW t \in Threads, Cas(t) PROVE IInv'
<1> USE DEF IInv
<1>1. /\ UNCHANGED <<left, link, arg, slot6, slot7, r13, r14, rax>>
      /\ UNCHANGED <<js, curr, next, block, usedFirst, usedLast, usedNext>>
      /\ UNCHANGED <<poll, callback, ran, delivered>>
      /\ pc[t] = "cas" /\ pc' = [pc EXCEPT ![t] = "verify"]
  BY DEF Cas, Goto, used, object, history
<1>2. /\ r13[t] \in Block /\ r13[t] < curr
      /\ lock' = [lock EXCEPT ![r13[t]] = lock'[r13[t]]]
      /\ \/ lock[r13[t]] = "FREE" /\ lock'[r13[t]] = "LOCKED"
         \/ lock[r13[t]] \in {"LOCKED", "DONE"} /\ lock'[r13[t]] = lock[r13[t]]
  BY <1>1 DEF Cas, CmpXchg, TypeOK, RegistersOK, InBlock, LocksOK
<1>3. TypeOK'
  BY <1>1, <1>2 DEF TypeOK, LOCK
<1>4. ListOK'
  BY <1>1 DEF ListOK
<1>5. LocksOK'
  BY <1>1, <1>2, LocksKept DEF LocksOK
<1>6. RegistersOK'
  <2>1. \A u \in Threads : /\ pc'[u] \in InBlock => pc[u] \in InBlock
                           /\ pc'[u] = "exit" => pc[u] = "exit"
    BY <1>1 DEF InBlock, TypeOK
  <2> QED BY <1>1, <2>1 DEF RegistersOK, Stopping
<1>7. TakenOK'
  <2>1. \A b \in Block : lock'[b] = "FREE" =>
            \A u \in Threads : r13[u] < b \/ (r13[u] = b /\ pc'[u] \in {"load", "cas"})
    <3>1. \A b \in Block : lock'[b] = "FREE" => lock[b] = "FREE" /\ b # r13[t]
      BY <1>1, <1>2 DEF TypeOK
    <3>2. \A u \in Threads : u # t => pc'[u] = pc[u]
      BY <1>1 DEF TypeOK
    <3>3. \A b \in Block : lock'[b] = "FREE" => r13[t] < b
      BY <1>1, <3>1 DEF TakenOK
    <3> QED BY <1>1, <3>1, <3>2, <3>3 DEF TakenOK
  <2>2. \A b \in Block : lock'[b] = "LOCKED" =>
            \E u \in Threads : r13[u] = b /\ pc'[u] \in Executing
    <3> SUFFICES ASSUME NEW b \in Block, lock'[b] = "LOCKED"
                 PROVE  \E u \in Threads : r13[u] = b /\ pc'[u] \in Executing
      OBVIOUS
    <3>1. CASE b = r13[t]
      BY <1>1, <3>1 DEF TypeOK, Executing
    <3>2. CASE b # r13[t]
      BY <1>1, <1>2, <3>2 DEF TakenOK, TypeOK, Executing
    <3> QED BY <3>1, <3>2
  <2>3. \A b \in Block : lock'[b] = "DONE" => \E u \in Threads : r13[u] >= b
    BY <1>1, <1>2 DEF TakenOK, TypeOK
  <2>4. \A u \in Threads : pc'[u] \in {"verify", "call", "store", "done"} =>
            lock'[r13[u]] \in {"LOCKED", "DONE"}
    BY <1>1, <1>2 DEF TakenOK, TypeOK
  <2> QED BY <1>1, <2>1, <2>2, <2>3, <2>4 DEF TakenOK
<1>8. CountsOK'
  BY <1>1, CountsKept DEF TypeOK
<1>9. DataOK' /\ DeliveryOK'
  BY <1>1, <1>2, CallsAreBlocks DEF DataOK, DeliveryOK, AnswerRightOnce, TypeOK
<1> QED
  BY <1>3, <1>4, <1>5, <1>6, <1>7, <1>8, <1>9

\* A LOCKED block is executed by whoever sees it LOCKED, so the thread that made
\* it LOCKED executes it or finds it DONE.
LEMMA VerifyStep == ASSUME IInv, NEW t \in Threads, Verify(t) PROVE IInv'
<1> USE DEF IInv
<1>1. /\ UNCHANGED <<lock, left, link, arg, slot6, slot7, r13, r14, rax>>
      /\ UNCHANGED <<js, curr, next, block, usedFirst, usedLast, usedNext>>
      /\ UNCHANGED <<poll, callback, ran, delivered>>
      /\ pc[t] = "verify" /\ pc' = [pc EXCEPT ![t] = pc'[t]]
      /\ pc'[t] \in {"call", "leave"}
      /\ lock[r13[t]] = "LOCKED" => pc'[t] = "call"
  BY DEF Verify, Goto, memory, used, object, history, TypeOK
<1>2. TypeOK'
  BY <1>1 DEF TypeOK
<1>3. ListOK' /\ LocksOK'
  BY <1>1 DEF ListOK, LocksOK, Stopping
<1>4. RegistersOK'
  BY <1>1 DEF RegistersOK, InBlock, Stopping, TypeOK
<1>5. TakenOK'
  <2>1. \A b \in Block : lock[b] = "LOCKED" =>
            \E u \in Threads : r13[u] = b /\ pc'[u] \in Executing
    BY <1>1 DEF TakenOK, TypeOK, Executing
  <2>2. \A u \in Threads : pc'[u] \in {"verify", "call", "store", "done"} =>
            lock[r13[u]] \in {"LOCKED", "DONE"}
    BY <1>1 DEF TakenOK, TypeOK
  <2>3. \A b \in Block : lock[b] = "FREE" =>
            \A u \in Threads : r13[u] < b \/ (r13[u] = b /\ pc'[u] \in {"load", "cas"})
    BY <1>1 DEF TakenOK, TypeOK
  <2> QED BY <1>1, <2>1, <2>2, <2>3 DEF TakenOK
<1>6. CountsOK'
  BY <1>1, CountsKept DEF TypeOK
<1>7. DataOK' /\ DeliveryOK'
  BY <1>1 DEF DataOK, DeliveryOK, AnswerRightOnce, TypeOK
<1> QED
  BY <1>2, <1>3, <1>4, <1>5, <1>6, <1>7

\* The system call: counted once per thread that passes it.
LEMMA ExecuteStep == ASSUME IInv, NEW t \in Threads, Execute(t) PROVE IInv'
<1> USE DEF IInv
<1>1. /\ UNCHANGED <<lock, left, link, arg, slot6, slot7, r13, r14>>
      /\ UNCHANGED <<js, curr, next, block, usedFirst, usedLast, usedNext>>
      /\ UNCHANGED <<poll, callback, delivered>>
      /\ pc[t] = "call" /\ pc' = [pc EXCEPT ![t] = "store"]
      /\ rax' = [rax EXCEPT ![t] = rax'[t]] /\ rax'[t] \in {"right", "wrong"}
      /\ arg[r13[t]] \notin WideCalls => rax'[t] = "right"
  BY DEF Execute, ArgumentsIntact, Goto, memory, used, object, TypeOK
<1>2. /\ r13[t] \in Call /\ arg[r13[t]] = r13[t]
      /\ ran' = [ran EXCEPT ![r13[t]] = ran[r13[t]] + 1]
  <2>1. r13[t] \in Block /\ r13[t] < curr
    BY <1>1 DEF RegistersOK, InBlock, TypeOK
  <2> QED BY <2>1, IssuedBlocks DEF Execute, DataOK
<1>3. CountsOK' /\ \A c \in Call : ran'[c] \in 0 .. THREADS
  <2>1. \A b \in Block : Past(b)' = Past(b)
    BY <1>1 DEF Past, TypeOK
  <2>2. ASSUME NEW c \in Call
        PROVE  ran'[c] <= Cardinality(PastCall(c)') /\ ran'[c] \in 0 .. THREADS
    <3>1. PastCall(c) \in SUBSET Threads /\ PastCall(c)' \in SUBSET Threads
      BY DEF PastCall
    <3>2. ran[c] <= Cardinality(PastCall(c)) /\ ran[c] \in Nat
      BY ThreadsNat DEF CountsOK, TypeOK
    <3>3. CASE c = r13[t]
      <4>1. t \notin PastCall(c) /\ PastCall(c)' = PastCall(c) \cup {t}
        <5>1. r13[t] \in Nat /\ r13'[t] = r13[t] /\ \A u \in Threads : r13'[u] = r13[u]
          BY <1>1, <1>2 DEF Call
        <5>2. pc'[t] = "store" /\ \A u \in Threads \ {t} : pc'[u] = pc[u]
          BY <1>1 DEF TypeOK
        <5> QED BY <1>1, <3>3, <5>1, <5>2 DEF PastCall
      <4>2. ran'[c] = ran[c] + 1
        BY <1>2, <3>3 DEF TypeOK
      <4>3. /\ Cardinality(PastCall(c)) \in Nat
            /\ Cardinality(PastCall(c)') = Cardinality(PastCall(c)) + 1
            /\ Cardinality(PastCall(c)') <= THREADS
        BY <3>1, <4>1, ThreadSets
      <4> QED BY <3>2, <4>2, <4>3, ThreadsNat
    <3>4. CASE c # r13[t]
      <4>1. PastCall(c)' = PastCall(c)
        BY <1>1, <3>4 DEF PastCall, TypeOK
      <4>2. ran'[c] = ran[c]
        BY <1>2, <3>4 DEF TypeOK
      <4>3. Cardinality(PastCall(c)') \in Nat /\ Cardinality(PastCall(c)') <= THREADS
        BY <3>1, ThreadSets
      <4> QED BY <3>2, <4>1, <4>2, <4>3, ThreadsNat
    <3> QED BY <3>3, <3>4
  <2> QED BY <1>1, <2>1, <2>2 DEF CountsOK
<1>4. TypeOK'
  <2>1. ran' \in [Call -> 0 .. THREADS]
    BY <1>2, <1>3 DEF TypeOK
  <2> QED BY <1>1, <2>1 DEF TypeOK
<1>5. ListOK' /\ LocksOK'
  BY <1>1 DEF ListOK, LocksOK, Stopping
<1>6. RegistersOK'
  BY <1>1 DEF RegistersOK, InBlock, Stopping, TypeOK
<1>7. TakenOK'
  BY <1>1 DEF TakenOK, TypeOK, Executing
<1>8. DataOK'
  <2>1. \A u \in Threads : pc'[u] \in {"store", "done"} => ran'[r13[u]] > 0
    <3>1. ran'[r13[t]] > 0
      BY <1>2, ThreadsNat DEF TypeOK
    <3> QED BY <1>1, <1>2, <3>1 DEF DataOK, TypeOK
  <2>2. \A c \in Call : lock[c] = "DONE" => ran'[c] > 0
    BY <1>2, ThreadsNat DEF DataOK, TypeOK
  <2>3. \A u \in Threads : pc'[u] = "store" /\ r13[u] \notin WideCalls => rax'[u] = "right"
    BY <1>1, <1>2 DEF DataOK, TypeOK
  <2> QED BY <1>1, <2>1, <2>2, <2>3 DEF DataOK, TypeOK
<1>9. DeliveryOK'
  BY <1>1 DEF DeliveryOK, AnswerRightOnce
<1> QED
  BY <1>3, <1>4, <1>5, <1>6, <1>7, <1>8, <1>9

\* The result replaces argument 6.
LEMMA StoreStep == ASSUME IInv, NEW t \in Threads, Store(t) PROVE IInv'
<1> USE DEF IInv
<1>1. /\ UNCHANGED <<lock, left, link, arg, slot6, r13, r14, rax>>
      /\ UNCHANGED <<js, curr, next, block, usedFirst, usedLast, usedNext>>
      /\ UNCHANGED <<poll, callback, ran, delivered>>
      /\ pc[t] = "store" /\ pc' = [pc EXCEPT ![t] = "done"]
      /\ slot7' = [slot7 EXCEPT ![r13[t]] = rax[t]]
  BY DEF Store, Goto, used, object, history
<1>2. TypeOK'
  BY <1>1 DEF TypeOK
<1>3. ListOK' /\ LocksOK'
  BY <1>1 DEF ListOK, LocksOK, Stopping
<1>4. RegistersOK'
  BY <1>1 DEF RegistersOK, InBlock, Stopping, TypeOK
<1>5. TakenOK'
  BY <1>1 DEF TakenOK, TypeOK, Executing
<1>6. CountsOK'
  BY <1>1, CountsKept DEF TypeOK
<1>7. DataOK'
  <2>1. r13[t] \notin WideCalls => rax[t] = "right"
    BY <1>1 DEF DataOK
  <2>2. \A b \in Block : b \notin WideCalls /\ slot7[b] = "right" => slot7'[b] = "right"
    BY <1>1, <2>1 DEF TypeOK
  <2>3. \A u \in Threads : pc'[u] = "done" /\ r13[u] \notin WideCalls => slot7'[r13[u]] = "right"
    <3>1. \A u \in Threads : u # t => pc'[u] = pc[u]
      BY <1>1 DEF TypeOK
    <3>2. r13[t] \notin WideCalls => slot7'[r13[t]] = "right"
      BY <1>1, <2>1 DEF TypeOK
    <3> QED BY <2>2, <3>1, <3>2 DEF DataOK, TypeOK
  <2>4. \A u \in Threads : /\ pc'[u] \in {"store", "done"} => pc[u] \in {"store", "done"}
                           /\ pc'[u] = "store" => pc[u] = "store"
    BY <1>1 DEF TypeOK
  <2> QED BY <1>1, <2>2, <2>3, <2>4 DEF DataOK
<1>8. DeliveryOK'
  BY <1>1 DEF DeliveryOK, AnswerRightOnce
<1> QED
  BY <1>2, <1>3, <1>4, <1>5, <1>6, <1>7, <1>8

\* DONE: by the first thread to finish, and again by any other.
LEMMA MarkDoneStep == ASSUME IInv, NEW t \in Threads, MarkDone(t) PROVE IInv'
<1> USE DEF IInv
<1>1. /\ UNCHANGED <<left, link, arg, slot6, slot7, r13, r14, rax>>
      /\ UNCHANGED <<js, curr, next, block, usedFirst, usedLast, usedNext>>
      /\ UNCHANGED <<poll, callback, ran, delivered>>
      /\ pc[t] = "done" /\ pc' = [pc EXCEPT ![t] = "debug"]
      /\ lock' = [lock EXCEPT ![r13[t]] = "DONE"]
  BY DEF MarkDone, Goto, used, object, history
<1>2. r13[t] \in Block /\ r13[t] < curr /\ lock'[r13[t]] = "DONE"
  BY <1>1 DEF RegistersOK, InBlock, TypeOK
<1>3. \A u \in Threads : u # t => pc'[u] = pc[u]
  BY <1>1 DEF TypeOK
<1>4. \A b \in Block : b # r13[t] => lock'[b] = lock[b]
  BY <1>1 DEF TypeOK
<1>5. pc'[t] = "debug"
  BY <1>1 DEF TypeOK
<1>6. TypeOK'
  BY <1>1 DEF TypeOK, LOCK
<1>7. ListOK'
  BY <1>1 DEF ListOK
<1>8. LocksOK'
  BY <1>1, <1>2, LocksKept
<1>9. RegistersOK'
  BY <1>1, <1>3, <1>5 DEF RegistersOK, InBlock, Stopping
<1>10. TakenOK'
  <2>1. \A b \in Block : lock'[b] = "FREE" =>
            \A u \in Threads : r13[u] < b \/ (r13[u] = b /\ pc'[u] \in {"load", "cas"})
    BY <1>1, <1>2, <1>3, <1>4 DEF TakenOK
  <2>2. \A b \in Block : lock'[b] = "LOCKED" =>
            \E u \in Threads : r13[u] = b /\ pc'[u] \in Executing
    BY <1>1, <1>2, <1>3, <1>4 DEF TakenOK
  <2>3. \A b \in Block : lock'[b] = "DONE" => \E u \in Threads : r13[u] >= b
    BY <1>2, <1>4 DEF TakenOK, Block
  <2>4. \A u \in Threads : pc'[u] \in {"verify", "call", "store", "done"} =>
            lock'[r13[u]] \in {"LOCKED", "DONE"}
    BY <1>1, <1>2, <1>3, <1>4, <1>5 DEF TakenOK, TypeOK
  <2> QED BY <1>1, <2>1, <2>2, <2>3, <2>4 DEF TakenOK
<1>11. CountsOK'
  BY <1>1, CountsKept DEF TypeOK
<1>12. DataOK'
  <2>1. ran[r13[t]] > 0 /\ (r13[t] \notin WideCalls => slot7[r13[t]] = "right")
    BY <1>1 DEF DataOK
  <2> QED BY <1>1, <1>3, <1>4, <1>5, <2>1, CallsAreBlocks DEF DataOK
<1>13. DeliveryOK'
  BY <1>1 DEF DeliveryOK, AnswerRightOnce
<1> QED
  BY <1>6, <1>7, <1>8, <1>9, <1>10, <1>11, <1>12, <1>13

LEMMA StoreThreadIdStep == ASSUME IInv, NEW t \in Threads, StoreThreadId(t) PROVE IInv'
<1> USE DEF IInv
<1>1. /\ UNCHANGED <<lock, left, link, arg, slot7, r13, r14, rax>>
      /\ UNCHANGED <<js, curr, next, block, usedFirst, usedLast, usedNext>>
      /\ UNCHANGED <<poll, callback, ran, delivered>>
      /\ pc[t] = "debug" /\ pc' = [pc EXCEPT ![t] = "leave"]
      /\ slot6' = [slot6 EXCEPT ![r13[t]] = "thread"]
  BY DEF StoreThreadId, Goto, used, object, history
<1>2. TypeOK'
  BY <1>1 DEF TypeOK
<1>3. ListOK' /\ LocksOK'
  BY <1>1 DEF ListOK, LocksOK, Stopping
<1>4. RegistersOK'
  BY <1>1 DEF RegistersOK, InBlock, Stopping, TypeOK
<1>5. TakenOK'
  BY <1>1 DEF TakenOK, TypeOK, Executing
<1>6. CountsOK'
  BY <1>1, CountsKept DEF TypeOK
<1>7. DataOK' /\ DeliveryOK'
  BY <1>1 DEF DataOK, DeliveryOK, AnswerRightOnce, TypeOK
<1> QED
  BY <1>2, <1>3, <1>4, <1>5, <1>6, <1>7

\* A thread is counted out of its block.
LEMMA LeaveStep == ASSUME IInv, NEW t \in Threads, Leave(t) PROVE IInv'
<1> USE DEF IInv
<1>1. /\ UNCHANGED <<lock, link, arg, slot6, slot7, r13, r14, rax>>
      /\ UNCHANGED <<js, curr, next, block, usedFirst, usedLast, usedNext>>
      /\ UNCHANGED <<poll, callback, ran, delivered>>
      /\ pc[t] = "leave" /\ pc' = [pc EXCEPT ![t] = "advance"]
      /\ left' = [left EXCEPT ![r13[t]] = left[r13[t]] + 1]
  BY DEF Leave, CountLeft, Goto, used, object, history
<1>2. r13[t] \in Block
  BY DEF TypeOK
<1>3. CountsOK' /\ \A b \in Block : left'[b] \in 0 .. THREADS
  <2>1. \A c \in Call : PastCall(c)' = PastCall(c)
    BY <1>1 DEF PastCall, TypeOK
  <2>2. ASSUME NEW b \in Block
        PROVE  left'[b] = Cardinality(Past(b)') /\ left'[b] \in 0 .. THREADS
    <3>1. Past(b) \in SUBSET Threads /\ Past(b)' \in SUBSET Threads
      BY DEF Past
    <3>2. left[b] = Cardinality(Past(b))
      BY DEF CountsOK
    <3>3. CASE b = r13[t]
      <4>1. t \notin Past(b) /\ Past(b)' = Past(b) \cup {t}
        BY <1>1, <3>3 DEF Past, TypeOK, Block
      <4>2. left'[b] = left[b] + 1
        BY <1>1, <3>3 DEF TypeOK
      <4>3. /\ Cardinality(Past(b)') = Cardinality(Past(b)) + 1
            /\ Cardinality(Past(b)') \in Nat /\ Cardinality(Past(b)') <= THREADS
        BY <3>1, <4>1, ThreadSets
      <4> QED BY <3>2, <4>2, <4>3, ThreadsNat
    <3>4. CASE b # r13[t]
      <4>1. Past(b)' = Past(b)
        BY <1>1, <3>4 DEF Past, TypeOK
      <4>2. left'[b] = left[b]
        BY <1>1, <3>4 DEF TypeOK
      <4> QED BY <3>1, <3>2, <4>1, <4>2, ThreadSets, ThreadsNat
    <3> QED BY <3>3, <3>4
  <2> QED BY <1>1, <2>1, <2>2 DEF CountsOK
<1>4. TypeOK'
  <2>1. left' \in [Block -> 0 .. THREADS]
    BY <1>1, <1>3 DEF TypeOK
  <2> QED BY <1>1, <2>1 DEF TypeOK
<1>5. ListOK' /\ LocksOK'
  BY <1>1 DEF ListOK, LocksOK, Stopping
<1>6. RegistersOK'
  BY <1>1 DEF RegistersOK, InBlock, Stopping, TypeOK
<1>7. TakenOK'
  BY <1>1 DEF TakenOK, TypeOK, Executing
<1>8. DataOK' /\ DeliveryOK'
  BY <1>1 DEF DataOK, DeliveryOK, AnswerRightOnce, TypeOK
<1> QED
  BY <1>3, <1>4, <1>5, <1>6, <1>7, <1>8

\* The next block is already linked to its own successor.
LEMMA AdvanceStep == ASSUME IInv, NEW t \in Threads, Advance(t) PROVE IInv'
<1> USE DEF IInv
<1>1. /\ UNCHANGED <<lock, left, link, arg, slot6, slot7, rax>>
      /\ UNCHANGED <<js, curr, next, block, usedFirst, usedLast, usedNext>>
      /\ UNCHANGED <<poll, callback, ran, delivered>>
      /\ pc[t] = "advance" /\ pc' = [pc EXCEPT ![t] = "load"]
      /\ r13' = [r13 EXCEPT ![t] = r14[t]]
      /\ r14' = [r14 EXCEPT ![t] = link[r14[t]]]
  BY DEF Advance, NextRead, Goto, memory, used, object, history
<1>2. /\ r13[t] \in Block /\ r13[t] < curr /\ r14[t] = r13[t] + 1
      /\ curr \in Block /\ curr + 1 \in Block
  BY <1>1, IssuedBlocks DEF RegistersOK, InBlock, TypeOK
<1>3. r14[t] \in Block /\ r14[t] <= curr /\ link[r14[t]] = r14[t] + 1
  BY <1>2, CallsAssumption DEF ListOK, Block
<1>4. /\ r13'[t] = r13[t] + 1 /\ r14'[t] = r13[t] + 2 /\ pc'[t] = "load"
      /\ \A u \in Threads : u # t => r13'[u] = r13[u] /\ r14'[u] = r14[u] /\ pc'[u] = pc[u]
  BY <1>1, <1>2, <1>3 DEF TypeOK, Block
<1>5. TypeOK'
  <2>1. link[r14[t]] \in Block \cup {Null}
    BY <1>3 DEF TypeOK
  <2> QED BY <1>1, <1>3, <2>1 DEF TypeOK
<1>6. ListOK' /\ LocksOK'
  BY <1>1 DEF ListOK, LocksOK, Stopping
<1>7. RegistersOK'
  <2> SUFFICES ASSUME NEW u \in Threads
      PROVE  /\ r13'[u] <= curr /\ r14'[u] = r13'[u] + 1
             /\ pc'[u] \in InBlock => r13'[u] < curr
             /\ pc'[u] = "exit" => r13'[u] = curr /\ Stopping
    BY <1>1 DEF RegistersOK, Stopping
  <2>1. CASE u = t
    <3>1. r13'[u] <= curr /\ r14'[u] = r13'[u] + 1
      BY <1>2, <1>3, <1>4, <2>1 DEF Block
    <3>2. pc'[u] \notin InBlock /\ pc'[u] # "exit"
      BY <1>4, <2>1 DEF InBlock
    <3> QED BY <3>1, <3>2
  <2>2. CASE u # t
    BY <1>4, <2>2 DEF RegistersOK
  <2> QED BY <2>1, <2>2
<1>8. TakenOK'
  <2>1. \A b \in Block : lock[b] = "FREE" =>
            \A u \in Threads : r13'[u] < b \/ (r13'[u] = b /\ pc'[u] \in {"load", "cas"})
    <3>1. \A b \in Block : lock[b] = "FREE" => r13[t] < b
      BY <1>1 DEF TakenOK
    <3> QED BY <1>2, <1>4, <3>1 DEF TakenOK, Block
  <2>2. \A b \in Block : lock[b] = "LOCKED" =>
            \E u \in Threads : r13'[u] = b /\ pc'[u] \in Executing
    BY <1>1, <1>4 DEF TakenOK, Executing
  <2>3. \A b \in Block : lock[b] = "DONE" => \E u \in Threads : r13'[u] >= b
    BY <1>2, <1>4 DEF TakenOK, Block
  <2>4. \A u \in Threads : pc'[u] \in {"verify", "call", "store", "done"} =>
            lock[r13'[u]] \in {"LOCKED", "DONE"}
    BY <1>4 DEF TakenOK
  <2> QED BY <1>1, <2>1, <2>2, <2>3, <2>4 DEF TakenOK
<1>9. CountsOK'
  <2>1. \A b \in Block : \A u \in Threads : u \in Past(b)' <=> u \in Past(b)
    BY <1>1, <1>2, <1>4 DEF Past, Block
  <2>2. \A c \in Call : \A u \in Threads : u \in PastCall(c)' <=> u \in PastCall(c)
    BY <1>1, <1>2, <1>4 DEF PastCall, Call, Block
  <2>3. /\ \A b \in Block : Past(b)' = Past(b)
        /\ \A c \in Call : PastCall(c)' = PastCall(c)
    BY <2>1, <2>2 DEF Past, PastCall
  <2> QED BY <1>1, <2>3 DEF CountsOK
<1>10. DataOK'
  BY <1>1, <1>4 DEF DataOK
<1>11. DeliveryOK'
  BY <1>1 DEF DeliveryOK, AnswerRightOnce
<1> QED
  BY <1>5, <1>6, <1>7, <1>8, <1>9, <1>10, <1>11

(***************************************************************************)
(* The steps of JavaScript.                                                *)
(***************************************************************************)

\* What the threads see as long as JavaScript writes neither locks, links nor
\* counters, and does not move on.
LEMMA ThreadPartsKept ==
  ASSUME IInv, UNCHANGED <<lock, left, link, pc, r13, r14, curr, next, ran>>,
         Stopping' <=> Stopping
  PROVE  LocksOK' /\ RegistersOK' /\ TakenOK' /\ CountsOK'
<1>1. LocksOK' /\ RegistersOK' /\ TakenOK'
  BY DEF IInv, LocksOK, RegistersOK, TakenOK
<1>2. /\ \A b \in Block : Past(b)' = Past(b)
      /\ \A c \in Call : PastCall(c)' = PastCall(c)
  BY DEF Past, PastCall
<1>3. CountsOK'
  BY <1>2 DEF IInv, CountsOK
<1> QED BY <1>1, <1>3

\* exec, first: the third block is linked before the current one is filled.
LEMMA ExecLinkStep == ASSUME IInv, ExecLink PROVE IInv'
<1> USE DEF IInv
<1>1. /\ UNCHANGED <<arg, slot6, slot7, pc, r13, r14, rax, usedLast, usedNext>>
      /\ UNCHANGED <<curr, next, poll, callback, ran, delivered>>
      /\ js = "idle" /\ js' = "fill" /\ curr \in Call
      /\ block' = next + 1
      /\ lock' = [lock EXCEPT ![next + 1] = "UNINITIALIZED"]
      /\ left' = [left EXCEPT ![next + 1] = 0]
      /\ link' = [link EXCEPT ![next] = next + 1]
  BY DEF ExecLink, Link, threads, history
<1>2. /\ next = curr + 1 /\ curr \in Int /\ curr <= MaxCalls
      /\ next \in Block /\ next + 1 \in Block /\ curr \in Block
  BY <1>1, CallsAssumption DEF ListOK, Call, Block
<1>3. lock[next + 1] = "UNINITIALIZED" /\ lock' = lock
  BY <1>1, <1>2 DEF LocksOK, Stopping, TypeOK
<1>4. left[next + 1] = 0 /\ left' = left
  <2>1. Past(next + 1) = {}
    BY <1>2 DEF Past, RegistersOK, TypeOK, Block
  <2>2. left[next + 1] = 0
    BY <1>2, <2>1, FS_EmptySet DEF CountsOK
  <2> QED BY <1>1, <2>2 DEF TypeOK
<1>5. TypeOK'
  <2>1. usedFirst' \in Block \cup {Null}
    BY DEF ExecLink, PopUsed, TypeOK, Null
  <2>2. link' \in [Block -> Block \cup {Null}]
    BY <1>1, <1>2 DEF TypeOK
  <2> QED BY <1>1, <1>2, <1>3, <1>4, <2>1, <2>2 DEF TypeOK
<1>6. ListOK'
  BY <1>1, <1>2 DEF ListOK, TypeOK, Block
<1>7. LocksOK' /\ RegistersOK' /\ TakenOK'
  BY <1>1, <1>3 DEF LocksOK, RegistersOK, TakenOK, Stopping
<1>8. CountsOK'
  BY <1>1, <1>4 DEF CountsOK, Past, PastCall
<1>9. DataOK' /\ DeliveryOK'
  BY <1>1, <1>3 DEF DataOK, DeliveryOK, AnswerRightOnce
<1> QED
  BY <1>5, <1>6, <1>7, <1>8, <1>9

\* exec, then: the arguments are written to a block no thread may execute.
LEMMA ExecFillStep == ASSUME IInv, ExecFill PROVE IInv'
<1> USE DEF IInv
<1>1. /\ UNCHANGED <<lock, left, link, pc, r13, r14, rax, usedFirst, usedLast, usedNext>>
      /\ UNCHANGED <<curr, next, block, poll, callback, ran, delivered>>
      /\ js = "fill" /\ js' = "free" /\ curr \in Call
      /\ arg' = [arg EXCEPT ![curr] = curr]
      /\ slot6' = [slot6 EXCEPT ![curr] = "argument"]
      /\ slot7' = [slot7 EXCEPT ![curr] = "argument"]
  BY DEF ExecFill, threads, used, history, ListOK
<1>2. curr \in Block /\ lock[curr] = "UNINITIALIZED"
  BY <1>1, CallsAreBlocks DEF LocksOK, Stopping
<1>3. TypeOK'
  BY <1>1, <1>2 DEF TypeOK
<1>4. ListOK'
  BY <1>1 DEF ListOK
<1>5. LocksOK' /\ RegistersOK' /\ TakenOK' /\ CountsOK'
  BY <1>1, ThreadPartsKept DEF Stopping
<1>6. DataOK'
  <2>1. \A b \in Block : b # curr => arg'[b] = arg[b] /\ slot7'[b] = slot7[b]
    BY <1>1 DEF TypeOK
  <2>2. arg'[curr] = curr
    BY <1>1, <1>2 DEF TypeOK
  <2>3. \A b \in Block : b < curr => b # curr
    BY CallsAssumption DEF TypeOK, Block
  <2>4. \A u \in Threads : pc[u] = "done" => r13[u] \in Block /\ r13[u] < curr
    BY DEF RegistersOK, InBlock, TypeOK
  <2> QED BY <1>1, <1>2, <2>1, <2>2, <2>3, <2>4 DEF DataOK
<1>7. DeliveryOK'
  BY <1>1 DEF DeliveryOK, AnswerRightOnce
<1> QED
  BY <1>3, <1>4, <1>5, <1>6, <1>7

\* exec, last: the block becomes FREE and JavaScript moves to the next one.
LEMMA ExecFreeStep == ASSUME IInv, ExecFree PROVE IInv'
<1> USE DEF IInv
<1>1. /\ UNCHANGED <<left, link, arg, slot6, slot7, pc, r13, r14, rax>>
      /\ UNCHANGED <<usedFirst, usedLast, usedNext, block, callback, ran, delivered>>
      /\ js = "free" /\ js' = "idle" /\ curr \in Call
      /\ lock' = [lock EXCEPT ![curr] = "FREE"]
      /\ poll' = [poll EXCEPT ![curr] = arg[curr]]
      /\ curr' = next /\ next' = block
  BY DEF ExecFree, MoveOn, threads, used, history, ListOK
<1>2. /\ curr \in Block /\ curr \in Int /\ next = curr + 1 /\ block = curr + 2
      /\ next \in Block /\ block \in Block /\ link[next] = block
      /\ arg[curr] = curr
  BY <1>1, CallsAreBlocks DEF ListOK, TypeOK, Call, DataOK
<1>3. /\ lock'[curr] = "FREE" /\ poll'[curr] = curr
      /\ \A b \in Block : b # curr => lock'[b] = lock[b] /\ poll'[b] = poll[b]
  BY <1>1, <1>2 DEF TypeOK
<1>4. TypeOK'
  BY <1>1, <1>2 DEF TypeOK, LOCK
<1>5. ListOK'
  BY <1>1, <1>2 DEF ListOK, Block
<1>6. LocksOK'
  BY <1>1, <1>2, <1>3 DEF LocksOK, Stopping, Block
<1>7. \A u \in Threads : r13[u] \in Block /\ r13[u] <= curr /\ (r13[u] = curr => pc[u] = "load")
  <2> TAKE u \in Threads
  <2>1. r13[u] \in Block /\ r13[u] <= curr
    BY DEF RegistersOK, TypeOK
  <2>2. r13[u] = curr => pc[u] \notin InBlock
    BY <1>2 DEF RegistersOK
  <2>3. pc[u] # "exit"
    BY <1>1 DEF RegistersOK, Stopping
  <2> QED BY <2>1, <2>2, <2>3 DEF TypeOK, InBlock
<1>8. RegistersOK'
  BY <1>1, <1>2, <1>7 DEF RegistersOK, InBlock, Stopping, Block
<1>9. TakenOK'
  BY <1>1, <1>2, <1>3, <1>7 DEF TakenOK, LocksOK, Stopping, Block
<1>10. CountsOK'
  BY <1>1 DEF CountsOK, Past, PastCall
<1>11. DataOK'
  BY <1>1, <1>2, <1>3, <1>7, CallsAreBlocks DEF DataOK, Block
<1>12. DeliveryOK'
  BY <1>1, <1>2, <1>3 DEF DeliveryOK, AnswerRightOnce, Block, Call
<1> QED
  BY <1>4, <1>5, <1>6, <1>8, <1>9, <1>10, <1>11, <1>12

\* A poll that finds DONE hands out the result and is gone.
LEMMA PollDoneStep == ASSUME IInv, NEW b \in Block, PollDone(b) PROVE IInv'
<1> USE DEF IInv
<1>1. /\ UNCHANGED <<lock, left, link, arg, slot6, slot7, pc, r13, r14, rax>>
      /\ UNCHANGED <<usedFirst, usedLast, usedNext, js, curr, next, block, ran>>
      /\ poll[b] # Null /\ lock[b] = "DONE" /\ callback' = b
      /\ poll' = [poll EXCEPT ![b] = Null]
      /\ delivered' = [delivered EXCEPT ![poll[b]] =
                          IF delivered[poll[b]] = "none" THEN slot7[b] ELSE "twice"]
  BY DEF PollDone, PollRuns, Finished, memory, threads, used
<1>2. b \in Call /\ poll[b] = b /\ b < curr /\ delivered[b] = "none"
  BY <1>1 DEF DeliveryOK
<1>3. delivered' = [delivered EXCEPT ![b] = slot7[b]]
  BY <1>1, <1>2
<1>4. TypeOK'
  BY <1>1, <1>2, <1>3 DEF TypeOK
<1>5. ListOK'
  BY <1>1 DEF ListOK
<1>6. LocksOK' /\ RegistersOK' /\ TakenOK' /\ CountsOK'
  BY <1>1, ThreadPartsKept DEF Stopping
<1>7. DataOK'
  BY <1>1 DEF DataOK
<1>8. DeliveryOK'
  <2>1. poll'[b] = Null /\ \A b2 \in Block : b2 # b => poll'[b2] = poll[b2]
    BY <1>1 DEF TypeOK
  <2>2. \A c \in Call : c # b => delivered'[c] = delivered[c]
    BY <1>3 DEF TypeOK
  <2>3. \A c \in Call : c >= curr => c # b
    BY <1>2 DEF Call, TypeOK, Block
  <2>4. AnswerRightOnce'
    <3>1. b \notin WideCalls => slot7[b] = "right"
      BY <1>1 DEF DataOK
    <3>2. delivered'[b] = slot7[b]
      BY <1>2, <1>3 DEF TypeOK
    <3> QED BY <1>2, <2>2, <3>1, <3>2 DEF DeliveryOK, AnswerRightOnce
  <2> QED BY <1>1, <2>1, <2>2, <2>3, <2>4 DEF DeliveryOK
<1> QED
  BY <1>4, <1>5, <1>6, <1>7, <1>8

LEMMA PollAgainStep == ASSUME IInv, NEW b \in Block, PollAgain(b) PROVE IInv'
<1> USE DEF IInv
<1>1. /\ UNCHANGED <<lock, left, link, arg, slot6, slot7, pc, r13, r14, rax>>
      /\ UNCHANGED <<usedFirst, usedLast, usedNext, js, curr, next, block, callback>>
      /\ UNCHANGED <<ran, delivered, poll>>
  BY DEF PollAgain, SchedulePoll, memory, threads, used, history, TypeOK
<1>2. TypeOK' /\ ListOK' /\ DataOK' /\ DeliveryOK'
  BY <1>1 DEF TypeOK, ListOK, DataOK, DeliveryOK, AnswerRightOnce
<1>3. LocksOK' /\ RegistersOK' /\ TakenOK' /\ CountsOK'
  BY <1>1, ThreadPartsKept DEF Stopping
<1> QED BY <1>2, <1>3

LEMMA RecycleStep == ASSUME IInv, Recycle PROVE IInv'
<1> USE DEF IInv
<1>1. /\ UNCHANGED <<lock, left, link, arg, slot6, slot7, pc, r13, r14, rax>>
      /\ UNCHANGED <<js, curr, next, block, poll, ran, delivered>>
      /\ callback \in Block /\ callback' = Null /\ usedLast' = callback
      /\ usedFirst' \in {usedFirst, callback}
      /\ usedNext' \in {usedNext, [usedNext EXCEPT ![callback] = usedLast]}
  BY DEF Recycle, memory, threads, history, TypeOK
<1>2. TypeOK'
  BY <1>1 DEF TypeOK
<1>3. ListOK' /\ DataOK' /\ DeliveryOK'
  BY <1>1 DEF ListOK, DataOK, DeliveryOK, AnswerRightOnce
<1>4. LocksOK' /\ RegistersOK' /\ TakenOK' /\ CountsOK'
  BY <1>1, ThreadPartsKept DEF Stopping
<1> QED BY <1>2, <1>3, <1>4

\* EXIT goes to the two blocks that hold no call.
LEMMA StopStep == ASSUME IInv, StopCurr \/ StopNext PROVE IInv'
<1> USE DEF IInv
<1>1. /\ UNCHANGED <<left, link, arg, slot6, slot7, pc, r13, r14, rax>>
      /\ UNCHANGED <<usedFirst, usedLast, usedNext, curr, next, block, poll, callback>>
      /\ UNCHANGED <<ran, delivered>>
      /\ js \in {"idle", "stop"} /\ js' \in {"stop", "stopped", "threw"}
      /\ \/ js = "idle" /\ lock' = [lock EXCEPT ![curr] = "EXIT"]
         \/ js = "stop" /\ lock' = [lock EXCEPT ![next] = "EXIT"]
  BY DEF StopCurr, StopNext, WriteExit, threads, used, history
<1>2. curr \in Block /\ next \in Block /\ next = curr + 1 /\ curr \in Int
  BY IssuedBlocks DEF TypeOK, ListOK
<1>3. /\ \A b \in Block : b < curr => lock'[b] = lock[b]
      /\ \A b \in Block : lock'[b] = lock[b] \/ lock'[b] = "EXIT"
      /\ lock'[curr] = "EXIT"
  <2> USE CallsAssumption DEF Block
  <2>1. CASE js = "idle"
    <3>1. lock' = [lock EXCEPT ![curr] = "EXIT"]
      BY <1>1, <2>1
    <3> QED BY <1>2, <3>1 DEF TypeOK
  <2>2. CASE js = "stop"
    <3>1. lock[curr] = "EXIT" /\ lock' = [lock EXCEPT ![next] = "EXIT"]
      BY <1>1, <1>2, <2>2 DEF LocksOK, Stopping
    <3> QED BY <1>2, <3>1 DEF TypeOK
  <2> QED BY <1>1, <2>1, <2>2
<1>4. TypeOK'
  BY <1>1, <1>2 DEF TypeOK, LOCK
<1>5. ListOK'
  BY <1>1 DEF ListOK
<1>6. LocksOK'
  BY <1>1, <1>2, <1>3 DEF LocksOK, Stopping, Block
<1>7. RegistersOK'
  BY <1>1 DEF RegistersOK, Stopping
<1>8. TakenOK'
  <2>1. \A u \in Threads : pc[u] \in {"verify", "call", "store", "done"} =>
           r13[u] \in Block /\ r13[u] < curr
    BY DEF RegistersOK, InBlock, TypeOK
  <2> QED BY <1>1, <1>3, <2>1 DEF TakenOK
<1>9. CountsOK'
  BY <1>1 DEF CountsOK, Past, PastCall
<1>10. DataOK'
  BY <1>1, <1>3, CallsAreBlocks DEF DataOK
<1>11. DeliveryOK'
  BY <1>1 DEF DeliveryOK, AnswerRightOnce
<1> QED
  BY <1>4, <1>5, <1>6, <1>7, <1>8, <1>9, <1>10, <1>11

LEMMA StutterStep == ASSUME IInv, UNCHANGED vars PROVE IInv'
<1>1. /\ UNCHANGED <<lock, left, link, arg, slot6, slot7, pc, r13, r14, rax>>
      /\ UNCHANGED <<usedFirst, usedLast, usedNext, js, curr, next, block, poll>>
      /\ UNCHANGED <<callback, ran, delivered>>
  BY DEF vars, memory, threads, used, object, history
<1>2. TypeOK' /\ ListOK' /\ DataOK' /\ DeliveryOK'
  BY <1>1 DEF IInv, TypeOK, ListOK, DataOK, DeliveryOK, AnswerRightOnce
<1>3. LocksOK' /\ RegistersOK' /\ TakenOK' /\ CountsOK'
  BY <1>1, ThreadPartsKept DEF Stopping
<1> QED BY <1>2, <1>3 DEF IInv

\* Every step of the pool keeps the invariant.
LEMMA NextIInv == IInv /\ [Next]_vars => IInv'
<1> SUFFICES ASSUME IInv, [Next]_vars PROVE IInv'
  OBVIOUS
<1>1. ASSUME NEW t \in Threads, ThreadStep(t) PROVE IInv'
  BY <1>1, LoadStep, CasStep, VerifyStep, ExecuteStep, StoreStep, MarkDoneStep,
     StoreThreadIdStep, LeaveStep, AdvanceStep DEF ThreadStep
<1>2. ASSUME JavaScriptStep PROVE IInv'
  BY <1>2, ExecLinkStep, ExecFillStep, ExecFreeStep, PollDoneStep, PollAgainStep,
     RecycleStep, StopStep DEF JavaScriptStep
<1> QED
  BY <1>1, <1>2, StutterStep DEF Next

\* The invariant holds in every reachable state.
THEOREM Invariance == Spec => []IInv
<1> QED
  BY InitIInv, NextIInv, PTL DEF Spec

\* Type correctness, with the bounds on both counters: no block is left, and no
\* call is executed, by more threads than there are.
THEOREM TypeCorrect == Spec => []TypeOK
<1>1. IInv => TypeOK
  BY DEF IInv
<1> QED
  BY <1>1, Invariance, PTL

\* exec links the third block in time: no thread, however fast, reads the next
\* pointer of a block before it is written.
THEOREM NoNullPointerEver == Spec => []NoNullPointer
<1>1. ASSUME IInv PROVE NoNullPointer
  BY <1>1 DEF IInv, NoNullPointer, InUse, RegistersOK, TypeOK, Block, Null
<1> QED
  BY <1>1, Invariance, PTL

\* The test of newBlock is right: a block whose counter shows that all threads
\* left is never read or written by a thread again.
THEOREM LeftBlocksAreUnused == Spec => []LeftMeansUnused
<1>1. ASSUME IInv, NEW b \in Block, left[b] = THREADS, NEW t \in Threads
      PROVE  b \notin InUse(t)
  <2>1. Past(b) \in SUBSET Threads /\ Cardinality(Past(b)) = THREADS
    BY <1>1 DEF IInv, CountsOK, Past
  <2>2. t \in Past(b)
    BY <2>1, ThreadSets
  <2>3. r13[t] > b \/ (r13[t] = b /\ pc[t] = "advance")
    BY <2>2 DEF Past
  <2>4. r14[t] = r13[t] + 1 /\ r13[t] \in Int /\ b \in Int
    BY <1>1 DEF IInv, RegistersOK, TypeOK, Block
  <2> QED
    BY <2>3, <2>4 DEF InUse
<1>2. IInv => LeftMeansUnused
  BY <1>1 DEF LeftMeansUnused
<1> QED
  BY <1>2, Invariance, PTL

\* fillBlock never writes arguments under a thread that executes them.
THEOREM ArgumentsNeverShared == Spec => []ArgumentsWrittenAlone
<1>1. ASSUME IInv, js \in {"fill", "free"}, NEW t \in Threads, r13[t] = curr
      PROVE  pc[t] = "load"
  <2>1. curr \in Int
    BY <1>1, IssuedBlocks DEF IInv
  <2>2. pc[t] \notin InBlock /\ pc[t] # "exit"
    BY <1>1, <2>1 DEF IInv, RegistersOK, Stopping
  <2> QED
    BY <1>1, <2>2 DEF IInv, TypeOK, InBlock
<1>2. IInv => ArgumentsWrittenAlone
  BY <1>1 DEF ArgumentsWrittenAlone
<1> QED
  BY <1>2, Invariance, PTL

\* Calls are taken in the order they were issued, and none is passed over.
THEOREM CallsTakenInOrder == Spec => []TakenInOrder
<1>1. ASSUME IInv, NEW b1 \in Block, NEW b2 \in Block, b1 < b2,
             lock[b2] \in {"LOCKED", "DONE"}
      PROVE  lock[b1] \in {"LOCKED", "DONE"}
  <2>1. PICK t \in Threads : r13[t] >= b2
    BY <1>1 DEF IInv, TakenOK, Block
  <2>2. r13[t] <= curr /\ r13[t] \in Int /\ curr \in Int /\ b1 \in Int /\ b2 \in Int
    BY <1>1, IssuedBlocks DEF IInv, RegistersOK, TypeOK, Block
  <2>3. lock[b1] \in {"FREE", "LOCKED", "DONE"}
    BY <1>1, <2>1, <2>2 DEF IInv, LocksOK
  <2>4. lock[b1] # "FREE"
    BY <1>1, <2>1, <2>2 DEF IInv, TakenOK
  <2> QED
    BY <2>3, <2>4
<1>2. IInv => TakenInOrder
  BY <1>1 DEF TakenInOrder
<1> QED
  BY <1>2, Invariance, PTL

\* When all threads have exited after stop, every issued call was executed.
THEOREM StopDrainsAlways == Spec => []StopDrains
<1>1. ASSUME IInv, \A t \in Threads : pc[t] = "exit", NEW c \in Call, Issued(c)
      PROVE  lock[c] = "DONE" /\ ran[c] > 0
  <2>1. c \in Block /\ lock[c] \in {"FREE", "LOCKED", "DONE"}
    BY <1>1, CallsAreBlocks DEF IInv, LocksOK, Issued
  <2>2. PICK t \in Threads : r13[t] = curr
    BY <1>1, ThreadsAssumption DEF IInv, RegistersOK
  <2>3. lock[c] # "FREE"
    BY <1>1, <2>1, <2>2, IssuedBlocks DEF IInv, TakenOK, Issued, Block
  <2>4. lock[c] # "LOCKED"
    BY <1>1, <2>1 DEF IInv, TakenOK, Executing
  <2>5. lock[c] = "DONE"
    BY <2>1, <2>3, <2>4
  <2> QED
    BY <1>1, <2>5 DEF IInv, DataOK
<1>2. IInv => StopDrains
  BY <1>1 DEF StopDrains
<1> QED
  BY <1>2, Invariance, PTL

\* Callbacks of calls with at most four arguments get their result, once.
THEOREM AnswersRightOnce == Spec => []AnswerRightOnce
<1>1. IInv => AnswerRightOnce
  BY DEF IInv, DeliveryOK
<1> QED
  BY <1>1, Invariance, PTL

\* A poll closure may come as late as it likes: DONE never goes away, although
\* nothing stops a second thread from executing the block again.
THEOREM DoneStays == Spec => DoneIsFinal
<1>1. ASSUME IInv, [Next]_vars, NEW b \in Block, lock[b] = "DONE" PROVE lock'[b] = "DONE"
  <2>1. b # curr /\ b # next /\ b # next + 1
    BY <1>1, IssuedBlocks DEF IInv, LocksOK, ListOK, Stopping, Block
  <2>2. ASSUME NEW t \in Threads, ThreadStep(t) PROVE lock'[b] = "DONE"
    BY <1>1, <2>2 DEF ThreadStep, Load, Cas, CmpXchg, Verify, Execute, Store, MarkDone,
       StoreThreadId, Leave, Advance, memory, IInv, TypeOK
  <2>3. ASSUME JavaScriptStep PROVE lock'[b] = "DONE"
    BY <1>1, <2>1, <2>3 DEF JavaScriptStep, ExecLink, ExecFill, ExecFree, PollDone,
       PollAgain, Recycle, StopCurr, StopNext, WriteExit, memory, IInv, TypeOK
  <2>4. CASE UNCHANGED vars
    BY <1>1, <2>4 DEF vars, memory
  <2> QED
    BY <1>1, <2>2, <2>3, <2>4 DEF Next
<1>2. IInv /\ [Next]_vars => [\A b \in Block : lock[b] = "DONE" => lock'[b] = "DONE"]_vars
  BY <1>1
<1> QED
  BY <1>2, Invariance, PTL DEF Spec, DoneIsFinal

(***************************************************************************)
(* The pool implements the abstract service.                               *)
(***************************************************************************)

\* Steps that are neither the end of exec, nor a system call, nor an answer.
LEMMA ServiceStutter ==
  ASSUME UNCHANGED <<curr, ran, delivered>>
  PROVE  UNCHANGED Service!vars
BY DEF Service!vars, Issued

LEMMA ServiceIssue == ASSUME IInv, ExecFree PROVE \E c \in Call : Service!Issue(c)
<1>1. /\ js = "free" /\ curr' = next /\ UNCHANGED <<ran, delivered>>
      /\ curr \in Call /\ next = curr + 1
  BY DEF ExecFree, MoveOn, history, IInv, ListOK
<1>2. /\ curr \notin {c \in Call : c < curr}
      /\ {c \in Call : c < curr'} = {c \in Call : c < curr} \cup {curr}
  BY <1>1 DEF Call
<1> QED
  BY <1>1, <1>2 DEF Service!Issue, Issued

LEMMA ServiceRun ==
  ASSUME IInv, NEW t \in Threads, Execute(t) PROVE \E c \in Call : Service!Run(c)
<1> DEFINE c == r13[t]
<1>1. pc[t] = "call" /\ c \in Call /\ c < curr /\ arg[c] = c
  BY IssuedBlocks DEF Execute, Goto, IInv, RegistersOK, InBlock, TypeOK, DataOK
<1>2. /\ ran' = [ran EXCEPT ![c] = ran[c] + 1] /\ UNCHANGED <<curr, delivered>>
  BY <1>1 DEF Execute, object
<1>3. ran[c] < THREADS
  <2>1. PastCall(c) \in SUBSET Threads /\ t \notin PastCall(c)
    BY <1>1 DEF PastCall, Call
  <2>2. Cardinality(PastCall(c)) + 1 <= THREADS /\ Cardinality(PastCall(c)) \in Nat
    BY <2>1, ThreadSets
  <2>3. ran[c] \in Int /\ ran[c] <= Cardinality(PastCall(c))
    BY <1>1 DEF IInv, CountsOK, TypeOK
  <2> QED
    BY <2>2, <2>3, ThreadsNat
<1> QED
  BY <1>1, <1>2, <1>3 DEF Service!Run, Issued

LEMMA ServiceAnswer ==
  ASSUME IInv, NEW b \in Block, PollDone(b) PROVE \E c \in Call : Service!Answer(c)
<1>1. /\ b \in Call /\ poll[b] = b /\ delivered[b] = "none" /\ lock[b] = "DONE"
  BY DEF PollDone, PollRuns, Finished, IInv, DeliveryOK
<1>2. delivered' = [delivered EXCEPT ![b] = slot7[b]] /\ UNCHANGED <<curr, ran>>
  BY <1>1 DEF PollDone
<1>3. slot7[b] # "none" /\ delivered \in [Call -> {"none", "argument", "right", "wrong", "twice"}]
  BY DEF IInv, TypeOK
<1>4. /\ b \notin {c \in Call : delivered[c] # "none"}
      /\ {c \in Call : delivered'[c] # "none"} = {c \in Call : delivered[c] # "none"} \cup {b}
  BY <1>1, <1>2, <1>3
<1>5. ran[b] > 0
  BY <1>1 DEF IInv, DataOK
<1> QED
  BY <1>1, <1>2, <1>4, <1>5 DEF Service!Answer, Issued

\* Every behaviour of the pool is one of the service: what a callback is told
\* has happened, and every call is executed by at most THREADS threads.
THEOREM PoolImplementsService == Spec => ServiceSpec
<1>1. Init => Service!Init
  BY DEF Init, Service!Init, Issued, Call
<1>2. IInv /\ [Next]_vars => [Service!Next]_(Service!vars)
  <2> SUFFICES ASSUME IInv, [Next]_vars PROVE [Service!Next]_(Service!vars)
    OBVIOUS
  <2>1. ASSUME NEW t \in Threads, ThreadStep(t) PROVE [Service!Next]_(Service!vars)
    <3>1. CASE Execute(t)
      BY <3>1, ServiceRun DEF Service!Next
    <3>2. CASE ~Execute(t)
      <4>1. UNCHANGED <<curr, ran, delivered>>
        BY <2>1, <3>2 DEF ThreadStep, Load, Cas, Verify, Store, MarkDone, StoreThreadId,
           Leave, Advance, object, history
      <4> QED
        BY <4>1, ServiceStutter
    <3> QED
      BY <3>1, <3>2
  <2>2. ASSUME JavaScriptStep PROVE [Service!Next]_(Service!vars)
    <3>1. CASE ExecFree
      BY <3>1, ServiceIssue DEF Service!Next
    <3>2. ASSUME NEW b \in Block, PollDone(b) PROVE [Service!Next]_(Service!vars)
      BY <3>2, ServiceAnswer DEF Service!Next
    <3>3. ASSUME ExecLink \/ ExecFill \/ (\E b \in Block : PollAgain(b))
                 \/ Recycle \/ StopCurr \/ StopNext
          PROVE  [Service!Next]_(Service!vars)
      <4>1. UNCHANGED <<curr, ran, delivered>>
        BY <3>3 DEF ExecLink, ExecFill, PollAgain, Recycle, StopCurr, StopNext, history
      <4> QED
        BY <4>1, ServiceStutter
    <3> QED
      BY <2>2, <3>1, <3>2, <3>3 DEF JavaScriptStep
  <2>3. CASE UNCHANGED vars
    BY <2>3, ServiceStutter DEF vars, object, history
  <2> QED
    BY <2>1, <2>2, <2>3 DEF Next
<1> QED
  BY <1>1, <1>2, Invariance, PTL DEF Spec, ServiceSpec, Service!Spec

-----------------------------------------------------------------------------
(* What the calls carry: NativeCalls.  First some arithmetic.              *)

LEMMA Division ==
  ASSUME NEW a \in Int, NEW b \in Int, b > 0
  PROVE  /\ a \div b \in Int /\ a % b \in Int /\ a = (b * (a \div b)) + (a % b)
         /\ 0 <= a % b /\ a % b < b
  OBVIOUS

LEMMA OnlyZeroIsSmall ==
  ASSUME NEW k \in Int, NEW b \in Int, b > 0, k * b < b, -b < k * b
  PROVE  k = 0
<1>1. CASE k > 0
  <2>1. k - 1 >= 0
    BY <1>1
  <2>2. (k - 1) * b >= 0
    BY <2>1
  <2> QED BY <2>2
<1>2. CASE k < 0
  <2>1. -k - 1 >= 0
    BY <1>2
  <2>2. (-k - 1) * b >= 0
    BY <2>1
  <2> QED BY <2>2
<1> QED BY <1>1, <1>2

\* There is one quotient and one remainder.
LEMMA Remainder ==
  ASSUME NEW b \in Int, b > 0, NEW q \in Int, NEW r \in Int, 0 <= r, r < b,
         NEW a \in Int, a = (b * q) + r
  PROVE  a % b = r /\ a \div b = q
<1>1. PICK p \in Int, t \in Int :
        p = a \div b /\ t = a % b /\ a = (b * p) + t /\ 0 <= t /\ t < b
  BY Division
<1>2. (p - q) * b = r - t
  BY <1>1
<1>3. p - q \in Int /\ (p - q) * b < b /\ -b < (p - q) * b
  BY <1>1, <1>2
<1>4. p - q = 0
  BY <1>3, OnlyZeroIsSmall
<1>5. p = q
  BY <1>4
<1> QED BY <1>1, <1>2, <1>5

\* Whole multiples do not change a remainder.
LEMMA SameRemainder ==
  ASSUME NEW b \in Int, b > 0, NEW a \in Int, NEW c \in Int, NEW k \in Int, a = c + b * k
  PROVE  a % b = c % b
<1>1. PICK q \in Int, r \in Int : c = (b * q) + r /\ 0 <= r /\ r < b /\ r = c % b
  BY Division
<1>2. a = (b * (q + k)) + r /\ q + k \in Int
  BY <1>1
<1>3. a % b = r
  BY <1>1, <1>2, Remainder
<1> QED BY <1>1, <1>3

LEMMA SmallRemainder ==
  ASSUME NEW b \in Int, b > 0, NEW a \in Int, 0 <= a, a < b
  PROVE  a % b = a
<1>1. a = (b * 0) + a
  OBVIOUS
<1> QED BY <1>1, Remainder

\* Half is even, and a word is that many halves.
LEMMA Widths ==
  /\ Half \in Int /\ Half > 0 /\ Word \in Int /\ Word > 0 /\ Word = Half * Half /\ Half <= Word
  /\ Half \div 2 \in Int /\ Half \div 2 > 0 /\ Half = 2 * (Half \div 2)
<1>1. Half \in Int /\ Half > 2 /\ Half % 2 = 0
  BY WidthAssumption
<1>2. Half \div 2 \in Int /\ Half = 2 * (Half \div 2) /\ Half \div 2 > 0
  BY <1>1
<1>3. Word = Half * Half /\ Word \in Int
  BY <1>1 DEF Word
<1>4. Half * (Half - 1) >= 0
  BY <1>1
<1>5. Half * (Half - 1) = Half * Half - Half
  BY <1>1
<1>6. Half <= Half * Half
  BY <1>1, <1>3, <1>4, <1>5
<1> QED BY <1>1, <1>2, <1>3, <1>6

\* What is left of a number in an int differs from it by whole halves, and an int
\* is left alone.
LEMMA Wrapping ==
  ASSUME NEW n \in Int
  PROVE  /\ Wrap(n) \in Int /\ \E k \in Int : Wrap(n) = n + Half * k
         /\ n \in Ints => Wrap(n) = n
         /\ Wrap(n % Half) = Wrap(n)
<1> DEFINE h == Half \div 2
<1>1. Half \in Int /\ Half > 0 /\ h \in Int /\ Half = 2 * h /\ n + h \in Int
  BY Widths
<1>2. Wrap(n) = ((n + h) % Half) - h
  BY DEF Wrap
<1>3. Ints = -h .. h - 1
  BY DEF Ints
<1> HIDE DEF h
<1>4. PICK q \in Int, r \in Int : n + h = (Half * q) + r /\ r = (n + h) % Half
  BY <1>1, Division
<1>5. Wrap(n) = n + Half * (-q)
  BY <1>1, <1>2, <1>4
<1>6. n \in Ints => Wrap(n) = n
  <2>1. ASSUME n \in Ints PROVE (n + h) % Half = n + h
    <3>1. 0 <= n + h /\ n + h < Half
      BY <1>1, <1>3, <2>1
    <3> QED BY <1>1, <3>1, SmallRemainder
  <2> QED BY <1>1, <1>2, <2>1
<1>7. Wrap(n % Half) = Wrap(n)
  <2>1. PICK p \in Int, t \in Int : n = (Half * p) + t /\ t = n % Half
    BY <1>1, Division
  <2>2. PICK x \in Int, y \in Int : x = n + h /\ y = t + h
    BY <1>1, <2>1
  <2>3. x = y + Half * p
    <3>1. PICK z \in Int : z = Half * p
      BY <1>1
    <3>2. n = z + t
      BY <2>1, <3>1
    <3>3. x = y + z
      BY <1>1, <2>2, <3>2
    <3> QED BY <3>1, <3>3
  <2>4. Half \in Int /\ Half > 0
    BY <1>1
  <2>5. x % Half = y % Half
    BY <2>3, <2>4, SameRemainder
  <2>6. Wrap(t) = ((t + h) % Half) - h
    BY DEF Wrap, h
  <2> QED BY <1>2, <2>1, <2>2, <2>5, <2>6
<1> QED BY <1>1, <1>5, <1>6, <1>7

\* A 64-bit number split into two ints is put together again, with what is added.
LEMMA SplitAndJoined ==
  ASSUME NEW x \in Words, NEW k \in Int
  PROVE  Join(Lo(x), Hi(x), k) = (x + k) % Word
<1>1. Half \in Int /\ Half > 0 /\ Word \in Int /\ Word > 0 /\ Word = Half * Half /\ x \in Int
  BY Widths DEF Words
<1>2. PICK q \in Int, r \in Int :
        q = x \div Half /\ r = x % Half /\ x = (Half * q) + r /\ 0 <= r /\ r < Half
  BY <1>1, Division
<1>3. PICK i \in Int : Wrap(r) = r + Half * i
  BY <1>2, Wrapping
<1>4. PICK j \in Int : Wrap(q) = q + Half * j
  BY <1>2, Wrapping
<1>5. PICK lo \in Int, hi \in Int : lo = Lo(x) /\ hi = Hi(x) /\ lo = r + Half * i /\ hi = q + Half * j
  BY <1>1, <1>2, <1>3, <1>4 DEF Lo, Hi
<1>6. lo % Half = r
  <2>1. Half \in Int /\ Half > 0 /\ lo = r + Half * i
    BY <1>1, <1>5
  <2>2. lo % Half = r % Half
    BY <2>1, SameRemainder
  <2> QED BY <1>1, <1>2, <2>2, SmallRemainder
<1>7. hi * Half = (Half * q) + Word * j
  <2>1. hi * Half = (q + Half * j) * Half
    BY <1>5
  <2>2. (q + Half * j) * Half = (Half * q) + (Half * Half) * j
    BY <1>1
  <2> QED BY <1>1, <2>1, <2>2
<1>8. hi * Half + r + k = (x + k) + Word * j /\ hi * Half + r + k \in Int
  <2>1. PICK wj \in Int : wj = Word * j
    BY <1>1
  <2>2. PICK hq \in Int : hq = Half * q
    BY <1>1
  <2>3. PICK hh \in Int : hh = hi * Half
    BY <1>1
  <2>4. hh = hq + wj /\ x = hq + r
    BY <1>2, <1>7, <2>1, <2>2, <2>3
  <2>5. hh + r + k = (x + k) + wj
    BY <2>4
  <2> QED BY <2>1, <2>3, <2>5
<1>9. (hi * Half + r + k) % Word = (x + k) % Word
  <2>1. PICK a \in Int, c \in Int : a = hi * Half + r + k /\ c = x + k
    BY <1>1, <1>8
  <2>2. a = c + Word * j
    BY <1>8, <2>1
  <2>3. Word \in Int /\ Word > 0
    BY <1>1
  <2>4. a % Word = c % Word
    BY <2>2, <2>3, SameRemainder
  <2> QED BY <2>1, <2>4
<1> QED BY <1>5, <1>6, <1>9 DEF Join

LEMMA IntsAreNumbers == Ints \subseteq Int /\ 0 .. (Half \div 2) - 1 \subseteq Ints
<1>1. \A h \in Int : h > 0 => -h .. h - 1 \subseteq Int /\ 0 .. h - 1 \subseteq -h .. h - 1
  OBVIOUS
<1> QED BY <1>1, Widths DEF Ints

\* An int is taken for itself on every runtime.
LEMMA IntsStay == ASSUME NEW r, NEW n \in Ints PROVE ToInt(r, n) = n
BY IntsAreNumbers, Wrapping DEF ToInt, Clamp

LEMMA Addresses == ASSUME NEW n \in Int PROVE n % Word \in Words
<1>1. PICK m \in Int : m = n % Word /\ 0 <= m /\ m < Word
  BY Widths, Division
<1> QED BY <1>1, Widths DEF Words

LEMMA JoinOfInt == ASSUME NEW n \in Ints PROVE Join(n, 0, 0) = n % Half
<1>1. n \in Int
  BY IntsAreNumbers
<1>2. PICK m \in Int : m = n % Half /\ 0 <= m /\ m < Half
  BY <1>1, Widths, Division
<1>3. 0 * Half + m + 0 = m
  BY <1>2, Widths
<1>4. m < Word
  BY <1>2, Widths
<1>5. m % Word = m
  BY <1>2, <1>4, Widths, SmallRemainder
<1> QED BY <1>2, <1>3, <1>5 DEF Join

\* The four ways memory is passed.
LEMMA TupleAtOnce ==
  ASSUME NEW r, NEW a \in Memory PROVE SyncArg(r, a) = (a.at + a.offset) % Word
<1>1. a.kind = "memory" /\ a.at \in Words /\ a.offset \in Int
  BY IntsAreNumbers DEF Memory
<1>2. SyncArg(r, a) = Join(Lo(a.at), Hi(a.at), a.offset)
  BY <1>1 DEF SyncArg
<1> QED BY <1>1, <1>2, SplitAndJoined

LEMMA SliceAtOnce ==
  ASSUME NEW r, NEW a \in Slices PROVE SyncArg(r, a) = (a.at + a.offset) % Word
BY DEF SyncArg, Slices

LEMMA TupleInBlock ==
  ASSUME NEW r, NEW a \in Memory, ~(a.offset > 0)
  PROVE  AsyncArg(r, a) = (a.at + a.offset) % Word
<1>1. a.kind = "memory" /\ a.at \in Words /\ a.offset \in 0 .. (Half \div 2) - 1
  BY DEF Memory
<1>2. a.offset = 0
  BY <1>1, Widths
<1>3. AsyncArg(r, a) = Join(Lo(a.at), Hi(a.at), 0)
  BY <1>1 DEF AsyncArg
<1> QED BY <1>1, <1>2, <1>3, SplitAndJoined

LEMMA SliceInBlock ==
  ASSUME NEW r, NEW a \in Slices, ~(a.offset > 0 /\ r = "v8")
  PROVE  AsyncArg(r, a) = (a.at + a.offset) % Word
<1>1. a.kind = "slice" /\ a.at \in Words /\ a.offset \in 0 .. (Half \div 2) - 1
  BY DEF Slices
<1>2. PICK at \in Int, k \in Int : at = a.at /\ k = a.offset /\ 0 <= k /\ k \in Ints
  BY <1>1, IntsAreNumbers, Widths DEF Words
<1>3. 0 <= at /\ at < Word
  BY <1>1, <1>2, Widths DEF Words
<1>4. GetAddress(r, at, k) = (at + k) % Word
  <2>1. CASE r # "v8"
    BY <1>2, <2>1, IntsStay DEF GetAddress
  <2>2. CASE r = "v8"
    <3>1. k = 0
      BY <1>2, <2>2
    <3>2. at % Word = at
      BY <1>2, <1>3, Widths, SmallRemainder
    <3> QED BY <1>2, <2>2, <3>1, <3>2 DEF GetAddress
  <2> QED BY <2>1, <2>2
<1>5. PICK addr \in Words : addr = (at + k) % Word
  BY <1>2, Addresses
<1>6. AsyncArg(r, a) = Join(Lo(addr), Hi(addr), 0)
  BY <1>1, <1>2, <1>4, <1>5 DEF AsyncArg
<1>7. Join(Lo(addr), Hi(addr), 0) = (addr + 0) % Word
  BY SplitAndJoined
<1>8. addr \in Int /\ 0 <= addr /\ addr < Word
  BY <1>5, Widths DEF Words
<1>9. (addr + 0) % Word = addr
  BY <1>8, Widths, SmallRemainder
<1> QED BY <1>2, <1>5, <1>6, <1>7, <1>9

LEMMA CallArrives ==
  ASSUME NEW a \in Args, CallNative(a) PROVE ArgumentsArrive'
<1> SUFFICES ASSUME stage' = "called" PROVE ArgumentsArrive'
  BY DEF ArgumentsArrive, MemoryArrives, IntsArrive, NullArrives
<1>1. argument' = a /\ runtime' = runtime
  BY DEF CallNative
<1>2. \/ way' = "sync" /\ reg' = SyncArg(runtime, a)
      \/ way' = "async" /\ Fits(a) /\ reg' = AsyncArg(runtime, a)
  BY DEF CallNative
<1>3. MemoryArrives'
  <2>1. CASE a \in Memory
    <3>1. a.kind = "memory"
      BY <2>1 DEF Memory
    <3>2. CASE way' = "sync"
      BY <1>1, <1>2, <2>1, <3>2, TupleAtOnce DEF MemoryArrives
    <3>3. CASE way' = "async"
      BY <1>1, <1>2, <2>1, <3>1, <3>3, TupleInBlock DEF MemoryArrives
    <3> QED BY <1>2, <3>2, <3>3
  <2>2. CASE a \in Slices
    <3>1. a.kind = "slice"
      BY <2>2 DEF Slices
    <3>2. CASE way' = "sync"
      BY <1>1, <1>2, <2>2, <3>2, SliceAtOnce DEF MemoryArrives
    <3>3. CASE way' = "async"
      BY <1>1, <1>2, <2>2, <3>1, <3>3, SliceInBlock DEF MemoryArrives
    <3> QED BY <1>2, <3>2, <3>3
  <2>3. CASE a \in Numbers \cup {NullArg}
    <3>1. a.kind \notin {"memory", "slice"}
      BY <2>3 DEF Numbers, NullArg
    <3> QED BY <1>1, <3>1 DEF MemoryArrives
  <2> QED BY <2>1, <2>2, <2>3 DEF Args
<1>4. IntsArrive'
  <2> SUFFICES ASSUME a.kind = "number", a.n \in Ints
               PROVE  reg' = IF way' = "async" THEN a.n % Half ELSE a.n % Word
    BY <1>1 DEF IntsArrive
  <2>1. CASE way' = "sync"
    <3>1. SyncArg(runtime, a) = a.n % Word
      BY IntsStay DEF SyncArg
    <3> QED BY <1>2, <2>1, <3>1
  <2>2. CASE way' = "async"
    <3>1. AsyncArg(runtime, a) = a.n % Half
      BY JoinOfInt DEF AsyncArg
    <3> QED BY <1>2, <2>2, <3>1
  <2> QED BY <1>2, <2>1, <2>2
<1>5. NullArrives'
  <2>1. a = NullArg => SyncArg(runtime, a) = 0 /\ AsyncArg(runtime, a) = 0
    BY DEF SyncArg, AsyncArg, NullArg
  <2> QED BY <1>1, <1>2, <2>1 DEF NullArrives
<1> QED BY <1>3, <1>4, <1>5 DEF ArgumentsArrive

LEMMA ReturnArrives ==
  ASSUME NEW v \in Int, Return(v) PROVE ResultsArrive'
<1> SUFFICES ASSUME ~(runtime' = "v8" /\ way' = "sync" /\ ret' < 0)
             PROVE  /\ v \in Ints => number' = v
                    /\ Join(tuple'[1], tuple'[2], 0) = v % Word
  BY DEF Return, ResultsArrive
<1>1. ret' = v /\ runtime' = runtime /\ way' = way
  BY DEF Return
<1>2. (IF way = "sync" /\ v < 0 THEN Negated(runtime, -v) ELSE v) = v
  <2>1. CASE way = "sync" /\ v < 0
    <3>1. Negated(runtime, -v) = -(-v)
      BY <1>1, <2>1 DEF Negated
    <3> QED BY <2>1, <3>1
  <2> QED BY <2>1
<1>3. number' = AsNumber(v) /\ tuple' = AsTuple(v)
  BY <1>2 DEF Return
<1>4. v \in Ints => number' = v
  BY <1>3, Wrapping DEF AsNumber
<1>5. PICK x \in Words : x = v % Word
  BY Addresses
<1>6. x \in Int /\ 0 <= x /\ x < Word
  BY Widths DEF Words
<1>7. Join(Lo(x), Hi(x), 0) = (x + 0) % Word
  BY SplitAndJoined
<1>8. (x + 0) % Word = x
  BY <1>6, Widths, SmallRemainder
<1>9. tuple'[1] = Lo(x) /\ tuple'[2] = Hi(x)
  BY <1>3, <1>5 DEF AsTuple
<1> QED BY <1>4, <1>5, <1>7, <1>8, <1>9

\* What the kernel reads is what the program passed, on every runtime and both ways
\* of calling, but for the two kinds of argument that ArgumentsArrive names:
\* whatever the (even) number of values of an int.
THEOREM ArgumentsAlwaysArrive == NativeSpec => []ArgumentsArrive
<1>1. NativeInit => ArgumentsArrive
  BY DEF NativeInit, ArgumentsArrive, MemoryArrives, IntsArrive, NullArrives
<1>2. ArgumentsArrive /\ [NativeNext]_native => ArgumentsArrive'
  <2> SUFFICES ASSUME ArgumentsArrive, [NativeNext]_native PROVE ArgumentsArrive'
    OBVIOUS
  <2>1. ASSUME NEW a \in Args, CallNative(a) PROVE ArgumentsArrive'
    BY <2>1, CallArrives
  <2>2. ASSUME NEW v, Return(v) PROVE ArgumentsArrive'
    BY <2>2 DEF Return, ArgumentsArrive, MemoryArrives, IntsArrive, NullArrives
  <2>3. CASE Continue
    BY <2>3 DEF Continue, ArgumentsArrive, MemoryArrives, IntsArrive, NullArrives
  <2>4. CASE UNCHANGED native
    BY <2>4 DEF native, ArgumentsArrive, MemoryArrives, IntsArrive, NullArrives
  <2> QED BY <2>1, <2>2, <2>3, <2>4 DEF NativeNext
<1> QED BY <1>1, <1>2, PTL DEF NativeSpec

\* Results come back whole: the number of syscall when it fits an int, the halves of
\* syscall64 always, errors of synchronous calls on V8 excepted.
THEOREM ResultsAlwaysArrive == NativeSpec => []ResultsArrive
<1>1. NativeInit => ResultsArrive
  BY DEF NativeInit, ResultsArrive
<1>2. ResultsArrive /\ [NativeNext]_native => ResultsArrive'
  <2> SUFFICES ASSUME ResultsArrive, [NativeNext]_native PROVE ResultsArrive'
    OBVIOUS
  <2>1. ASSUME NEW a \in Args, CallNative(a) PROVE ResultsArrive'
    BY <2>1 DEF CallNative, ResultsArrive
  <2>2. ASSUME NEW v \in -MaxErrno .. Word - MaxErrno - 1, Return(v) PROVE ResultsArrive'
    BY <2>2, ReturnArrives, Widths, WidthAssumption
  <2>3. CASE Continue
    BY <2>3 DEF Continue, ResultsArrive
  <2>4. CASE UNCHANGED native
    BY <2>4 DEF native, ResultsArrive
  <2> QED BY <2>1, <2>2, <2>3, <2>4 DEF NativeNext
<1> QED BY <1>1, <1>2, PTL DEF NativeSpec

=============================================================================
