---------------------------- MODULE UdpPollProofs ----------------------------
(***************************************************************************)
(* What UdpPoll keeps for every number of sockets, descriptors, events and *)
(* datagrams: the descriptors and the table socks agree, bound sockets are *)
(* counted, each socket is given its own datagrams in order and once, and  *)
(* a stopped one none at all.                                              *)
(*                                                                         *)
(* One inductive invariant, IInv of UdpPoll, carries them all.  Create and *)
(* CreateLeaks take a descriptor nobody holds; Stop gives back one that no *)
(* other open socket holds, because each owner is one socket; Recv reads   *)
(* the queue of the owner of this.fd, which is the socket itself.          *)
(***************************************************************************)
EXTENDS UdpPoll, SequenceTheorems, TLAPS

\* The number 0 stands for no socket.
LEMMA NoSocketIsNone == NoSocket \notin Sockets
BY NumbersAssumption DEF NoSocket, Sockets

Holders == <<fd, owner, socks, life>>
Queues  == <<inbox, got, sent, port>>

\* A socket keeps its datagrams when its queue, its port and its life do not change.
LEMMA QueuesKeep ==
    ASSUME OwnDatagrams, UNCHANGED <<inbox, got, sent>>,
           \A s \in Sockets : life'[s] = "stopped" <=> life[s] = "stopped"
    PROVE  OwnDatagrams'
BY DEF OwnDatagrams

\* What was given and what waits are a prefix and the rest of what was sent.
LEMMA PrefixOfConcat ==
    ASSUME NEW S, NEW a \in Seq(S), NEW b \in Seq(S)
    PROVE  \E n \in 0 .. Len(a \o b) : a = SubSeq(a \o b, 1, n)
<1> DEFINE c == a \o b
<1>1. c \in Seq(S) /\ Len(c) = Len(a) + Len(b)
    BY ConcatProperties
<1>2. Len(a) \in 0 .. Len(c)
    BY <1>1, LenProperties
<1>3. \A i \in 1 .. Len(a) : c[i] = a[i] /\ c[i] \in S
    BY ConcatProperties, ElementOfSeq, LenProperties
<1>4. /\ SubSeq(c, 1, Len(a)) \in Seq(S)
      /\ Len(SubSeq(c, 1, Len(a))) = Len(a)
      /\ \A i \in 1 .. Len(a) : SubSeq(c, 1, Len(a))[i] = c[i]
    <2>1. \A i \in 1 .. Len(a) : c[i] \in S
        BY <1>3
    <2>2. Len(a) \in Nat
        BY LenProperties
    <2> HIDE DEF c
    <2>3. /\ SubSeq(c, 1, Len(a)) \in Seq(S)
          /\ Len(SubSeq(c, 1, Len(a))) = IF 1 <= Len(a) THEN Len(a) - 1 + 1 ELSE 0
          /\ \A i \in 1 .. Len(a) - 1 + 1 : SubSeq(c, 1, Len(a))[i] = c[1 + i - 1]
        BY <2>1, <2>2, SubSeqProperties, 1 \in Int
    <2> QED BY <2>2, <2>3
<1> HIDE DEF c
<1>5. a = SubSeq(c, 1, Len(a))
    BY <1>3, <1>4, SeqEqual
<1> QED BY <1>2, <1>5 DEF c

\* Handing over the head of the queue leaves the whole as it was.
LEMMA HeadMoves ==
    ASSUME NEW S, NEW a \in Seq(S), NEW b \in Seq(S), b # <<>>
    PROVE  Append(a, Head(b)) \o Tail(b) = a \o b
<1>1. Head(b) \in S /\ Tail(b) \in Seq(S) /\ Len(Tail(b)) = Len(b) - 1
    BY HeadTailProperties
<1>2. \A i \in 1 .. Len(Tail(b)) : Tail(b)[i] = b[i + 1]
    BY HeadTailProperties
<1>3. /\ Append(a, Head(b)) \in Seq(S) /\ Len(Append(a, Head(b))) = Len(a) + 1
      /\ \A i \in 1 .. Len(a) : Append(a, Head(b))[i] = a[i]
      /\ Append(a, Head(b))[Len(a) + 1] = Head(b)
    BY <1>1, AppendProperties
<1> DEFINE l == Append(a, Head(b)) \o Tail(b)
           r == a \o b
<1>4. l \in Seq(S) /\ Len(l) = Len(a) + 1 + Len(b) - 1
    BY <1>1, <1>3, ConcatProperties, LenProperties
<1>5. r \in Seq(S) /\ Len(r) = Len(a) + Len(b)
    BY ConcatProperties
<1>6. Len(l) = Len(r) /\ Len(a) \in Nat /\ Len(b) \in Nat
    BY <1>4, <1>5, LenProperties
<1>7. ASSUME NEW i \in 1 .. Len(r) PROVE l[i] = r[i]
    BY <1>1, <1>2, <1>3, <1>5, <1>6, ConcatProperties
<1> HIDE DEF l, r
<1>8. l = r
    BY <1>4, <1>5, <1>6, <1>7, SeqEqual
<1> QED BY <1>8 DEF l, r

\* Queueing a datagram appends it to the whole.
LEMMA TailGrows ==
    ASSUME NEW S, NEW a \in Seq(S), NEW b \in Seq(S), NEW d \in S
    PROVE  a \o Append(b, d) = Append(a \o b, d)
<1>1. Append(b, d) = b \o <<d>> /\ Append(a \o b, d) = (a \o b) \o <<d>>
    BY ConcatProperties, AppendIsConcat
<1>2. <<d>> \in Seq(S)
    OBVIOUS
<1> QED BY <1>1, <1>2, ConcatAssociative

-----------------------------------------------------------------------------

\* At the start no socket holds a descriptor and nothing was sent.
LEMMA InitIInv == Init => IInv
<1> SUFFICES ASSUME Init PROVE IInv
    OBVIOUS
<1>1. OwnDatagrams
    <2>1. <<>> \o <<>> = <<>>
        BY ConcatEmptySeq, EmptySeq
    <2> QED BY <2>1 DEF Init, OwnDatagrams
<1>2. /\ inbox \in [Sockets -> Seq(Datagram)] /\ got \in [Sockets -> Seq(Datagram)]
      /\ sent \in [Sockets -> Seq(Datagram)]
    BY EmptySeq DEF Init
<1> QED
    BY <1>1, <1>2, NoSocketIsNone, NumbersAssumption
       DEF Init, IInv, SocksFindOpen, Open, Fds

\* Taking a free descriptor and entering it in socks disturbs no other socket.
LEMMA TakeIInv ==
    ASSUME IInv, NEW s \in Sockets, life[s] = "new",
           NEW f \in Fds, Lowest(f),
           owner' = [owner EXCEPT ![f] = s],
           fd' = [fd EXCEPT ![s] = f],
           socks' = Entered(s, f),
           NEW made \in {"socket", "Error"}, life' = [life EXCEPT ![s] = made],
           UNCHANGED <<bindState, refs, inbox, got, sent, port, js, current>>
    PROVE  IInv'
<1>1. f # 0 /\ f \in 0 .. MaxFd
    BY NumbersAssumption DEF Fds
<1>2. \A r \in Sockets : Open(r) => fd[r] # f
    BY NoSocketIsNone DEF IInv, SocksFindOpen, Lowest, FreeFds
<1>3. SocksFindOpen'
    <2> SUFFICES ASSUME NEW r \in Sockets, Open(r)'
                 PROVE  socks'[fd'[r]] = r /\ owner'[fd'[r]] = r
        BY DEF SocksFindOpen
    <2>1. CASE r = s
        BY <2>1 DEF IInv, Entered
    <2>2. CASE r # s
        <3>1. fd'[r] = fd[r] /\ Open(r) /\ fd[r] \in Fds
            BY <2>2, NumbersAssumption DEF IInv, Open, Fds
        <3> QED BY <3>1, <1>2 DEF IInv, Entered, SocksFindOpen
    <2> QED BY <2>1, <2>2
<1>4. \A r \in Sockets : life'[r] \in {"new", "stopped"} => ~Open(r)'
    BY DEF IInv, Open
<1>5. OwnDatagrams'
    <2>1. \A r \in Sockets : life'[r] = "stopped" <=> life[r] = "stopped"
        BY DEF IInv
    <2> QED BY <2>1, QueuesKeep DEF IInv
<1> QED BY <1>1, <1>3, <1>4, <1>5 DEF IInv, Entered

\* A step that changes none of what IInv speaks of, except who is current.
LEMMA SameIInv ==
    ASSUME IInv, UNCHANGED <<Holders, Queues, refs, bindState>>,
           js' \in {"update", "ondata"} => current' \in Sockets
    PROVE  IInv'
<1>1. OwnDatagrams'
    BY QueuesKeep DEF IInv, Holders, Queues
<1> QED BY <1>1 DEF IInv, Holders, Queues, SocksFindOpen, Open

\* recvfrom(this.fd) reads the queue of the socket itself.
LEMMA RecvIInv == ASSUME IInv, Recv PROVE IInv'
<1> DEFINE from == owner[fd[current]]
<1>1. current \in Sockets /\ from = current /\ inbox[current] # <<>>
    BY DEF Recv, Readable, IInv, SocksFindOpen, Open
<1>2. life[current] # "stopped"
    BY <1>1 DEF Recv, Readable, IInv, Open
<1>3. /\ inbox[current] \in Seq(Datagram) /\ got[current] \in Seq(Datagram)
      /\ Head(inbox[current]) \in Datagram /\ Tail(inbox[current]) \in Seq(Datagram)
    BY <1>1, HeadTailProperties DEF IInv
<1>4. /\ inbox' = [inbox EXCEPT ![current] = Tail(@)]
      /\ got' = [got EXCEPT ![current] = Append(@, Head(inbox[current]))]
      /\ UNCHANGED <<Holders, sent, port, refs, bindState, current>>
    BY <1>1 DEF Recv, Holders, objects, poll
<1>5. OwnDatagrams'
    <2> SUFFICES ASSUME NEW r \in Sockets
                 PROVE  IF life'[r] = "stopped"
                        THEN \E n \in 0 .. Len(sent'[r]) : got'[r] = SubSeq(sent'[r], 1, n)
                        ELSE got'[r] \o inbox'[r] = sent'[r]
        BY DEF OwnDatagrams
    <2>1. CASE r = current
        <3>1. got'[r] \o inbox'[r] = Append(got[r], Head(inbox[r])) \o Tail(inbox[r])
            BY <1>1, <1>4, <2>1 DEF IInv
        <3>2. Append(got[r], Head(inbox[r])) \o Tail(inbox[r]) = got[r] \o inbox[r]
            BY <1>1, <1>3, <2>1, HeadMoves
        <3>3. got[r] \o inbox[r] = sent[r]
            BY <1>2, <2>1 DEF IInv, OwnDatagrams
        <3> QED BY <3>1, <3>2, <3>3, <1>2, <1>4, <2>1 DEF Holders
    <2>2. CASE r # current
        <3>1. got'[r] = got[r] /\ inbox'[r] = inbox[r]
            BY <1>4, <2>2 DEF IInv
        <3> QED BY <3>1, <1>4 DEF IInv, OwnDatagrams, Holders
    <2> QED BY <2>1, <2>2
<1>6. inbox' \in [Sockets -> Seq(Datagram)] /\ got' \in [Sockets -> Seq(Datagram)]
    BY <1>1, <1>3, <1>4, AppendProperties DEF IInv
<1> QED BY <1>1, <1>4, <1>5, <1>6 DEF IInv, Holders, SocksFindOpen, Open

\* A datagram is queued for a socket that has a port, so one that is not stopped.
LEMMA ArriveIInv ==
    ASSUME IInv, NEW s \in Sockets, NEW full \in BOOLEAN, Arrive(s, full)
    PROVE  IInv'
<1>1. PICK d \in Datagram : /\ sent' = [sent EXCEPT ![s] = Append(@, d)]
                            /\ inbox' = [inbox EXCEPT ![s] = Append(@, d)]
    BY DEF Arrive, Deliver
<1>2. UNCHANGED <<Holders, got, port, refs, bindState, js, current>>
    BY DEF Arrive, Holders, objects, poll, thread
<1>3. life[s] # "stopped"
    BY DEF Arrive, IInv
<1>4. inbox[s] \in Seq(Datagram) /\ got[s] \in Seq(Datagram) /\ sent[s] \in Seq(Datagram)
    BY DEF IInv
<1>5. OwnDatagrams'
    <2> SUFFICES ASSUME NEW r \in Sockets
                 PROVE  IF life'[r] = "stopped"
                        THEN \E n \in 0 .. Len(sent'[r]) : got'[r] = SubSeq(sent'[r], 1, n)
                        ELSE got'[r] \o inbox'[r] = sent'[r]
        BY DEF OwnDatagrams
    <2>1. CASE r = s
        <3> DEFINE a == got[s]
                   b == inbox[s]
        <3>1. a \o b = sent[s]
            BY <1>3 DEF IInv, OwnDatagrams
        <3>2. inbox'[s] = Append(b, d) /\ sent'[s] = Append(sent[s], d) /\ got'[s] = a
            BY <1>1, <1>2 DEF IInv
        <3>3. a \in Seq(Datagram) /\ b \in Seq(Datagram)
            BY <1>4
        <3> HIDE DEF a, b
        <3>4. a \o Append(b, d) = Append(a \o b, d)
            BY <3>3, TailGrows
        <3> QED BY <3>1, <3>2, <3>4, <1>2, <1>3, <2>1 DEF Holders
    <2>2. CASE r # s
        <3>1. inbox'[r] = inbox[r] /\ sent'[r] = sent[r]
            BY <1>1, <2>2 DEF IInv
        <3> QED BY <3>1, <1>2 DEF IInv, OwnDatagrams, Holders
    <2> QED BY <2>1, <2>2
<1>6. inbox' \in [Sockets -> Seq(Datagram)] /\ sent' \in [Sockets -> Seq(Datagram)]
    BY <1>1, <1>4, AppendProperties DEF IInv
<1> QED BY <1>2, <1>5, <1>6 DEF IInv, Holders, SocksFindOpen, Open

\* Closing gives back one descriptor; what was not read is dropped.
LEMMA StopIInv == ASSUME IInv, NEW s \in Sockets, Stop(s) PROVE IInv'
<1>1. /\ life' = [life EXCEPT ![s] = "stopped"]
      /\ fd' = [fd EXCEPT ![s] = 0]
      /\ owner' = [f \in Fds |-> IF f = fd[s] THEN NoSocket ELSE owner[f]]
      /\ port' = [port EXCEPT ![s] = FALSE]
      /\ inbox' = [inbox EXCEPT ![s] = <<>>]
      /\ UNCHANGED <<socks, got, sent, refs, bindState, js, current>>
    BY DEF Stop, ClosedFd, RefsAfterStop, thread, history
<1>2. SocksFindOpen'
    <2> SUFFICES ASSUME NEW r \in Sockets, Open(r)'
                 PROVE  socks'[fd'[r]] = r /\ owner'[fd'[r]] = r
        BY DEF SocksFindOpen
    <2>1. r # s /\ fd'[r] = fd[r] /\ Open(r)
        BY <1>1 DEF IInv, Open
    <2>2. fd[r] \in Fds /\ fd[r] # fd[s]
        BY <2>1, NumbersAssumption DEF IInv, SocksFindOpen, Open, Fds
    <2> QED BY <1>1, <2>1, <2>2 DEF IInv, SocksFindOpen
<1>3. OwnDatagrams'
    <2> SUFFICES ASSUME NEW r \in Sockets
                 PROVE  IF life'[r] = "stopped"
                        THEN \E n \in 0 .. Len(sent'[r]) : got'[r] = SubSeq(sent'[r], 1, n)
                        ELSE got'[r] \o inbox'[r] = sent'[r]
        BY DEF OwnDatagrams
    <2>1. CASE life[r] = "stopped"
        BY <1>1, <2>1 DEF IInv, OwnDatagrams
    <2>2. CASE life[r] # "stopped" /\ r = s
        <3>1. got[r] \o inbox[r] = sent[r]
            BY <2>2 DEF IInv, OwnDatagrams
        <3>2. \E n \in 0 .. Len(got[r] \o inbox[r]) : got[r] = SubSeq(got[r] \o inbox[r], 1, n)
            <4> DEFINE a == got[r]
                       b == inbox[r]
            <4>1. a \in Seq(Datagram) /\ b \in Seq(Datagram)
                BY DEF IInv
            <4> HIDE DEF a, b
            <4>2. \E n \in 0 .. Len(a \o b) : a = SubSeq(a \o b, 1, n)
                BY <4>1, PrefixOfConcat
            <4> QED BY <4>2 DEF a, b
        <3> QED BY <1>1, <2>2, <3>1, <3>2 DEF IInv
    <2>3. CASE life[r] # "stopped" /\ r # s
        BY <1>1, <2>3 DEF IInv, OwnDatagrams
    <2> QED BY <2>1, <2>2, <2>3
<1>4. inbox' \in [Sockets -> Seq(Datagram)]
    BY <1>1, EmptySeq DEF IInv
<1>5. \A r \in Sockets : life'[r] \in {"new", "stopped"} => ~Open(r)'
    BY <1>1 DEF IInv, Open
<1>6. \A r \in Sockets : port'[r] => life'[r] = "socket"
    BY <1>1 DEF IInv
<1> QED BY <1>1, <1>2, <1>3, <1>4, <1>5, <1>6, NumbersAssumption DEF IInv

\* Every step of Next keeps IInv.
LEMMA NextIInv == IInv /\ [Next]_vars => IInv'
<1> SUFFICES ASSUME IInv, [Next]_vars PROVE IInv'
    OBVIOUS
<1> USE DEF objects, poll, thread, kernel, history, Holders, Queues
<1>1. CASE UNCHANGED vars
    BY <1>1, SameIInv DEF vars, IInv
<1>2. CASE Wait \/ EndWait \/ Busy
    BY <1>2, SameIInv DEF Wait, EndWait, Busy, IInv
<1>3. CASE NextEvent
    <2>1. js' \in {"update", "ondata"} => current' \in Sockets
        BY <1>3 DEF NextEvent, IInv
    <2> QED BY <1>3, <2>1, SameIInv DEF NextEvent
<1>4. CASE RecvFails \/ OndataReturns
    BY <1>4, SameIInv DEF RecvFails, OndataReturns, IInv
<1>5. CASE Recv
    BY <1>5, RecvIInv
<1>6. ASSUME NEW s \in Sockets, Create(s) PROVE IInv'
    BY <1>6, TakeIInv DEF Create, NextNew
<1>7. ASSUME NEW s \in Sockets, CreateLeaks(s) PROVE IInv'
    BY <1>7, TakeIInv DEF CreateLeaks, NextNew
<1>8. ASSUME NEW s \in Sockets, CreateFails(s) PROVE IInv'
    <2>1. OwnDatagrams'
        <3>1. \A r \in Sockets : life'[r] = "stopped" <=> life[r] = "stopped"
            BY <1>8 DEF CreateFails, NextNew, IInv
        <3> QED BY <1>8, <3>1, QueuesKeep DEF CreateFails, NextNew, IInv
    <2> QED BY <1>8, <2>1 DEF CreateFails, NextNew, IInv, SocksFindOpen, Open
<1>9. ASSUME NEW s \in Sockets, Bind(s) \/ BindFails(s) \/ SendUnbound(s) PROVE IInv'
    <2>1. OwnDatagrams'
        BY <1>9, QueuesKeep DEF Bind, BindFails, SendUnbound, IInv
    <2>2. \A r \in Sockets : port'[r] => life'[r] = "socket"
        BY <1>9 DEF Bind, BindFails, SendUnbound, IInv, Open
    <2>3. SocksFindOpen' /\ \A r \in Sockets : life'[r] \in {"new", "stopped"} => ~Open(r)'
        BY <1>9 DEF Bind, BindFails, SendUnbound, IInv, SocksFindOpen, Open
    <2>4. /\ bindState' \in [Sockets -> {"UNBOUND", "BINDING", "BOUND"}] /\ refs' \in Nat
          /\ \A r \in Sockets : bindState'[r] = "BOUND" => refs' # 0
        <3>1. CASE Bind(s)
            <4>1. refs' \in Nat /\ refs' # 0
                BY <3>1 DEF Bind, IInv
            <4> QED BY <3>1, <4>1 DEF Bind, IInv
        <3>2. CASE BindFails(s)
            BY <3>2 DEF BindFails, IInv
        <3>3. CASE SendUnbound(s)
            BY <3>3 DEF SendUnbound, IInv
        <3> QED BY <1>9, <3>1, <3>2, <3>3
    <2> QED BY <1>9, <2>1, <2>2, <2>3, <2>4 DEF Bind, BindFails, SendUnbound, IInv
<1>10. ASSUME NEW s \in Sockets, Stop(s) PROVE IInv'
    BY <1>10, StopIInv
<1>11. ASSUME NEW s \in Sockets, NEW full \in BOOLEAN, Arrive(s, full) PROVE IInv'
    BY <1>11, ArriveIInv
<1> QED BY <1>1, <1>2, <1>3, <1>4, <1>5, <1>6, <1>7, <1>8, <1>9, <1>10, <1>11 DEF Next, Loop

\* IInv holds in every state.
THEOREM SocketInvariance == Spec => []IInv
BY InitIInv, NextIInv, PTL DEF Spec

-----------------------------------------------------------------------------

\* Poll.wait finds every open descriptor under the socket that holds it.
THEOREM TableFindsOpen == Spec => []SocksFindOpen
<1>1. IInv => SocksFindOpen
    BY DEF IInv
<1> QED BY <1>1, SocketInvariance, PTL

\* Each ondata is given its socket's datagrams, in order, once, none left out.
THEOREM DatagramsInOrder == Spec => []OwnDatagrams
<1>1. IInv => OwnDatagrams
    BY DEF IInv
<1> QED BY <1>1, SocketInvariance, PTL

\* A bound socket that is open keeps the loop running.
THEOREM BoundAlwaysCounted == Spec => []BoundKeepsLoop
<1>1. IInv => BoundKeepsLoop
    BY DEF IInv, BoundKeepsLoop
<1> QED BY <1>1, SocketInvariance, PTL

\* No step gives a datagram to a stopped socket: recvfrom needs its descriptor.
THEOREM StoppedGetsNothing == Spec => StopIsFinal
<1>1. ASSUME IInv, [Next]_vars, NEW s \in Sockets, life[s] = "stopped"
      PROVE  got'[s] = got[s]
    <2> USE DEF objects, poll, thread, kernel, history
    <2>1. CASE Recv
        <3>1. current # s
            BY <1>1, <2>1 DEF Recv, Readable, IInv, Open
        <3> QED BY <1>1, <2>1, <3>1 DEF Recv, IInv
    <2>2. CASE ~Recv
        <3>1. got' = got
            BY <1>1, <2>2 DEF vars, Next, Loop, Busy, Wait, NextEvent, EndWait, RecvFails,
               OndataReturns, Create, CreateFails, CreateLeaks, Bind, BindFails,
               SendUnbound, Stop, Arrive, Deliver
        <3> QED BY <3>1
    <2> QED BY <2>1, <2>2
<1>2. IInv /\ [Next]_vars =>
        [\A s \in Sockets : life[s] = "stopped" => got'[s] = got[s]]_vars
    BY <1>1
<1> QED BY <1>2, SocketInvariance, PTL DEF Spec, StopIsFinal
==============================================================================
