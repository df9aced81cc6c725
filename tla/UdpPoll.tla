------------------------------- MODULE UdpPoll -------------------------------
(***************************************************************************)
(* class Poll and the datagram sockets of full-js/src/libaio/epoll.ts with *)
(* the dgram.Socket of full-js/src/lib/dgram.ts on top.                    *)
(*                                                                         *)
(* The kernel hands out descriptors, queues datagrams and fills the event  *)
(* buffer; Poll.wait walks that buffer and calls Socket.update, which      *)
(* reads datagrams and hands each to the program's ondata.  Callbacks may  *)
(* create, bind, close and send, so an event can be stale when wait gets   *)
(* to it: its socket closed, its descriptor given to another.              *)
(*                                                                         *)
(* Datagrams are [id, full]: full when recvfrom fills all CHUNK bytes (a   *)
(* longer one is cut to CHUNK bytes).                                      *)
(*                                                                         *)
(* A definition named Mutant... is no part of the model: it is the         *)
(* definition that follows it with one plausible bug.                      *)
(***************************************************************************)
EXTENDS Integers, Sequences

CONSTANTS
    MaxSockets,     \* bound: how many dgram.Socket objects the program makes
    MaxFd,          \* RLIMIT_NOFILE: descriptors are 1 .. MaxFd, 0 is stdin
    MaxEvents,      \* Poll.maxEvents
    MaxDatagrams    \* bound: how many datagrams ever reach a socket

ASSUME NumbersAssumption ==
    /\ MaxSockets \in Nat /\ MaxFd \in Nat /\ MaxEvents \in Nat \ {0} /\ MaxDatagrams \in Nat

VARIABLES
    life,           \* what dgram.Socket holds: no object yet, a socket, an Error, a stopped socket
    bindState,      \* dgram.Socket.bindState
    fd,             \* Socket.fd
    reffed,         \* Socket.reffed
    socks, refs,    \* Poll.socks, Poll.refs
    armed,          \* a setTimeout(wait) is pending
    busy,           \* the loop finds a task due whenever it could sleep or poll
    js,             \* where the thread is
    events,         \* descriptors in eventBuf not looked at yet
    current,        \* the socket whose update() runs
    bytes,          \* recvfrom filled CHUNK bytes
    owner,          \* kernel: the socket a descriptor belongs to
    port,           \* kernel: whether the socket has a port
    inbox,          \* kernel: datagrams not read yet
    ready,          \* kernel: epoll's ready list
    sent,           \* history: the datagrams that reached each socket
    got             \* history: the datagrams each ondata was given

objects == <<life, bindState, fd, reffed>>
poll    == <<socks, refs, armed, busy>>
thread  == <<js, events, current, bytes>>
kernel  == <<owner, port, inbox, ready>>
history == <<sent, got>>
vars    == <<objects, poll, thread, kernel, history>>

\* Sockets are numbered in the order they are made.
Sockets == 1 .. MaxSockets
NoSocket == 0

Fds == 1 .. MaxFd
Datagram == [id : 1 .. MaxDatagrams, full : BOOLEAN]
Open(s) == fd[s] # 0

TypeOK ==
    /\ life \in [Sockets -> {"new", "socket", "Error", "stopped"}]
    /\ bindState \in [Sockets -> {"UNBOUND", "BINDING", "BOUND"}]
    /\ fd \in [Sockets -> 0 .. MaxFd]
    /\ reffed \in [Sockets -> BOOLEAN]
    /\ socks \in [Fds -> Sockets \cup {NoSocket}]
    /\ refs \in Nat
    /\ armed \in BOOLEAN /\ busy \in BOOLEAN
    /\ js \in {"idle", "batch", "update", "ondata"}
    /\ events \in Seq(Fds) /\ Len(events) <= MaxEvents
    /\ current \in Sockets \cup {NoSocket}
    /\ bytes \in BOOLEAN
    /\ owner \in [Fds -> Sockets \cup {NoSocket}]
    /\ port \in [Sockets -> BOOLEAN]
    /\ inbox \in [Sockets -> Seq(Datagram)]
    /\ ready \in Seq(Fds)
    /\ sent \in [Sockets -> Seq(Datagram)]
    /\ got \in [Sockets -> Seq(Datagram)]

Init ==
    /\ life = [s \in Sockets |-> "new"]
    /\ bindState = [s \in Sockets |-> "UNBOUND"]
    /\ fd = [s \in Sockets |-> 0]
    /\ reffed = [s \in Sockets |-> FALSE]
    /\ socks = [f \in Fds |-> NoSocket]
    /\ refs = 0 /\ armed = FALSE /\ busy = FALSE
    /\ js = "idle" /\ events = <<>> /\ current = NoSocket /\ bytes = FALSE
    /\ owner = [f \in Fds |-> NoSocket]
    /\ port = [s \in Sockets |-> FALSE]
    /\ inbox = [s \in Sockets |-> <<>>]
    /\ ready = <<>>
    /\ sent = [s \in Sockets |-> <<>>]
    /\ got = [s \in Sockets |-> <<>>]

-----------------------------------------------------------------------------
(* What the program calls, from a task of the loop or from ondata.         *)

Program == js \in {"idle", "ondata"}

NextNew(s) == life[s] = "new" /\ \A r \in 1 .. s - 1 : life[r] # "new"

\* The kernel hands out the lowest free descriptor.
FreeFds == {f \in Fds : owner[f] = NoSocket}
Lowest(f) == f \in FreeFds /\ \A g \in FreeFds : f <= g

\* createUdpSocket: the table is written whether start() failed or not; the
\* entry of the negative fd of a socket that was not created is never looked up.
MutantEntered(s, f) == IF socks[f] = NoSocket THEN [socks EXCEPT ![f] = s] ELSE socks
Entered(s, f) == [socks EXCEPT ![f] = s]

Create(s) ==
    /\ Program /\ NextNew(s)
    /\ \E f \in Fds :
        /\ Lowest(f)
        /\ owner' = [owner EXCEPT ![f] = s]
        /\ fd' = [fd EXCEPT ![s] = f]
        /\ socks' = Entered(s, f)
    /\ life' = [life EXCEPT ![s] = "socket"]
    /\ UNCHANGED <<bindState, reffed, refs, armed, busy, thread, port, inbox, ready, history>>

\* socket() fails: dgram.Socket keeps the Error, on which nothing can be called.
CreateFails(s) ==
    /\ Program /\ NextNew(s) /\ FreeFds = {}
    /\ life' = [life EXCEPT ![s] = "Error"]
    /\ UNCHANGED <<bindState, fd, reffed, poll, thread, kernel, history>>

\* fcntl or epoll_ctl fails: an Error again, and the descriptor is never closed.
CreateLeaks(s) ==
    /\ Program /\ NextNew(s)
    /\ \E f \in Fds :
        /\ Lowest(f)
        /\ owner' = [owner EXCEPT ![f] = s]
        /\ fd' = [fd EXCEPT ![s] = f]
        /\ socks' = Entered(s, f)
    /\ life' = [life EXCEPT ![s] = "Error"]
    /\ UNCHANGED <<bindState, reffed, refs, armed, busy, thread, port, inbox, ready, history>>

Bind(s) ==
    /\ Program /\ life[s] \in {"socket", "stopped"} /\ bindState[s] = "UNBOUND"
    /\ Open(s) /\ ~port[s]
    /\ port' = [port EXCEPT ![s] = TRUE]
    /\ reffed' = [reffed EXCEPT ![s] = TRUE]
    /\ refs' = refs + 1
    /\ bindState' = [bindState EXCEPT ![s] = "BOUND"]
    /\ UNCHANGED <<life, fd, socks, armed, busy, thread, owner, inbox, ready, history>>

\* bind(2) fails: the port is taken, a send bound the socket before, or it was
\* stopped.  The state goes back to UNBOUND only when a listener takes the
\* "error" event; with none emit throws and the socket can never be bound.
BindFails(s) ==
    /\ Program /\ life[s] \in {"socket", "stopped"} /\ bindState[s] = "UNBOUND"
    /\ \E after \in {"UNBOUND", "BINDING"} : bindState' = [bindState EXCEPT ![s] = after]
    /\ UNCHANGED <<life, fd, reffed, poll, thread, kernel, history>>

\* close(2) frees the descriptor and the port, drops what was not read and
\* leaves the ready list, but not an event buffer that was filled before.
MutantClosedFd(s) == fd
ClosedFd(s) == [fd EXCEPT ![s] = 0]

MutantRefsAfterStop(s) == IF Open(s) THEN refs - 1 ELSE refs
RefsAfterStop(s) == refs

Stop(s) ==
    /\ Program /\ life[s] \in {"socket", "stopped"}
    /\ life' = [life EXCEPT ![s] = "stopped"]
    /\ fd' = ClosedFd(s)
    /\ refs' = RefsAfterStop(s)
    /\ owner' = [f \in Fds |-> IF f = fd[s] THEN NoSocket ELSE owner[f]]
    /\ port' = [port EXCEPT ![s] = FALSE]
    /\ inbox' = [inbox EXCEPT ![s] = <<>>]
    /\ ready' = SelectSeq(ready, LAMBDA f : f # fd[s])
    /\ UNCHANGED <<bindState, reffed, socks, armed, busy, thread, history>>

\* Kernel: a datagram reaches the socket bound to a port.
InReadyList(f) == \E i \in DOMAIN ready : ready[i] = f
Fresh(n) == \A s \in Sockets : \A i \in DOMAIN sent[s] : sent[s][i].id < n
Deliver(s, full) ==
    \E d \in Datagram :
        /\ Fresh(d.id) /\ (d.id > 1 => ~Fresh(d.id - 1)) /\ d.full = full
        /\ sent' = [sent EXCEPT ![s] = Append(@, d)]
        /\ inbox' = [inbox EXCEPT ![s] = Append(@, d)]
        /\ ready' = IF InReadyList(fd[s]) THEN ready ELSE Append(ready, fd[s])

\* A datagram of another process, or one of send() below, arrives.
Arrive(s, full) ==
    /\ port[s]
    /\ Deliver(s, full)
    /\ UNCHANGED <<objects, poll, thread, owner, port, got>>

\* send() on a socket that was never bound: the kernel binds it, Poll does not
\* know.  What send() sends to a socket of this process is an Arrive.
SendUnbound(s) ==
    /\ Program /\ life[s] = "socket" /\ ~port[s]
    /\ port' = [port EXCEPT ![s] = TRUE]
    /\ UNCHANGED <<objects, poll, thread, owner, inbox, ready, history>>

-----------------------------------------------------------------------------
(* Poll.wait and Socket.update.                                            *)

\* Kernel: at most MaxEvents of the ready descriptors; as epoll is level
\* triggered they go to the end of the ready list, which drops empty sockets.
Readable(f) == f # 0 /\ owner[f] # NoSocket /\ inbox[owner[f]] # <<>>
Live  == SelectSeq(ready, Readable)
Count == IF Len(Live) < MaxEvents THEN Len(Live) ELSE MaxEvents

MutantFirstEvent == 2
FirstEvent == 1

\* Tasks come and go that are due at once, such as an immediate that sets itself again
\* in every turn.  Once a timer will call wait it does not matter.
Busy ==
    /\ js = "idle" /\ ~armed
    /\ busy' = ~busy
    /\ UNCHANGED <<objects, socks, refs, armed, thread, kernel, history>>

\* Called by the loop when hasRefs() and no task is due, and by the timers wait()
\* itself sets, which are tasks like others.
Wait ==
    /\ js = "idle" /\ ((refs # 0 /\ ~busy) \/ armed)
    /\ events' = SubSeq(Live, FirstEvent, Count)
    /\ ready' = SubSeq(Live, Count + 1, Len(Live)) \o SubSeq(Live, 1, Count)
    /\ js' = "batch"
    /\ UNCHANGED <<objects, poll, current, bytes, owner, port, inbox, history>>

\* A descriptor without an entry would only be reported to Poll.onerror.
NextEvent ==
    /\ js = "batch" /\ events # <<>>
    /\ events' = Tail(events)
    /\ \E f \in Fds :
        /\ f = Head(events)
        /\ IF socks[f] # NoSocket THEN js' = "update" /\ current' = socks[f]
                                 ELSE UNCHANGED <<js, current>>
    /\ UNCHANGED <<objects, poll, bytes, kernel, history>>

EndWait ==
    /\ js = "batch" /\ events = <<>>
    /\ js' = "idle" /\ armed' = TRUE
    /\ UNCHANGED <<objects, socks, refs, busy, events, current, bytes, kernel, history>>

\* recvfrom(this.fd): this.fd is 0 when a callback stopped the socket.
Recv ==
    LET from == owner[fd[current]]
    IN  /\ js = "update" /\ Readable(fd[current])
        /\ inbox' = [inbox EXCEPT ![from] = Tail(@)]
        /\ got' = [got EXCEPT ![current] = Append(@, Head(inbox[from]))]
        /\ bytes' = Head(inbox[from]).full
        /\ js' = "ondata"
        /\ UNCHANGED <<objects, poll, events, current, owner, port, ready, sent>>

\* Any negative result, ENOTSOCK of descriptor 0 or EAGAIN, is given to onerror
\* (which dgram.Socket ignores), and the loop of update() ends.
RecvFails ==
    /\ js = "update" /\ ~Readable(fd[current])
    /\ js' = "batch" /\ current' = NoSocket
    /\ UNCHANGED <<objects, poll, events, bytes, kernel, history>>

OndataReturns ==
    /\ js = "ondata"
    /\ IF bytes THEN js' = "update" /\ UNCHANGED current
                ELSE js' = "batch" /\ current' = NoSocket
    /\ bytes' = FALSE
    /\ UNCHANGED <<objects, poll, events, kernel, history>>

Loop == Wait \/ NextEvent \/ EndWait \/ Recv \/ RecvFails \/ OndataReturns

Next ==
    \/ Loop
    \/ Busy
    \/ \E s \in Sockets :
        \/ Create(s) \/ CreateFails(s) \/ CreateLeaks(s)
        \/ Bind(s) \/ BindFails(s) \/ SendUnbound(s) \/ Stop(s)
        \/ \E full \in BOOLEAN : Arrive(s, full)

Spec == Init /\ [][Next]_vars

\* Callbacks return, and the loop comes to wait() when it may: each wait() sets the
\* timer for the next, which runs whatever else is due (EveryRefTaskRuns of EventLoop).
\* Before the first, nothing is assumed of a loop that is busy in every turn.
FairSpec == Spec /\ WF_vars(Loop)

-----------------------------------------------------------------------------
(* Properties.                                                             *)

\* An event of a descriptor that is open is always handled by the socket that
\* holds it, although socks is never cleaned: an entry that outlived its socket
\* is overwritten before the kernel can report the descriptor again.
SocksFindOpen ==
    \A s \in Sockets : Open(s) => socks[fd[s]] = s /\ owner[fd[s]] = s

\* Whatever callbacks do to sockets and descriptors between events, each
\* socket is given its own datagrams only, in the order they came, none twice,
\* and while it is open none is lost: what it got, then what waits, is what
\* was sent to it.
OwnDatagrams ==
    \A s \in Sockets :
        IF life[s] = "stopped"
        THEN \E n \in 0 .. Len(sent[s]) : got[s] = SubSeq(sent[s], 1, n)
        ELSE got[s] \o inbox[s] = sent[s]

\* The loop is not allowed to stop while a bound socket is open: close() of
\* one socket, or two of the same, never takes the references of others.
BoundKeepsLoop ==
    \A s \in Sockets : Open(s) /\ bindState[s] = "BOUND" => refs # 0

\* The inductive invariant of the proofs: who holds a descriptor, that only a
\* created socket holds one, only an open one has a port, and each bound one
\* was counted in refs.
IInv ==
    /\ fd \in [Sockets -> 0 .. MaxFd]
    /\ owner \in [Fds -> Sockets \cup {NoSocket}]
    /\ socks \in [Fds -> Sockets \cup {NoSocket}]
    /\ life \in [Sockets -> {"new", "socket", "Error", "stopped"}]
    /\ bindState \in [Sockets -> {"UNBOUND", "BINDING", "BOUND"}]
    /\ inbox \in [Sockets -> Seq(Datagram)]
    /\ got \in [Sockets -> Seq(Datagram)]
    /\ sent \in [Sockets -> Seq(Datagram)]
    /\ port \in [Sockets -> BOOLEAN]
    /\ refs \in Nat
    /\ js \in {"update", "ondata"} => current \in Sockets
    /\ SocksFindOpen /\ OwnDatagrams
    /\ \A s \in Sockets : life[s] \in {"new", "stopped"} => ~Open(s)
    /\ \A s \in Sockets : port[s] => life[s] = "socket"
    /\ \A s \in Sockets : bindState[s] = "BOUND" => refs # 0

\* stop() is final: a socket whose onstop was called gets no datagram, also
\* when its event is already in the buffer or its update() is reading.
StopIsFinal ==
    [][\A s \in Sockets : life[s] = "stopped" => got'[s] = got[s]]_vars

\* What waits for a bound socket is read in the end, or the socket is stopped,
\* whatever other sockets and stale events share the event buffer with it, unless
\* immediates keep the loop from the first wait().
EveryDatagramRead ==
    \A s \in Sockets : inbox[s] # <<>> /\ bindState[s] = "BOUND" ~> inbox[s] = <<>> \/ busy

\* The same without the exception.  The code does not keep this, and no run checks it:
\* poll.wait is the last resort of a loop with nothing due.
EveryDatagramReadAlways ==
    \A s \in Sockets : inbox[s] # <<>> /\ bindState[s] = "BOUND" ~> inbox[s] = <<>>

\* "on read check for: EAGAINN and EWOULDBLOCK" (SocketTcp.connect): onerror is
\* for errors, so a read that fails is one of a stopped socket.  The code does not
\* keep this, and no run checks it.
EagainIsNoError ==
    [][js = "update" /\ js' = "batch" => ~Open(current)]_vars
==============================================================================
