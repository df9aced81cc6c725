-------------------------- MODULE FileSystemProofs --------------------------
(***************************************************************************)
(* Proofs about FileSystem, for any number of operations, streams and      *)
(* descriptors and files of any size: descriptors are used by their owners *)
(* only, closed in the end, callbacks called once, and callers given the   *)
(* bytes they asked for, with the exceptions that the properties name.     *)
(***************************************************************************)
EXTENDS FileSystem, FiniteSetTheorems, TLAPS

LEMMA Numbers ==
    /\ MaxFd \in Nat \ {0} /\ Size \in Nat /\ ProgramFd \in Fds /\ Fds \subseteq Nat
    /\ NullFd \notin Fds /\ BadFd \notin Fds /\ Failed \notin Fds /\ Waiting \notin Fds
    /\ NullFd # BadFd /\ Failed # Waiting /\ Fds \subseteq Handles /\ Handles \subseteq Int
    /\ NullFd \in Handles /\ BadFd \in Handles
    /\ Failed \in Int /\ Waiting \in Int /\ Failed # 0 /\ Waiting # 0
    /\ ProgramFd # NullFd /\ ProgramFd # BadFd
BY NumbersAssumption DEF ProgramFd, Fds, NullFd, BadFd, Failed, Waiting, Handles

LEMMA Names ==
    /\ Operations \cap Streams = {} /\ Operations \subseteq Actors /\ Streams \subseteq Actors
    /\ Program \notin Actors /\ Nobody \notin Actors /\ Program # Nobody
    /\ \A a \in Actors : a \in Operations \/ a \in Streams
BY ActorsAssumption DEF Actors

-----------------------------------------------------------------------------
(* Calls.                                                                  *)

\* The fields of a call to be made.
LEMMA NewCall ==
    \A a \in Actors, sys \in Sys, fd \in Handles, at \in Int, n \in Nat :
        /\ CallOf(a, sys, fd, at, n) \in ACall
        /\ CallOf(a, sys, fd, at, n).by = a /\ CallOf(a, sys, fd, at, n).sys = sys
        /\ CallOf(a, sys, fd, at, n).fd = fd /\ CallOf(a, sys, fd, at, n).res = Waiting
BY Numbers DEF CallOf, ACall, NoData, Owners

\* What the kernel returns changes the result of a call and its data only.
WithResult(c, r, x) == [c EXCEPT !.res = r, !.data = x]

LEMMA ReturnedCall ==
    ASSUME NEW c \in ACall, NEW r \in Int, NEW x \in [of : Owners, at : Int]
    PROVE  /\ WithResult(c, r, x) \in ACall /\ WithResult(c, r, x).by = c.by
           /\ WithResult(c, r, x).sys = c.sys /\ WithResult(c, r, x).fd = c.fd
           /\ WithResult(c, r, x).res = r
BY DEF ACall, WithResult

\* A step that takes calls of one actor away and adds others.
LEMMA InFlightSteps ==
    ASSUME NEW a, NEW X, NEW N, X \subseteq InFlight(a), \A d \in N : d.by = a,
           calls' = (calls \ X) \cup N
    PROVE  /\ InFlight(a)' = (InFlight(a) \ X) \cup N
           /\ \A b : b # a => InFlight(b)' = InFlight(b)
BY DEF InFlight

\* What an operation's part of the invariant speaks of.
Unchanging(o) ==
    /\ InFlight(o)' = InFlight(o) /\ kind'[o] = kind[o] /\ callbacks'[o] = callbacks[o]
    /\ failed'[o] = failed[o] /\ result'[o] = result[o]

\* The same of a stream.
Resting(s) ==
    /\ InFlight(s)' = InFlight(s) /\ sfd'[s] = sfd[s] /\ made'[s] = made[s]
    /\ destroyed'[s] = destroyed[s] /\ closed'[s] = closed[s]
    /\ early'[s] = early[s] /\ interrupted'[s] = interrupted[s]

LEMMA UnchangingOK ==
    ASSUME NEW o \in Operations, Unchanging(o), owner' = owner, OperationOK(o)
    PROVE  OperationOK(o)' /\ (OwnOperation(o) => OwnOperation(o)')
<1>1. \A c : Fits(o, c)' <=> Fits(o, c)
    BY DEF Unchanging, Fits
<1>2. \A f : Keeps(o, f)' <=> Keeps(o, f)
    BY DEF Unchanging, Keeps, Gives, Uses, Closes
<1>3. OperationOK(o)'
    BY <1>1, <1>2 DEF OperationOK, Unchanging
<1>4. OwnOperation(o) => OwnOperation(o)'
    BY DEF OwnOperation, Unchanging, Gives, Uses, Closes
<1> QED BY <1>3, <1>4

LEMMA RestingOK ==
    ASSUME NEW s \in Streams, Resting(s), owner' = owner, StreamOK(s)
    PROVE  StreamOK(s)' /\ (OwnStream(s) => OwnStream(s)')
<1>1. StreamOK(s)'
    BY DEF Resting, StreamOK, Gives, Closes
<1>2. OwnStream(s) => OwnStream(s)'
    BY DEF OwnStream, Resting, Gives, Uses, Closes
<1> QED BY <1>1, <1>2

\* A step of an operation: the program calls it, or a callback goes on with it.
LEMMA OperationStep ==
    ASSUME IInv, TypeOK', NEW o \in Operations, NEW N,
           calls' = (calls \ InFlight(o)) \cup N, \A d \in N : d.by = o /\ CallOK(d)',
           owner' = owner, strays' = strays, UNCHANGED streams,
           \A p \in Operations \ {o} :
               /\ kind'[p] = kind[p] /\ callbacks'[p] = callbacks[p]
               /\ failed'[p] = failed[p] /\ result'[p] = result[p],
           OperationOK(o)', OwnOperation(o) => OwnOperation(o)'
    PROVE  IInv'
<1> USE Names
<1>1. \A b : b # o => InFlight(b)' = InFlight(b)
    BY InFlightSteps
<1>2. \A s \in Streams : Resting(s)
    BY <1>1 DEF Resting, streams, flags
<1>3. \A p \in Operations \ {o} : Unchanging(p)
    BY <1>1 DEF Unchanging
<1>4. \A p \in Operations : OperationOK(p)' /\ (OwnOperation(p) => OwnOperation(p)')
    BY <1>3, UnchangingOK DEF IInv
<1>5. \A s \in Streams : StreamOK(s)' /\ (OwnStream(s) => OwnStream(s)')
    BY <1>2, RestingOK DEF IInv
<1>6. TableOK'
    <2>1. ASSUME NEW c \in calls' PROVE CallOK(c)'
        <3>1. CASE c \in N
            BY <3>1
        <3>2. CASE c \in calls /\ c \notin InFlight(o)
            <4>1. c.by # o /\ (c.by \in Operations => kind'[c.by] = kind[c.by])
                BY <3>2 DEF InFlight
            <4>2. CallOK(c)
                BY <3>2 DEF IInv, TableOK
            <4> QED BY <4>1, <4>2 DEF CallOK
        <3> QED BY <3>1, <3>2
    <2> QED BY <2>1 DEF IInv, TableOK
<1>7. OwnOK'
    <2>1. Stray => Stray'
        BY DEF Stray, streams
    <2> QED BY <1>4, <1>5, <2>1 DEF IInv, OwnOK
<1> QED BY <1>4, <1>5, <1>6, <1>7 DEF IInv

\* The types of the variables that streams change.
StreamTypes ==
    /\ sfd \in [Streams -> Handles] /\ pos \in [Streams -> Int]
    /\ onOpen \in [Streams -> Seq({"read", "close"})]
    /\ made \in [Streams -> BOOLEAN] /\ destroyed \in [Streams -> BOOLEAN]
    /\ closed \in [Streams -> BOOLEAN] /\ early \in [Streams -> BOOLEAN]
    /\ interrupted \in [Streams -> BOOLEAN]

\* A step of stream s alone, which takes its calls X away and makes those of N.
StreamTurn(s, X, N) ==
    /\ X \subseteq InFlight(s) /\ calls' = (calls \ X) \cup N
    /\ \A d \in N :
        /\ d \in ACall /\ d.by = s /\ d.fd # ProgramFd
        /\ d.sys = "open" => d.res = Waiting /\ \A f \in Fds : owner[f] # s
    /\ UNCHANGED <<owner, offset, strays>> /\ UNCHANGED operations
    /\ \A t \in Streams \ {s} :
        /\ sfd'[t] = sfd[t] /\ made'[t] = made[t] /\ destroyed'[t] = destroyed[t]
        /\ closed'[t] = closed[t] /\ early'[t] = early[t] /\ interrupted'[t] = interrupted[t]
    /\ interrupted[s] => interrupted'[s]
    /\ StreamTypes'

LEMMA StreamStep ==
    ASSUME IInv, NEW s \in Streams, NEW X, NEW N, StreamTurn(s, X, N),
           StreamOK(s)', OwnStream(s) => OwnStream(s)'
    PROVE  IInv'
<1> USE Names
<1>1. /\ X \subseteq InFlight(s) /\ calls' = (calls \ X) \cup N
      /\ (\A d \in N : d \in ACall /\ d.by = s /\ CallOK(d)')
      /\ UNCHANGED <<owner, offset, strays>> /\ UNCHANGED operations
      /\ interrupted[s] => interrupted'[s]
    BY Numbers DEF StreamTurn, CallOK
<1>2. TypeOK'
    BY <1>1 DEF IInv, TypeOK, StreamTurn, StreamTypes, operations
<1>3. \A t \in Streams \ {s} :
        /\ sfd'[t] = sfd[t] /\ made'[t] = made[t] /\ destroyed'[t] = destroyed[t]
        /\ closed'[t] = closed[t] /\ early'[t] = early[t] /\ interrupted'[t] = interrupted[t]
    BY DEF StreamTurn
<1>4. \A b : b # s => InFlight(b)' = InFlight(b)
    BY <1>1, InFlightSteps
<1>5. \A t \in Streams \ {s} : Resting(t)
    BY <1>4, <1>3 DEF Resting
<1>6. \A o \in Operations : Unchanging(o)
    BY <1>1, <1>4 DEF Unchanging, operations
<1>7. \A o \in Operations : OperationOK(o)' /\ (OwnOperation(o) => OwnOperation(o)')
    BY <1>1, <1>6, UnchangingOK DEF IInv
<1>8. \A t \in Streams : StreamOK(t)' /\ (OwnStream(t) => OwnStream(t)')
    BY <1>1, <1>5, RestingOK DEF IInv
<1>9. TableOK'
    <2>1. ASSUME NEW c \in calls' PROVE CallOK(c)'
        <3>1. CASE c \in N
            BY <1>1, <3>1
        <3>2. CASE c \in calls
            BY <1>1, <3>2 DEF IInv, TableOK, CallOK, operations
        <3> QED BY <1>1, <3>1, <3>2
    <2> QED BY <1>1, <2>1 DEF IInv, TableOK
<1>10. OwnOK'
    <2>1. Stray => Stray'
        BY <1>1, <1>3 DEF Stray
    <2> QED BY <1>1, <1>7, <1>8, <2>1 DEF IInv, OwnOK
<1> QED BY <1>2, <1>7, <1>8, <1>9, <1>10 DEF IInv

-----------------------------------------------------------------------------
(* The threads and the kernel.                                             *)

\* What a thread does with call c, which becomes e: something that leaves the table
\* of descriptors alone, an open, or a close.
Plain(c, e) ==
    /\ owner' = owner
    /\ c.sys = "open" => e.res = Failed
    /\ c.sys = "close" => c.fd \notin Fds \/ owner[c.fd] = Nobody
Opens(c, e) ==
    /\ c.sys = "open" /\ e.res \in Fds /\ owner[e.res] = Nobody
    /\ owner' = [owner EXCEPT ![e.res] = c.by]
Shuts(c) ==
    /\ c.sys = "close" /\ c.fd \in Fds /\ owner[c.fd] # Nobody
    /\ owner' = [owner EXCEPT ![c.fd] = Nobody]
Becomes(c, e) ==
    /\ e \in ACall /\ e.by = c.by /\ e.sys = c.sys /\ e.fd = c.fd
    /\ e.sys \in {"open", "close"} => e.res # Waiting
    /\ calls' = (calls \ {c}) \cup {e}

LEMMA ExecuteCases ==
    ASSUME IInv, NEW c \in calls, Execute(c)
    PROVE  /\ c.res = Waiting
           /\ offset' \in [Fds -> Int]
           /\ \E e : Becomes(c, e) /\ (Plain(c, e) \/ Opens(c, e) \/ Shuts(c))
<1> USE Numbers, Names
<1>1. c \in ACall /\ c.sys \in Sys /\ c.fd \in Handles /\ c.at \in Int /\ c.by \in Actors
    BY DEF IInv, TypeOK, ACall
<1>2. NoData \in [of : Owners, at : Int]
    BY DEF NoData, Owners
<1>3. ASSUME NEW r \in Int, NEW x \in [of : Owners, at : Int], Returns(c, r, x),
             c.sys \in {"open", "close"} => r # Waiting
      PROVE  Becomes(c, WithResult(c, r, x)) /\ WithResult(c, r, x).res = r
    <2>1. calls' = (calls \ {c}) \cup {WithResult(c, r, x)}
        BY <1>3 DEF Returns, WithResult
    <2> QED BY <1>1, <1>3, <2>1, ReturnedCall DEF Becomes
<1>4. owner \in [Fds -> Owners] /\ offset \in [Fds -> Int]
    BY DEF IInv, TypeOK
<1>5. CASE Returns(c, Failed, NoData) /\ UNCHANGED <<owner, offset>>
           /\ (c.sys = "close" => c.fd \notin Fds \/ owner[c.fd] = Nobody)
    <2>1. Becomes(c, WithResult(c, Failed, NoData)) /\ WithResult(c, Failed, NoData).res = Failed
        BY <1>2, <1>3, <1>5
    <2> QED BY <1>4, <1>5, <2>1 DEF Plain, Execute
<1>6. CASE c.sys = "open" /\ ~Returns(c, Failed, NoData)
    <2>1. PICK f \in Free : /\ owner' = [owner EXCEPT ![f] = c.by]
                            /\ offset' = [offset EXCEPT ![f] = 0]
                            /\ Returns(c, f, NoData)
        BY <1>6 DEF Execute, ExecuteOpen
    <2>2. f \in Fds /\ f \in Int /\ f # Waiting /\ owner[f] = Nobody
        BY DEF Free
    <2>3. Becomes(c, WithResult(c, f, NoData)) /\ WithResult(c, f, NoData).res = f
        BY <1>2, <1>3, <2>1, <2>2
    <2>4. Opens(c, WithResult(c, f, NoData))
        BY <1>6, <2>1, <2>2, <2>3 DEF Opens
    <2> QED BY <1>4, <2>1, <2>2, <2>3, <2>4 DEF Execute
<1>7. CASE c.sys # "open" /\ c.fd \in Fds /\ owner[c.fd] # Nobody /\ c.sys # "close"
    <2>1. CASE c.sys = "read" /\ ExecuteRead(c)
        <3>1. PICK r \in {0, 1}, x \in [of : Owners, at : Int] : Returns(c, r, x)
            BY <1>2, <1>4, <1>7, <2>1 DEF ExecuteRead
        <3>2. Becomes(c, WithResult(c, r, x))
            BY <1>3, <2>1, <3>1
        <3>3. owner' = owner /\ offset' \in [Fds -> Int]
            BY <1>4, <1>7, <2>1 DEF ExecuteRead
        <3> QED BY <2>1, <3>2, <3>3 DEF Plain, Execute
    <2>2. CASE c.sys = "write" /\ Returns(c, 1, NoData) /\ UNCHANGED <<owner, offset>>
        <3>1. Becomes(c, WithResult(c, 1, NoData))
            BY <1>2, <1>3, <2>2
        <3> QED BY <1>4, <2>2, <3>1 DEF Plain, Execute
    <2>3. CASE Fails(c)
        BY <1>5, <1>7, <2>3 DEF Fails
    <2>4. CASE c.sys = "lseek" /\ ExecuteSeek(c)
        <3>1. Becomes(c, WithResult(c, c.at, NoData))
            BY <1>1, <1>2, <1>3, <2>4 DEF ExecuteSeek
        <3>2. owner' = owner /\ offset' \in [Fds -> Int]
            BY <1>1, <1>4, <1>7, <2>4 DEF ExecuteSeek
        <3> QED BY <2>4, <3>1, <3>2 DEF Plain, Execute
    <2> QED BY <1>7, <2>1, <2>2, <2>3, <2>4 DEF Execute, OnDescriptor
<1>8. CASE c.sys = "close" /\ c.fd \in Fds /\ owner[c.fd] # Nobody
    <2>1. ExecuteClose(c)
        BY <1>8 DEF Execute, OnDescriptor
    <2>2. Becomes(c, WithResult(c, 0, NoData))
        BY <1>2, <1>3, <2>1 DEF ExecuteClose
    <2>3. Shuts(c)
        BY <1>8, <2>1 DEF Shuts, ExecuteClose
    <2> QED BY <1>4, <2>1, <2>2, <2>3 DEF Execute, ExecuteClose
<1>9. CASE c.sys # "open" /\ (c.fd \notin Fds \/ owner[c.fd] = Nobody)
    <2>1. Fails(c)
        BY <1>9 DEF Execute
    <2> QED BY <1>5, <1>9, <2>1 DEF Fails
<1>10. CASE c.sys = "open" /\ Returns(c, Failed, NoData)
    <2>1. CASE UNCHANGED <<owner, offset>>
        BY <1>5, <1>10, <2>1
    <2>2. CASE ~UNCHANGED <<owner, offset>>
        <3>1. PICK f \in Free : /\ owner' = [owner EXCEPT ![f] = c.by]
                                /\ offset' = [offset EXCEPT ![f] = 0]
                                /\ Returns(c, f, NoData)
            BY <1>10, <2>2 DEF Execute, ExecuteOpen
        <3>2. f \in Fds /\ f \in Int /\ f # Waiting /\ owner[f] = Nobody
            BY DEF Free
        <3>3. Becomes(c, WithResult(c, f, NoData)) /\ WithResult(c, f, NoData).res = f
            BY <1>2, <1>3, <3>1, <3>2
        <3>4. Opens(c, WithResult(c, f, NoData))
            BY <1>10, <3>1, <3>2, <3>3 DEF Opens
        <3> QED BY <1>4, <3>1, <3>2, <3>3, <3>4 DEF Execute
    <2> QED BY <2>1, <2>2
<1> QED BY <1>5, <1>6, <1>7, <1>8, <1>9, <1>10

LEMMA ExecuteStep ==
    ASSUME IInv, NEW c \in calls, Execute(c), UNCHANGED <<operations, streams>>
    PROVE  IInv'
<1> USE Numbers, Names
<1> DEFINE a == c.by
<1>1. PICK e : Becomes(c, e) /\ (Plain(c, e) \/ Opens(c, e) \/ Shuts(c))
    BY ExecuteCases
<1>2. c.res = Waiting /\ offset' \in [Fds -> Int]
    BY ExecuteCases
<1>3. c \in ACall /\ a \in Actors /\ c.sys \in Sys /\ CallOK(c)
    BY DEF IInv, TypeOK, TableOK, ACall
<1>4. owner \in [Fds -> Owners]
    BY DEF IInv, TypeOK
<1>5. strays \subseteq strays' /\ strays' \subseteq strays \cup {a}
    BY DEF Execute
<1>6. /\ c \in InFlight(a) /\ InFlight(a)' = (InFlight(a) \ {c}) \cup {e}
      /\ \A b : b # a => InFlight(b)' = InFlight(b)
    <2>1. {c} \subseteq InFlight(a) /\ (\A d \in {e} : d.by = a)
          /\ calls' = (calls \ {c}) \cup {e}
        BY <1>1 DEF Becomes, InFlight
    <2>2. InFlight(a)' = (InFlight(a) \ {c}) \cup {e}
        BY <2>1 DEF InFlight
    <2>3. \A b : b # a => InFlight(b)' = InFlight(b)
        BY <2>1 DEF InFlight
    <2> QED BY <2>1, <2>2, <2>3
<1>7. ASSUME c.sys = "open" PROVE InFlight(a) = {c}
    BY <1>3, <1>6, <1>7 DEF IInv, OperationOK, StreamOK
<1>8. Shuts(c) => c.fd # ProgramFd
    <2>1. c.fd = ProgramFd => a \in Operations /\ kind[a] = "read"
        BY <1>3 DEF CallOK
    <2>2. a \in Operations => Fits(a, c)
        BY <1>6 DEF IInv, OperationOK
    <2> QED BY <2>1, <2>2 DEF Fits, Shuts, Opening, Kinds
<1>9. /\ \A f \in Fds, b \in Actors : owner'[f] = b =>
            owner[f] = b \/ (b = a /\ Opens(c, e) /\ f = e.res)
      /\ \A f \in Fds : owner'[f] = Program <=> owner[f] = Program
    <2>1. CASE Plain(c, e)
        BY <2>1 DEF Plain
    <2>2. CASE Opens(c, e)
        BY <1>3, <1>4, <2>2 DEF Opens
    <2>3. CASE Shuts(c)
        <3>1. owner[c.fd] # Program
            BY <1>8, <2>3 DEF IInv, TableOK, Shuts
        <3> QED BY <1>3, <1>4, <2>3, <3>1 DEF Shuts
    <2> QED BY <1>1, <2>1, <2>2, <2>3
<1>10. ASSUME NEW f \in Fds PROVE ~Gives(c, f) /\ ~Closes(e, f)
                          /\ (Gives(e, f) => Opens(c, e) /\ f = e.res)
    BY <1>1, <1>2 DEF Gives, Closes, Becomes, Plain, Opens, Shuts
<1>11. ASSUME NEW f \in Fds, Closes(c, f) PROVE owner'[f] = Nobody
    <2>1. c.sys = "close" /\ c.fd = f
        BY <1>11 DEF Closes
    <2> QED BY <1>1, <1>4, <2>1 DEF Plain, Opens, Shuts
<1>12. TypeOK'
    <2>1. owner' \in [Fds -> Owners]
        BY <1>1, <1>3, <1>4 DEF Plain, Opens, Shuts, Owners
    <2>2. calls' \subseteq ACall /\ strays' \subseteq Actors
        BY <1>1, <1>3, <1>5 DEF Becomes, IInv, TypeOK
    <2> QED BY <1>2, <2>1, <2>2 DEF IInv, TypeOK, operations, streams, flags, state
<1>13. TableOK'
    <2>1. \A f \in Fds : owner'[f] = Program <=> f = ProgramFd
        BY <1>9 DEF IInv, TableOK
    <2>2. Opens(c, e) => \A f \in Fds : owner[f] # a
        BY <1>2, <1>3 DEF CallOK, Opens
    <2>3. ASSUME NEW f \in Fds, NEW g \in Fds, owner'[f] \in Actors, owner'[f] = owner'[g]
          PROVE  f = g
        BY <1>9, <2>2, <2>3 DEF IInv, TableOK
    <2>4. CallOK(e)'
        <3>1. e.fd = c.fd /\ e.sys = c.sys /\ e.by = c.by /\ (e.sys = "open" => e.res # Waiting)
            BY <1>1 DEF Becomes
        <3>2. Opens(c, e) => e.res \in Fds \ {ProgramFd}
            BY DEF Opens, IInv, TableOK
        <3>3. e.sys = "open" => e.res \in (Fds \ {ProgramFd}) \cup {Failed, Waiting}
            BY <1>1, <3>1, <3>2 DEF Plain, Shuts
        <3> QED BY <1>3, <3>1, <3>3 DEF CallOK, operations
    <2>5. ASSUME NEW d \in calls, d # c PROVE CallOK(d)'
        <3>1. CallOK(d) /\ d.by \in Actors
            BY DEF IInv, TypeOK, TableOK, ACall
        <3>2. Opens(c, e) => d.by # a
            BY <1>7, <2>5 DEF InFlight, Opens
        <3> QED BY <1>9, <3>1, <3>2 DEF CallOK, operations
    <2> QED BY <1>1, <2>1, <2>3, <2>4, <2>5 DEF Becomes, TableOK
<1>14. ASSUME NEW o \in Operations PROVE OperationOK(o)'
    <2>1. OperationOK(o) /\ UNCHANGED <<kind, callbacks, failed, result>>
        BY DEF IInv, operations
    <2>2. CASE o # a
        <3>1. InFlight(o)' = InFlight(o) /\ \A f \in Fds : owner'[f] = o => owner[f] = o
            BY <1>6, <1>9, <2>2
        <3>2. \A f : Keeps(o, f)' <=> Keeps(o, f)
            BY <2>1, <3>1 DEF Keeps, Gives, Uses, Closes
        <3>3. \A d : Fits(o, d)' <=> Fits(o, d)
            BY <2>1 DEF Fits
        <3> QED BY <2>1, <3>1, <3>2, <3>3 DEF OperationOK
    <2>3. CASE o = a
        <3>1. InFlight(o) = {c} /\ InFlight(o)' = {e}
            BY <1>6, <2>1, <2>3 DEF OperationOK
        <3>2. e.sys = c.sys /\ e.fd = c.fd
            BY <1>1 DEF Becomes
        <3>3. Fits(o, e)'
            BY <2>1, <3>1, <3>2 DEF OperationOK, Fits
        <3>4. ASSUME NEW f \in Fds, owner'[f] = o PROVE Keeps(o, f)'
            <4>1. CASE owner[f] = o
                <5>1. Keeps(o, f) /\ ~Closes(c, f)
                    BY <1>11, <2>1, <3>4, <4>1 DEF OperationOK
                <5>2. Uses(c, f) => Uses(e, f)
                    BY <3>2, <5>1 DEF Uses
                <5> QED BY <1>10, <2>1, <3>1, <5>1, <5>2 DEF Keeps, Gives, Uses, Closes
            <4>2. CASE owner[f] # o
                <5>1. Gives(e, f)
                    BY <1>1, <1>9, <3>4, <4>2 DEF Gives, Opens, Becomes
                <5> QED BY <3>1, <5>1 DEF Keeps, Gives
            <4> QED BY <4>1, <4>2
        <3> QED BY <2>1, <3>1, <3>2, <3>3, <3>4 DEF OperationOK
    <2> QED BY <2>2, <2>3
<1>15. ASSUME NEW s \in Streams PROVE StreamOK(s)'
    <2>1. StreamOK(s) /\ UNCHANGED <<made, sfd, destroyed, closed, early, interrupted>>
        BY DEF IInv, streams, flags
    <2>2. CASE s # a
        <3>1. InFlight(s)' = InFlight(s) /\ \A f \in Fds : owner'[f] = s => owner[f] = s
            BY <1>6, <1>9, <2>2
        <3> QED BY <2>1, <3>1 DEF StreamOK, Gives, Closes
    <2>3. CASE s = a
        <3>1. made[s]
            BY <1>6, <2>1, <2>3 DEF StreamOK
        <3>2. ASSUME NEW d \in InFlight(s)', d.sys = "open"
              PROVE  /\ InFlight(s)' = {d} /\ sfd[s] = NullFd /\ ~interrupted[s] /\ ~closed[s]
                     /\ destroyed[s] => early[s]
            <4>1. CASE c.sys = "open"
                BY <1>6, <1>7, <2>1, <2>3, <3>2, <4>1 DEF StreamOK
            <4>2. CASE c.sys # "open"
                <5>1. d \in InFlight(s) /\ d # c
                    BY <1>1, <1>6, <2>3, <3>2, <4>2 DEF Becomes
                <5> QED BY <1>6, <2>1, <2>3, <3>2, <5>1 DEF StreamOK
            <4> QED BY <4>1, <4>2
        <3>3. ASSUME NEW f \in Fds, owner'[f] = s
              PROVE  sfd[s] = f \/ \E d \in InFlight(s)' : Gives(d, f) \/ Closes(d, f)
            <4>1. CASE owner[f] = s
                <5>1. ~Gives(c, f) /\ ~Closes(c, f)
                    BY <1>10, <1>11, <3>3
                <5> QED BY <1>6, <2>1, <2>3, <4>1, <5>1 DEF StreamOK
            <4>2. CASE owner[f] # s
                <5>1. Gives(e, f)
                    BY <1>1, <1>9, <3>3, <4>2 DEF Gives, Opens, Becomes
                <5> QED BY <1>6, <2>3, <5>1
            <4> QED BY <4>1, <4>2
        <3>4. sfd[s] \in Fds => sfd[s] # ProgramFd /\ ~closed[s] /\ (destroyed[s] => early[s])
            BY <2>1 DEF StreamOK
        <3> QED BY <2>1, <3>1, <3>2, <3>3, <3>4 DEF StreamOK, Gives, Closes
    <2> QED BY <2>2, <2>3
<1>16. OwnOK'
    <2>1. CASE Stray
        BY <1>5, <2>1 DEF Stray, OwnOK, streams
    <2>2. CASE ~Stray
        <3>1. /\ strays = {} /\ (\A o \in Operations : OwnOperation(o))
              /\ \A s \in Streams : OwnStream(s)
            BY <2>2 DEF IInv, OwnOK
        <3>2. CASE a \in strays'
            <4>1. c.sys # "open" /\ c.fd \in Fds /\ owner[c.fd] \notin {a, Program}
                BY <3>1, <3>2 DEF Execute
            <4>2. Uses(c, c.fd)
                BY <1>2, <1>3, <4>1 DEF Uses, Closes, Sys
            <4>3. a \notin Operations
                BY <1>6, <3>1, <4>1, <4>2 DEF OwnOperation
            <4>4. interrupted[a]
                <5>1. a \in Streams /\ OwnStream(a)
                    BY <1>3, <3>1, <4>3
                <5> QED BY <1>6, <4>1, <4>2, <5>1 DEF OwnStream
            <4> QED BY <1>3, <3>2, <4>3, <4>4 DEF OwnOK, Stray, streams
        <3>3. CASE a \notin strays'
            <4>1. strays' = {}
                BY <1>5, <3>1, <3>3
            <4>2. Shuts(c) => owner[c.fd] = a
                BY <1>8, <3>3 DEF Execute, Shuts, IInv, TableOK
            <4>3. ASSUME NEW f \in Fds, NEW b \in Actors \cup {Program}, owner[f] = b,
                         b # a \/ Plain(c, e) \/ Opens(c, e)
                  PROVE  owner'[f] = b
                BY <1>1, <1>4, <4>2, <4>3 DEF Plain, Opens, Shuts
            <4>4. ASSUME NEW f \in Fds, Uses(e, f) PROVE Uses(c, f) /\ Plain(c, e)
                <5>1. c.sys \in {"lseek", "read", "write"} /\ c.fd = f
                    BY <1>1, <1>10, <4>4 DEF Uses, Becomes
                <5> QED BY <1>1, <5>1 DEF Uses, Opens, Shuts
            <4>5. ASSUME Opens(c, e) PROVE owner'[e.res] = a
                BY <1>4, <4>5 DEF Opens
            <4>6. ASSUME NEW o \in Operations PROVE OwnOperation(o)'
                <5>1. CASE o # a
                    <6>1. InFlight(o)' = InFlight(o) /\ OwnOperation(o)
                        BY <1>6, <3>1, <5>1
                    <6>2. \A f \in Fds : owner[f] \in {o, Program} => owner'[f] \in {o, Program}
                        BY <1>3, <4>3, <5>1
                    <6> QED BY <6>1, <6>2 DEF OwnOperation, Gives, Uses, Closes
                <5>2. CASE o = a
                    <6>1. InFlight(o) = {c} /\ InFlight(o)' = {e}
                        BY <1>6, <5>2 DEF IInv, OperationOK
                    <6>2. ASSUME NEW f \in Fds, Gives(e, f) \/ Uses(e, f)
                          PROVE  owner'[f] \in {o, Program}
                        <7>1. CASE Gives(e, f)
                            BY <1>10, <4>5, <5>2, <7>1
                        <7>2. CASE Uses(e, f)
                            <8>1. owner[f] \in {o, Program} /\ Plain(c, e)
                                BY <3>1, <4>4, <6>1, <7>2 DEF OwnOperation
                            <8> QED BY <8>1 DEF Plain
                        <7> QED BY <6>2, <7>1, <7>2
                    <6> QED BY <6>1, <6>2 DEF OwnOperation, Gives, Uses, Closes
                <5> QED BY <5>1, <5>2
            <4>7. ASSUME NEW s \in Streams PROVE OwnStream(s)'
                <5>1. UNCHANGED <<sfd, interrupted>> /\ OwnStream(s)
                    BY <3>1 DEF streams
                <5>2. CASE s # a
                    <6>1. InFlight(s)' = InFlight(s)
                        BY <1>6, <5>2
                    <6>2. \A f \in Fds : owner[f] = s => owner'[f] = s
                        BY <4>3, <5>2
                    <6> QED BY <5>1, <6>1, <6>2 DEF OwnStream, Gives, Uses, Closes
                <5>3. CASE s = a /\ ~interrupted[s]
                    <6>1. \A f \in Fds : sfd[s] = f => owner'[f] = s
                        <7>1. Shuts(c) => sfd[s] = NullFd
                            BY <1>2, <1>6, <5>1, <5>3 DEF OwnStream, Shuts, Closes
                        <7> QED BY <1>1, <4>3, <5>1, <5>3, <7>1 DEF OwnStream
                    <6>2. ASSUME NEW d \in InFlight(s)', NEW f \in Fds, Gives(d, f) \/ Uses(d, f)
                          PROVE  owner'[f] = s
                        <7>1. CASE d = e
                            <8>1. CASE Gives(e, f)
                                BY <1>10, <4>5, <5>3, <8>1
                            <8>2. CASE Uses(e, f)
                                <9>1. owner[f] = s /\ Plain(c, e)
                                    BY <1>6, <4>4, <5>1, <5>3, <8>2 DEF OwnStream
                                <9> QED BY <9>1 DEF Plain
                            <8> QED BY <6>2, <7>1, <8>1, <8>2
                        <7>2. CASE d \in InFlight(s) /\ d # c
                            <8>1. ~Opens(c, e)
                                BY <1>7, <5>3, <7>2 DEF Opens
                            <8>2. ~Shuts(c)
                                BY <1>2, <1>6, <5>1, <5>3, <7>2 DEF OwnStream, Shuts, Closes
                            <8>3. owner[f] = s
                                BY <5>1, <5>3, <6>2, <7>2 DEF OwnStream
                            <8> QED BY <1>1, <8>1, <8>2, <8>3 DEF Plain
                        <7> QED BY <1>6, <5>3, <7>1, <7>2
                    <6>3. ASSUME NEW d \in InFlight(s)', NEW f \in Fds, Closes(d, f)
                          PROVE  sfd[s] = NullFd /\ InFlight(s)' = {d}
                        <7>1. d \in InFlight(s) /\ d # c
                            BY <1>6, <1>10, <5>3, <6>3
                        <7> QED BY <1>6, <5>1, <5>3, <6>3, <7>1 DEF OwnStream
                    <6> QED BY <5>1, <6>1, <6>2, <6>3 DEF OwnStream, Gives, Uses, Closes
                <5>4. CASE interrupted[s]
                    BY <5>1, <5>4 DEF OwnStream
                <5> QED BY <5>2, <5>3, <5>4
            <4> QED BY <4>1, <4>6, <4>7 DEF OwnOK
        <3> QED BY <3>2, <3>3
    <2> QED BY <2>1, <2>2
<1> QED BY <1>12, <1>13, <1>14, <1>15, <1>16 DEF IInv

-----------------------------------------------------------------------------
(* Operations.                                                             *)

\* The one call of an operation was answered, and at most one follows it, with
\* the same descriptor.
Follows(c, d) ==
    /\ d.sys \in {"read", "write", "close"} /\ d.res = Waiting
    /\ Gives(c, d.fd) \/ (c.sys \notin {"open", "close"} /\ c.fd = d.fd)
    /\ Fits(c.by, d)
    /\ d.sys # "close" => callbacks'[c.by] = 0 /\ failed'[c.by] = "none"
    /\ kind[c.by] \in Readers \cup {"appendFile"} => failed'[c.by] = failed[c.by]

\* The step of a callback: the call was executed, and the program is not involved.
OperationCallback(c) ==
    /\ c \in calls /\ c.res # Waiting /\ c.by \in Operations
    /\ UNCHANGED <<kind, position, disturbed>> /\ UNCHANGED streams

\* The callback of c makes the calls of N and keeps what the invariant says.
Answers(c, N) ==
    LET o == c.by
    IN  /\ Answered(c, N)
        /\ \A d \in N : N = {d} /\ d \in ACall /\ d.by = o /\ Follows(c, d)
        /\ callbacks' \in [Operations -> Nat]
        /\ result' \in [Operations -> {"none", "error", "ok"}]
        /\ failed' \in [Operations -> Sys \cup {"none"}]
        /\ \A p \in Operations \ {o} :
             callbacks'[p] = callbacks[p] /\ failed'[p] = failed[p] /\ result'[p] = result[p]
        /\ N = {} => \A f \in Fds : owner[f] = o =>
             \/ kind[o] = "open"
             \/ kind[o] \in Readers /\ failed'[o] = "read"
             \/ kind[o] = "appendFile" /\ failed'[o] = "write"
        /\ callbacks'[o] > 1 => kind[o] = "open" /\ failed'[o] = "open" /\ result'[o] = "error"

LEMMA AnswerStep ==
    ASSUME IInv, NEW c, NEW N, OperationCallback(c), Answers(c, N)
    PROVE  IInv'
<1> USE Numbers, Names
<1> DEFINE o == c.by
<1>1. /\ c \in calls /\ c.by = o /\ o \in Operations
      /\ calls' = (calls \ {c}) \cup N /\ UNCHANGED <<owner, offset, strays>>
      /\ UNCHANGED <<kind, position, disturbed>> /\ UNCHANGED streams
    BY DEF OperationCallback, Answers, Answered
<1>2. \A d \in N : N = {d} /\ d \in ACall /\ d.by = o /\ Follows(c, d)
    BY DEF Answers
<1>3. /\ callbacks' \in [Operations -> Nat]
      /\ result' \in [Operations -> {"none", "error", "ok"}]
      /\ failed' \in [Operations -> Sys \cup {"none"}]
      /\ \A p \in Operations \ {o} :
            callbacks'[p] = callbacks[p] /\ failed'[p] = failed[p] /\ result'[p] = result[p]
    BY DEF Answers
<1>4. /\ N = {} => \A f \in Fds : owner[f] = o =>
            \/ kind[o] = "open"
            \/ kind[o] \in Readers /\ failed'[o] = "read"
            \/ kind[o] = "appendFile" /\ failed'[o] = "write"
      /\ callbacks'[o] > 1 => kind[o] = "open" /\ failed'[o] = "open" /\ result'[o] = "error"
    BY DEF Answers
<1> HIDE DEF o
<1>5. c \in InFlight(o) /\ InFlight(o) = {c} /\ kind[o] # "none" /\ OperationOK(o)
    BY <1>1 DEF InFlight, IInv, OperationOK
<1>6. InFlight(o)' = N
    BY <1>1, <1>2, <1>5 DEF InFlight
<1>7. TypeOK'
    BY <1>1, <1>2, <1>3 DEF IInv, TypeOK, streams, flags, state
<1>8. CallOK(c) /\ c.fd \in Handles
    BY <1>1 DEF IInv, TableOK, TypeOK, ACall
<1>9. ASSUME NEW d \in N PROVE CallOK(d)'
    <2>1. Gives(c, d.fd) => d.fd # ProgramFd
        BY <1>8 DEF CallOK, Gives
    <2>2. d.fd = ProgramFd => kind[o] = "read"
        BY <1>1, <1>2, <1>8, <2>1 DEF CallOK, Follows
    <2> QED BY <1>1, <1>2, <2>2 DEF CallOK, Follows
<1>10. OperationOK(o)'
    <2>1. \A d \in N : Fits(o, d)'
        BY <1>1, <1>2 DEF Follows, Fits
    <2>2. ASSUME NEW f \in Fds, owner[f] = o PROVE Keeps(o, f)'
        <3>1. Keeps(o, f)
            BY <1>5, <2>2 DEF OperationOK
        <3>2. CASE N = {}
            BY <1>1, <1>4, <2>2, <3>2 DEF Keeps
        <3>3. CASE N # {}
            <4>1. PICK d \in N : N = {d} /\ Follows(c, d)
                BY <1>2, <3>3
            <4>2. Gives(c, f) \/ Uses(c, f) => Uses(d, f)
                BY <4>1 DEF Follows, Gives, Uses, Closes
            <4> QED BY <1>1, <1>5, <1>6, <3>1, <4>1, <4>2 DEF Keeps, Gives, Uses, Closes, Follows
        <3> QED BY <3>2, <3>3
    <2>3. \A d \in InFlight(o)' : InFlight(o)' = {d} /\ Fits(o, d)'
        BY <1>2, <1>6, <2>1
    <2>4. \A d \in InFlight(o)' : d.sys # "close" => callbacks'[o] = 0 /\ failed'[o] = "none"
        BY <1>1, <1>2, <1>6 DEF Follows
    <2> QED BY <1>1, <1>4, <1>5, <2>2, <2>3, <2>4 DEF OperationOK
<1>11. ASSUME OwnOperation(o) PROVE OwnOperation(o)'
    <2>1. ASSUME NEW d \in N, NEW f \in Fds, Gives(d, f) \/ Uses(d, f)
          PROVE  owner[f] \in {o, Program}
        <3>1. Gives(c, f) \/ Uses(c, f)
            <4>1. c.sys \in Sys /\ Follows(c, d)
                BY <1>1, <1>2 DEF IInv, TypeOK, ACall
            <4> QED BY <2>1, <4>1 DEF Follows, Gives, Uses, Closes, Sys
        <3> QED BY <1>5, <1>11, <3>1 DEF OwnOperation
    <2> QED BY <1>1, <1>6, <2>1 DEF OwnOperation, Gives, Uses, Closes
<1>12. calls' = (calls \ InFlight(o)) \cup N /\ \A d \in N : d.by = o /\ CallOK(d)'
    BY <1>1, <1>2, <1>5, <1>9
<1> QED BY <1>1, <1>3, <1>7, <1>10, <1>11, <1>12, OperationStep

\* What an operation was doing when one of its calls is answered.
LEMMA AnsweredCall ==
    ASSUME IInv, NEW c \in calls, c.by \in Operations
    PROVE  /\ c \in ACall /\ Fits(c.by, c) /\ kind[c.by] \in Kinds \cup {"close"}
           /\ c.sys # "close" => callbacks[c.by] = 0 /\ failed[c.by] = "none"
           /\ callbacks \in [Operations -> Nat]
           /\ result \in [Operations -> {"none", "error", "ok"}]
           /\ failed \in [Operations -> Sys \cup {"none"}]
           /\ \A f \in Fds : owner[f] = c.by =>
                \/ Gives(c, f) \/ Uses(c, f) \/ kind[c.by] = "open"
                \/ kind[c.by] \in Readers /\ failed[c.by] = "read"
                \/ kind[c.by] = "appendFile" /\ failed[c.by] = "write"
           /\ callbacks[c.by] > 1 =>
                kind[c.by] = "open" /\ failed[c.by] = "open" /\ result[c.by] = "error"
<1> DEFINE o == c.by
<1>1. c \in InFlight(o) /\ OperationOK(o)
    BY DEF InFlight, IInv
<1>2. InFlight(o) = {c} /\ Fits(o, c) /\ kind[o] # "none"
    BY <1>1 DEF OperationOK
<1>3. TypeOK
    BY DEF IInv
<1> QED BY <1>1, <1>2, <1>3 DEF OperationOK, TypeOK, Keeps

LEMMA AfterOpenFailsStep ==
    ASSUME IInv, NEW c, OperationCallback(c), AfterOpenFails(c) PROVE IInv'
<1> DEFINE o == c.by
<1> USE Numbers
<1>1. c \in calls /\ c.res # Waiting /\ o \in Operations /\ c.sys = "open" /\ c.res = Failed
    BY DEF OperationCallback, AfterOpenFails
<1>2. callbacks[o] = 0 /\ failed[o] = "none"
    BY <1>1, AnsweredCall
<1>3. /\ callbacks' = [callbacks EXCEPT ![o] = @ + (IF kind[o] = "open" THEN 2 ELSE 1)]
      /\ result' = [result EXCEPT ![o] = "error"] /\ failed' = [failed EXCEPT ![o] = "open"]
    BY <1>1 DEF AfterOpenFails, Callback, Fail
<1>4. /\ callbacks \in [Operations -> Nat] /\ result \in [Operations -> {"none", "error", "ok"}]
      /\ failed \in [Operations -> Sys \cup {"none"}]
    BY <1>1, AnsweredCall
<1>5. ASSUME NEW f \in Fds, owner[f] = o PROVE kind[o] = "open"
    BY <1>1, <1>2, <1>5, AnsweredCall DEF Gives, Uses, Closes
<1>6. /\ callbacks' \in [Operations -> Nat] /\ result' \in [Operations -> {"none", "error", "ok"}]
      /\ failed' \in [Operations -> Sys \cup {"none"}]
      /\ \A p \in Operations \ {o} :
            callbacks'[p] = callbacks[p] /\ failed'[p] = failed[p] /\ result'[p] = result[p]
      /\ callbacks'[o] > 1 => kind[o] = "open" /\ failed'[o] = "open" /\ result'[o] = "error"
    BY <1>1, <1>2, <1>3, <1>4 DEF Sys
<1>7. Answers(c, {})
    BY <1>5, <1>6 DEF Answers, AfterOpenFails
<1> QED BY <1>7, AnswerStep

\* The callback of c makes one more call, with a descriptor that it knows.
Continues(c, sys, f) ==
    /\ sys \in {"read", "write", "close"} /\ f \in Handles
    /\ Fits(c.by, Ask(c.by, sys, f, 0))
    /\ Gives(c, f) \/ (c.sys \notin {"open", "close"} /\ c.fd = f)
    /\ sys # "close" => callbacks'[c.by] = 0 /\ failed'[c.by] = "none"
    /\ kind[c.by] \in Readers \cup {"appendFile"} => failed'[c.by] = failed[c.by]

LEMMA ContinuesOK ==
    ASSUME NEW c, c.by \in Operations, NEW sys, NEW f, Continues(c, sys, f)
    PROVE  LET d == Ask(c.by, sys, f, 0) IN d \in ACall /\ d.by = c.by /\ Follows(c, d)
<1> USE Names
<1>1. sys \in Sys /\ f \in Handles /\ 0 \in Int /\ 1 \in Nat /\ c.by \in Actors
    BY DEF Sys, Continues
<1>2. LET d == Ask(c.by, sys, f, 0)
      IN  d \in ACall /\ d.by = c.by /\ d.sys = sys /\ d.fd = f /\ d.res = Waiting
    BY <1>1, NewCall DEF Ask
<1> QED BY <1>2 DEF Follows, Continues

LEMMA AfterOpenStep ==
    ASSUME IInv, NEW c, OperationCallback(c), AfterOpen(c) PROVE IInv'
<1> DEFINE o == c.by
<1> USE Numbers
<1>1. c \in calls /\ c.res # Waiting /\ o \in Operations /\ c.sys = "open" /\ c.res # Failed
    BY DEF OperationCallback, AfterOpen
<1>2. /\ callbacks[o] = 0 /\ failed[o] = "none" /\ callbacks \in [Operations -> Nat]
      /\ result \in [Operations -> {"none", "error", "ok"}]
      /\ failed \in [Operations -> Sys \cup {"none"}] /\ CallOK(c)
    BY <1>1, AnsweredCall DEF IInv, TableOK
<1>3. c.res \in Handles /\ Gives(c, c.res)
    BY <1>1, <1>2 DEF CallOK, Gives
<1>4. ASSUME NEW sys \in {"read", "write", "close"}, Answered(c, {Ask(o, sys, c.res, 0)}),
             UNCHANGED <<callbacks, result, failed>>, Fits(o, Ask(o, sys, c.res, 0))
      PROVE  IInv'
    <2>1. Ask(o, sys, c.res, 0) \in ACall /\ Ask(o, sys, c.res, 0).by = o
          /\ Follows(c, Ask(o, sys, c.res, 0))
        <3>1. Continues(c, sys, c.res)
            BY <1>1, <1>2, <1>3, <1>4 DEF Continues
        <3> QED BY <1>1, <3>1, ContinuesOK
    <2>2. Answers(c, {Ask(o, sys, c.res, 0)})
        BY <1>2, <1>4, <2>1 DEF Answers
    <2> QED BY <2>2, AnswerStep
<1>5. \A sys \in {"read", "write", "close"} : Ask(o, sys, c.res, 0).sys = sys
    BY DEF Ask, CallOf
<1>6. CASE kind[o] \in Readers /\ Answered(c, {Ask(o, "read", c.res, 0)})
           /\ NoCallback /\ UNCHANGED failed
    BY <1>4, <1>5, <1>6 DEF Fits, NoCallback
<1>7. CASE kind[o] = "writeFile" /\ Answered(c, {Ask(o, "write", c.res, 0)})
           /\ NoCallback /\ UNCHANGED failed
    BY <1>4, <1>5, <1>7 DEF Fits, NoCallback
<1>8. CASE kind[o] = "appendFile" /\ Answered(c, {Ask(o, "close", c.res, 0)})
           /\ NoCallback /\ UNCHANGED failed
    BY <1>4, <1>5, <1>8 DEF Fits, NoCallback
<1>9. CASE kind[o] = "open" /\ Answered(c, {}) /\ Callback(o, 1, "ok") /\ UNCHANGED failed
    <2>1. Answers(c, {})
        BY <1>1, <1>2, <1>9 DEF Answers, Callback
    <2> QED BY <2>1, AnswerStep
<1>10. CASE kind[o] = "appendFile" /\ Answered(c, {}) /\ NoCallback
            /\ failed' = [failed EXCEPT ![o] = "write"]
    <2>1. Answers(c, {})
        BY <1>1, <1>2, <1>10 DEF Answers, NoCallback, Sys
    <2> QED BY <2>1, AnswerStep
<1> QED BY <1>6, <1>7, <1>8, <1>9, <1>10 DEF AfterOpen

\* An operation that read() began has nothing of its own.
LEMMA ReadOwnsNothing ==
    ASSUME IInv, NEW c \in calls, c.by \in Operations, kind[c.by] = "read",
           NEW f \in Fds
    PROVE  owner[f] # c.by
<1>1. c.sys \in {"lseek", "read"} /\ c.fd = ProgramFd
    BY AnsweredCall DEF Fits, Opening, Kinds, Readers
<1>2. ASSUME owner[f] = c.by PROVE f = ProgramFd
    BY <1>1, <1>2, AnsweredCall DEF Gives, Uses, Closes, Readers
<1> QED BY <1>2, Names DEF IInv, TableOK

LEMMA AfterSeekStep ==
    ASSUME IInv, NEW c, OperationCallback(c), AfterSeek(c) PROVE IInv'
<1> DEFINE o == c.by
<1> USE Numbers
<1>1. c \in calls /\ c.res # Waiting /\ o \in Operations /\ c.sys = "lseek"
    BY DEF OperationCallback, AfterSeek
<1>2. /\ callbacks[o] = 0 /\ failed[o] = "none" /\ callbacks \in [Operations -> Nat]
      /\ result \in [Operations -> {"none", "error", "ok"}] /\ Fits(o, c)
      /\ failed \in [Operations -> Sys \cup {"none"}]
    BY <1>1, AnsweredCall
<1>3. kind[o] = "read" /\ c.fd = ProgramFd
    BY <1>1, <1>2 DEF Fits
<1>4. CASE c.res = Failed
    <2>1. Callback(o, 1, "error") /\ Fail(c) /\ Answered(c, {})
        BY <1>4 DEF AfterSeek
    <2>2. \A f \in Fds : owner[f] # o
        BY <1>1, <1>3, ReadOwnsNothing
    <2>3. Answers(c, {})
        BY <1>1, <1>2, <2>1, <2>2 DEF Answers, Callback, Fail, Sys
    <2> QED BY <2>3, AnswerStep
<1>5. CASE c.res # Failed
    <2>1. NoCallback /\ Answered(c, {Ask(o, "read", c.fd, 0)}) /\ UNCHANGED failed
        BY <1>5 DEF AfterSeek
    <2>2. Fits(o, Ask(o, "read", c.fd, 0))
        BY <1>3 DEF Fits, Ask, CallOf
    <2>3. Ask(o, "read", c.fd, 0) \in ACall /\ Ask(o, "read", c.fd, 0).by = o
          /\ Follows(c, Ask(o, "read", c.fd, 0))
        <3>1. Continues(c, "read", c.fd)
            BY <1>1, <1>2, <1>3, <2>1, <2>2 DEF Continues, NoCallback
        <3> QED BY <1>1, <3>1, ContinuesOK
    <2>4. Answers(c, {Ask(o, "read", c.fd, 0)})
        BY <1>2, <2>1, <2>3 DEF Answers, NoCallback
    <2> QED BY <2>4, AnswerStep
<1> QED BY <1>4, <1>5

LEMMA AfterReadFailsStep ==
    ASSUME IInv, NEW c, OperationCallback(c), AfterReadFails(c) PROVE IInv'
<1> DEFINE o == c.by
<1> USE Numbers
<1>1. /\ c \in calls /\ c.res # Waiting /\ o \in Operations /\ c.sys = "read"
      /\ Callback(o, 1, "error") /\ Fail(c) /\ Answered(c, {})
    BY DEF OperationCallback, AfterReadFails
<1>2. /\ callbacks[o] = 0 /\ failed[o] = "none" /\ callbacks \in [Operations -> Nat]
      /\ result \in [Operations -> {"none", "error", "ok"}] /\ Fits(o, c)
      /\ failed \in [Operations -> Sys \cup {"none"}]
    BY <1>1, AnsweredCall
<1>3. kind[o] \in Readers \/ \A f \in Fds : owner[f] # o
    BY <1>1, <1>2, ReadOwnsNothing DEF Fits
<1>4. Answers(c, {})
    BY <1>1, <1>2, <1>3 DEF Answers, Callback, Fail, Sys
<1> QED BY <1>4, AnswerStep

LEMMA AfterReadStep ==
    ASSUME IInv, NEW c, OperationCallback(c), AfterRead(c) PROVE IInv'
<1> DEFINE o == c.by
<1> USE Numbers
<1>1. /\ c \in calls /\ c.res # Waiting /\ o \in Operations /\ c.sys = "read"
      /\ UNCHANGED failed
    BY DEF OperationCallback, AfterRead
<1>2. /\ callbacks[o] = 0 /\ failed[o] = "none" /\ callbacks \in [Operations -> Nat]
      /\ result \in [Operations -> {"none", "error", "ok"}] /\ Fits(o, c)
      /\ failed \in [Operations -> Sys \cup {"none"}] /\ c \in ACall
    BY <1>1, AnsweredCall
<1>3. CASE kind[o] = "read"
    <2>1. Callback(o, 1, "ok") /\ Answered(c, {})
        BY <1>3 DEF AfterRead
    <2>2. \A f \in Fds : owner[f] # o
        BY <1>1, <1>3, ReadOwnsNothing
    <2>3. Answers(c, {})
        BY <1>1, <1>2, <2>1, <2>2 DEF Answers, Callback
    <2> QED BY <2>3, AnswerStep
<1>4. CASE kind[o] # "read"
    <2>1. kind[o] \in Readers
        BY <1>1, <1>2, <1>4 DEF Fits
    <2>2. PICK sys \in {"read", "close"} :
            /\ NextCall(c) = Ask(o, sys, c.fd, 0)
            /\ IF sys = "close" THEN Callback(o, 1, "ok") ELSE NoCallback
        BY <1>4 DEF AfterRead, NextCall, Ask, CallOf
    <2>3. Answered(c, {Ask(o, sys, c.fd, 0)})
        BY <1>4, <2>2 DEF AfterRead
    <2>4. Fits(o, Ask(o, sys, c.fd, 0))
        BY <2>1 DEF Fits, Ask, CallOf, Readers
    <2>5. sys # "close" => callbacks'[o] = 0
        BY <1>2, <2>2 DEF NoCallback
    <2>6. Continues(c, sys, c.fd)
        BY <1>1, <1>2, <2>4, <2>5 DEF Continues, ACall
    <2>7. Ask(o, sys, c.fd, 0) \in ACall /\ Ask(o, sys, c.fd, 0).by = o
          /\ Follows(c, Ask(o, sys, c.fd, 0))
        BY <1>1, <2>6, ContinuesOK
    <2>8. /\ callbacks' \in [Operations -> Nat] /\ result' \in [Operations -> {"none", "error", "ok"}]
          /\ \A p \in Operations \ {o} : callbacks'[p] = callbacks[p] /\ result'[p] = result[p]
          /\ callbacks'[o] \in {0, 1}
        BY <1>1, <1>2, <2>2 DEF NoCallback, Callback
    <2>9. Answers(c, {Ask(o, sys, c.fd, 0)})
        BY <1>1, <1>2, <2>3, <2>7, <2>8 DEF Answers
    <2> QED BY <2>9, AnswerStep
<1> QED BY <1>3, <1>4

LEMMA AfterWriteStep ==
    ASSUME IInv, NEW c, OperationCallback(c), AfterWrite(c) PROVE IInv'
<1> DEFINE o == c.by
           d == Ask(o, "close", c.fd, 0)
<1> USE Numbers
<1>1. /\ c \in calls /\ c.res # Waiting /\ o \in Operations /\ c.sys = "write"
      /\ Callback(o, 1, IF c.res = Failed THEN "error" ELSE "ok")
      /\ IF c.res = Failed THEN Fail(c) ELSE UNCHANGED failed
      /\ Answered(c, {d})
    BY DEF OperationCallback, AfterWrite, AfterWriteCloses
<1>2. /\ callbacks[o] = 0 /\ failed[o] = "none" /\ callbacks \in [Operations -> Nat]
      /\ result \in [Operations -> {"none", "error", "ok"}] /\ kind[o] = "writeFile"
      /\ failed \in [Operations -> Sys \cup {"none"}] /\ c \in ACall
    BY <1>1, AnsweredCall DEF Fits
<1>3. Fits(o, d)
    BY <1>2 DEF Fits, Ask, CallOf
<1>4. Continues(c, "close", c.fd)
    BY <1>1, <1>2, <1>3 DEF Continues, ACall, Readers
<1>5. d \in ACall /\ d.by = o /\ Follows(c, d)
    BY <1>1, <1>4, ContinuesOK
<1> HIDE DEF d
<1>6. Answers(c, {d})
    BY <1>1, <1>2, <1>5 DEF Answers, Callback, Fail, Sys
<1> QED BY <1>6, AnswerStep

LEMMA AfterCloseStep ==
    ASSUME IInv, NEW c, OperationCallback(c), AfterClose(c) PROVE IInv'
<1> DEFINE o == c.by
<1>1. /\ c \in calls /\ c.res # Waiting /\ o \in Operations /\ c.sys = "close"
      /\ Answered(c, {}) /\ UNCHANGED <<callbacks, result, failed>>
    BY DEF OperationCallback, AfterClose, NoCallback
<1>2. \A f : ~Gives(c, f) /\ ~Uses(c, f)
    BY <1>1 DEF Gives, Uses, Closes
<1>3. Answers(c, {})
    BY <1>1, <1>2, AnsweredCall DEF Answers
<1> QED BY <1>3, AnswerStep

\* An operation that the program begins.
LEMMA BeginStep ==
    ASSUME IInv, NEW o \in Operations, NEW k \in Kinds, NEW d, Call(o, k, d),
           d \in ACall, d.by = o, d.res = Waiting, position' \in [Operations -> Int],
           UNCHANGED streams,
           \/ d.sys = "open" /\ k \in Opening /\ d.fd # ProgramFd
           \/ d.sys \in {"lseek", "read"} /\ k = "read" /\ d.fd = ProgramFd
    PROVE  IInv'
<1> USE Numbers, Names
<1>1. kind[o] = "none"
    BY DEF Call, Unused
<1>2. /\ kind' = [kind EXCEPT ![o] = k] /\ calls' = calls \cup {d}
      /\ UNCHANGED <<owner, offset, strays, callbacks, result, failed>>
    BY DEF Call
<1>3. /\ InFlight(o) = {} /\ callbacks[o] = 0 /\ failed[o] = "none"
      /\ (\A f \in Fds : owner[f] # o) /\ kind \in [Operations -> Kinds \cup {"none", "close"}]
    BY <1>1 DEF IInv, OperationOK, TypeOK
<1>4. InFlight(o)' = {d} /\ calls' = (calls \ InFlight(o)) \cup {d}
    BY <1>2, <1>3 DEF InFlight
<1>5. TypeOK'
    BY <1>2, <1>3 DEF IInv, TypeOK, streams, flags, state
<1>6. kind'[o] = k /\ \A p \in Operations \ {o} : kind'[p] = kind[p]
    BY <1>2, <1>3
<1>7. CallOK(d)'
    BY <1>2, <1>3, <1>6 DEF CallOK
<1>8. OperationOK(o)'
    BY <1>2, <1>3, <1>4, <1>6 DEF OperationOK, Fits, Kinds
<1>9. OwnOperation(o)'
    <2>1. ASSUME NEW f \in Fds, Gives(d, f) \/ Uses(d, f) PROVE owner'[f] = Program
        <3>1. f = ProgramFd
            BY <2>1 DEF Gives, Uses, Closes
        <3> QED BY <1>2, <3>1 DEF IInv, TableOK
    <2> QED BY <1>4, <2>1 DEF OwnOperation, Gives, Uses, Closes
<1>10. \A e \in {d} : e.by = o /\ CallOK(e)'
    BY <1>7
<1> QED BY <1>2, <1>4, <1>5, <1>6, <1>8, <1>9, <1>10, OperationStep

LEMMA CallOpeningStep ==
    ASSUME IInv, NEW o \in Operations, NEW k \in Opening, CallOpening(o, k), UNCHANGED streams
    PROVE  IInv'
<1> USE Numbers, Names
<1> DEFINE d == Ask(o, "open", 0, 0)
<1>1. Call(o, k, d) /\ UNCHANGED position
    BY DEF CallOpening
<1>2. d \in ACall /\ d.by = o /\ d.sys = "open" /\ d.fd = 0 /\ d.res = Waiting
    BY NewCall DEF Ask, Sys, NullFd
<1>3. position' \in [Operations -> Int]
    BY <1>1 DEF IInv, TypeOK
<1>4. k \in Kinds /\ 0 # ProgramFd
    BY DEF Opening, ProgramFd
<1> HIDE DEF d
<1> QED BY <1>1, <1>2, <1>3, <1>4, BeginStep

LEMMA CallReadStep ==
    ASSUME IInv, NEW o \in Operations, NEW at \in 0 .. Size, CallRead(o, at), UNCHANGED streams
    PROVE  IInv'
<1> USE Numbers, Names
<1> DEFINE d == FirstCall(o, at)
<1>1. Call(o, "read", d) /\ position' = [position EXCEPT ![o] = at]
    BY DEF CallRead
<1>2. /\ d \in ACall /\ d.by = o /\ d.sys \in {"lseek", "read"} /\ d.fd = ProgramFd
      /\ d.res = Waiting
    BY NewCall DEF FirstCall, Ask, Sys
<1>3. position' \in [Operations -> Int]
    BY <1>1 DEF IInv, TypeOK
<1>4. "read" \in Kinds
    BY DEF Kinds
<1> HIDE DEF d
<1> QED BY <1>1, <1>2, <1>3, <1>4, BeginStep

LEMMA CallCloseStep ==
    ASSUME IInv, NEW o \in Operations, CallClose(o), UNCHANGED streams PROVE IInv'
<1> USE Numbers, Names
<1>1. /\ kind[o] = "open" /\ result[o] = "ok" /\ InFlight(o) = {}
      /\ kind' = [kind EXCEPT ![o] = "close"]
      /\ UNCHANGED <<owner, offset, strays, position, callbacks, result, failed>>
    BY DEF CallClose
<1>2. PICK f \in Fds : owner[f] = o /\ calls' = calls \cup {Ask(o, "close", f, 0)}
    BY DEF CallClose
<1> DEFINE d == Ask(o, "close", f, 0)
<1>3. d \in ACall /\ d.by = o /\ d.sys = "close" /\ d.fd = f /\ d.res = Waiting
    BY NewCall DEF Ask, Sys
<1>4. calls' = calls \cup {d}
    BY <1>2
<1> HIDE DEF d
<1>5. InFlight(o)' = {d} /\ calls' = (calls \ InFlight(o)) \cup {d}
    BY <1>1, <1>3, <1>4 DEF InFlight
<1>6. /\ kind \in [Operations -> Kinds \cup {"none", "close"}] /\ kind'[o] = "close"
      /\ callbacks \in [Operations -> Nat]
      /\ \A p \in Operations \ {o} : kind'[p] = kind[p]
    BY <1>1 DEF IInv, TypeOK
<1>7. TypeOK'
    BY <1>1, <1>3, <1>4 DEF IInv, TypeOK, streams, flags, state
<1>8. f # ProgramFd /\ \A g \in Fds : owner[g] = o => g = f
    BY <1>2 DEF IInv, TableOK
<1>9. \A e \in {d} : e.by = o /\ CallOK(e)'
    BY <1>3, <1>8 DEF CallOK
<1>10. OperationOK(o)'
    <2>1. \A e \in InFlight(o)' : InFlight(o)' = {e} /\ Fits(o, e)'
        BY <1>3, <1>5, <1>6 DEF Fits
    <2>2. \A g \in Fds : owner'[g] = o => Keeps(o, g)'
        BY <1>1, <1>3, <1>5, <1>8 DEF Keeps, Uses, Closes, Gives
    <2>3. callbacks[o] > 1 => result[o] = "error"
        BY DEF IInv, OperationOK
    <2> QED BY <1>1, <1>3, <1>5, <1>6, <2>1, <2>2, <2>3 DEF OperationOK
<1>11. OwnOperation(o)'
    BY <1>1, <1>2, <1>3, <1>5 DEF OwnOperation, Gives, Uses, Closes
<1> QED BY <1>1, <1>5, <1>6, <1>7, <1>9, <1>10, <1>11, OperationStep

-----------------------------------------------------------------------------
(* Streams.                                                                *)

\* What the invariant says of a stream, and of the calls it waits for.
LEMMA StreamNow ==
    ASSUME IInv, NEW s \in Streams
    PROVE  /\ StreamOK(s) /\ StreamTypes /\ InFlight(s) \subseteq calls
           /\ \A c \in InFlight(s) : c \in ACall /\ c.by = s /\ c.fd # ProgramFd /\ CallOK(c)
<1>1. \A c \in InFlight(s) : c \in calls /\ c \in ACall /\ c.by = s /\ CallOK(c)
    BY DEF IInv, TypeOK, TableOK, InFlight
<1>2. \A c \in InFlight(s) : c.fd # ProgramFd
    BY <1>1, Names DEF CallOK
<1>3. StreamTypes
    BY DEF StreamTypes, IInv, TypeOK
<1> QED BY <1>1, <1>2, <1>3 DEF IInv

\* The calls of a stream after its step.
LEMMA TurnInFlight ==
    ASSUME NEW s, NEW X, NEW N, StreamTurn(s, X, N)
    PROVE  InFlight(s)' = (InFlight(s) \ X) \cup N
BY DEF StreamTurn, InFlight

\* A step that makes no call and leaves the descriptor of the stream alone.
LEMMA QuietStep ==
    ASSUME IInv, NEW s \in Streams, StreamTurn(s, {}, {}), Resting(s)
    PROVE  IInv'
<1>1. owner' = owner
    BY DEF StreamTurn
<1> QED BY <1>1, StreamNow, RestingOK, StreamStep

LEMMA CreateStep ==
    ASSUME IInv, NEW s \in Streams, NEW at \in {-1, 0, 1}, Create(s, at), UNCHANGED operations
    PROVE  IInv'
<1> USE Numbers, Names
<1> DEFINE d == Ask(s, "open", 0, 0)
<1>1. /\ ~made[s] /\ made' = [made EXCEPT ![s] = TRUE]
      /\ pos' = [pos EXCEPT ![s] = at] /\ calls' = calls \cup {d}
      /\ UNCHANGED <<owner, offset, strays, sfd, destroyed, closed, onOpen, early, interrupted>>
    BY DEF Create, flags, state
<1>2. d \in ACall /\ d.by = s /\ d.sys = "open" /\ d.fd = 0 /\ d.res = Waiting
    BY NewCall DEF Ask, Sys, NullFd
<1> HIDE DEF d
<1>3. /\ InFlight(s) = {} /\ sfd[s] = NullFd /\ ~destroyed[s] /\ ~closed[s] /\ ~interrupted[s]
      /\ (\A f \in Fds : owner[f] # s) /\ StreamTypes
    BY <1>1, StreamNow DEF StreamOK
<1>4. StreamTypes'
    BY <1>1, <1>3 DEF StreamTypes
<1>5. StreamTurn(s, {}, {d})
    BY <1>1, <1>2, <1>3, <1>4 DEF StreamTurn, StreamTypes, ProgramFd
<1>6. InFlight(s)' = {d}
    BY <1>3, <1>5, TurnInFlight
<1>7. made'[s] /\ \A f \in Fds : ~Gives(d, f) /\ ~Uses(d, f) /\ ~Closes(d, f)
    BY <1>1, <1>2, <1>3 DEF Gives, Uses, Closes, StreamTypes
<1>8. StreamOK(s)'
    BY <1>1, <1>2, <1>3, <1>6, <1>7 DEF StreamOK, Gives, Closes
<1>9. OwnStream(s)'
    BY <1>1, <1>3, <1>6, <1>7 DEF OwnStream, Gives, Uses, Closes
<1> QED BY <1>5, <1>8, <1>9, StreamStep

\* The call that begins to read from descriptor f.
LEMMA ReadingCall ==
    ASSUME NEW s \in Streams, NEW f \in Handles, StreamTypes
    PROVE  LET d == Reading(s, f)
           IN  /\ d \in ACall /\ d.by = s /\ d.sys \in {"lseek", "read"} /\ d.fd = f
               /\ d.res = Waiting
<1>1. pos[s] \in Int /\ s \in Actors
    BY Names DEF StreamTypes
<1>2. /\ "lseek" \in Sys /\ "read" \in Sys /\ 1 \in Nat /\ 0 \in Int
    BY DEF Sys
<1>3. CASE pos[s] > 0
    <2>1. Reading(s, f) = CallOf(s, "lseek", f, pos[s], 1)
        BY <1>3 DEF Reading, Ask
    <2> QED BY <1>1, <1>2, <2>1, NewCall
<1>4. CASE ~(pos[s] > 0)
    <2>1. Reading(s, f) = CallOf(s, "read", f, 0, 1)
        BY <1>4 DEF Reading, Ask
    <2> QED BY <1>1, <1>2, <2>1, NewCall
<1> QED BY <1>3, <1>4

LEMMA ReadStep ==
    ASSUME IInv, NEW s \in Streams, Read(s), UNCHANGED operations
    PROVE  IInv'
<1> USE Numbers, Names
<1>1. /\ made[s] /\ UNCHANGED <<owner, offset, strays, made, sfd, destroyed, closed, early, interrupted>>
    BY DEF Read, flags
<1>2. StreamTypes /\ StreamOK(s)
    BY StreamNow
<1>3. onOpen' \in [Streams -> Seq({"read", "close"})] /\ pos' \in [Streams -> Int]
    <2>1. onOpen[s] \in Seq({"read", "close"}) /\ pos[s] \in Int /\ PosAfter(s) \in Int
        BY <1>2 DEF StreamTypes, PosAfter
    <2>2. Append(onOpen[s], "read") \in Seq({"read", "close"})
        BY <2>1
    <2>3. \/ onOpen' = onOpen \/ onOpen' = [onOpen EXCEPT ![s] = Append(onOpen[s], "read")]
        BY DEF Read, Once
    <2>4. \/ pos' = pos \/ pos' = [pos EXCEPT ![s] = PosAfter(s)]
        BY DEF Read
    <2>5. onOpen' \in [Streams -> Seq({"read", "close"})]
        <3>1. onOpen \in [Streams -> Seq({"read", "close"})]
            BY <1>2 DEF StreamTypes
        <3> QED BY <2>2, <2>3, <3>1
    <2>6. pos' \in [Streams -> Int]
        <3>1. pos \in [Streams -> Int]
            BY <1>2 DEF StreamTypes
        <3>2. CASE pos' = [pos EXCEPT ![s] = PosAfter(s)]
            BY <2>1, <3>1, <3>2
        <3> QED BY <2>4, <3>1, <3>2
    <2> QED BY <2>5, <2>6
<1>4. StreamTypes'
    BY <1>1, <1>2, <1>3 DEF StreamTypes
<1>5. CASE calls' = calls
    <2>1. StreamTurn(s, {}, {})
        BY <1>1, <1>4, <1>5 DEF StreamTurn
    <2>2. Resting(s)
        BY <1>1, <1>5 DEF Resting, InFlight
    <2> QED BY <2>1, <2>2, QuietStep
<1>6. CASE sfd[s] # NullFd /\ calls' = calls \cup {Reading(s, sfd[s])}
    <2> DEFINE d == Reading(s, sfd[s])
    <2>1. /\ d \in ACall /\ d.by = s /\ d.sys \in {"lseek", "read"} /\ d.fd = sfd[s]
          /\ d.res = Waiting /\ calls' = calls \cup {d}
        <3>1. PICK f \in Handles : f = sfd[s]
            BY <1>2 DEF StreamTypes
        <3>2. LET e == Reading(s, f)
              IN  /\ e \in ACall /\ e.by = s /\ e.sys \in {"lseek", "read"} /\ e.fd = f
                  /\ e.res = Waiting
            BY <1>2, ReadingCall
        <3> QED BY <1>6, <3>1, <3>2
    <2> HIDE DEF d
    <2>2. sfd[s] # ProgramFd
        BY <1>2 DEF StreamOK
    <2>3. StreamTurn(s, {}, {d})
        BY <1>1, <1>4, <2>1, <2>2 DEF StreamTurn
    <2>4. InFlight(s)' = InFlight(s) \cup {d}
        BY <2>3, TurnInFlight
    <2>5. StreamOK(s)'
        BY <1>1, <1>2, <1>6, <2>1, <2>4 DEF StreamOK, Gives, Closes
    <2>6. ASSUME OwnStream(s) PROVE OwnStream(s)'
        <3>1. \A f \in Fds : (Gives(d, f) \/ Uses(d, f) => f = sfd[s]) /\ ~Closes(d, f)
            BY <2>1 DEF Gives, Uses, Closes
        <3> QED BY <1>1, <1>6, <2>4, <2>6, <3>1 DEF OwnStream, Gives, Uses, Closes
    <2> QED BY <2>3, <2>5, <2>6, StreamStep
<1> QED BY <1>5, <1>6 DEF Read

\* The calls that read from descriptor f or close it.
LEMMA StreamCall ==
    ASSUME NEW s \in Streams, NEW f \in Handles, NEW sys \in {"read", "close"}
    PROVE  LET d == Ask(s, sys, f, 0)
           IN  d \in ACall /\ d.by = s /\ d.sys = sys /\ d.fd = f /\ d.res = Waiting
BY Names, NewCall DEF Ask, Sys

\* close() of an open stream, while the calls of X are answered.
Closing(s, X) ==
    /\ X \subseteq InFlight(s) /\ (\A c \in X : c.sys # "close")
    /\ CloseNow(s, X) /\ sfd[s] # NullFd /\ made[s]
    /\ UNCHANGED <<owner, offset, strays, made, pos>> /\ UNCHANGED operations
    /\ onOpen' \in [Streams -> Seq({"read", "close"})]
    /\ destroyed' \in [Streams -> BOOLEAN] /\ early' \in [Streams -> BOOLEAN]
    /\ \A t \in Streams \ {s} : destroyed'[t] = destroyed[t] /\ early'[t] = early[t]

LEMMA CloseNowStep ==
    ASSUME IInv, NEW s \in Streams, NEW X, Closing(s, X)
    PROVE  IInv'
<1> USE Numbers, Names
<1> DEFINE d == Ask(s, "close", sfd[s], 0)
<1>1. /\ calls' = (calls \ X) \cup {d}
      /\ closed' = [closed EXCEPT ![s] = TRUE] /\ sfd' = [sfd EXCEPT ![s] = NullFd]
      /\ interrupted' = [interrupted EXCEPT ![s] = interrupted[s] \/ InFlight(s) \ X # {}]
    BY DEF Closing, CloseNow, FdAfterClose
<1>2. StreamTypes /\ StreamOK(s)
    BY StreamNow
<1>3. sfd[s] \in Handles /\ sfd[s] # ProgramFd
    BY <1>2 DEF StreamTypes, StreamOK
<1>4. /\ d \in ACall /\ d.by = s /\ d.sys = "close" /\ d.fd = sfd[s] /\ d.res = Waiting
    BY <1>3, StreamCall
<1> HIDE DEF d
<1>5. StreamTypes'
    BY <1>1, <1>2 DEF StreamTypes, Closing
<1>6. StreamTurn(s, X, {d})
    BY <1>1, <1>2, <1>3, <1>4, <1>5 DEF StreamTurn, StreamTypes, Closing
<1>7. InFlight(s)' = (InFlight(s) \ X) \cup {d}
    BY <1>6, TurnInFlight
<1>8. /\ sfd'[s] = NullFd /\ made'[s]
      /\ interrupted'[s] = (interrupted[s] \/ InFlight(s) \ X # {})
    BY <1>1, <1>2 DEF StreamTypes, Closing
<1>9. /\ \A c \in InFlight(s) : c.sys # "open"
      /\ \A f \in Fds : Gives(d, f) \/ Uses(d, f) \/ Closes(d, f) => f = sfd[s]
      /\ \A f \in Fds : f = sfd[s] => Closes(d, f)
    BY <1>2, <1>4 DEF StreamOK, Gives, Uses, Closes, Closing
<1>10. ASSUME NEW f \in Fds, owner[f] = s
       PROVE  \E c \in InFlight(s)' : Gives(c, f) \/ Closes(c, f)
    <2>1. CASE sfd[s] = f
        BY <1>7, <1>9, <2>1
    <2>2. CASE sfd[s] # f
        <3>1. PICK c \in InFlight(s) : Closes(c, f)
            BY <1>2, <1>9, <1>10, <2>2 DEF StreamOK, Gives
        <3>2. c \notin X
            BY <3>1 DEF Closes, Closing
        <3> QED BY <1>7, <3>1, <3>2
    <2> QED BY <2>1, <2>2
<1>11. StreamOK(s)'
    BY <1>4, <1>7, <1>8, <1>9, <1>10 DEF StreamOK, Gives, Closes, Closing
<1>12. ASSUME OwnStream(s) PROVE OwnStream(s)'
    <2>1. CASE interrupted'[s]
        BY <2>1 DEF OwnStream
    <2>2. CASE ~interrupted'[s]
        <3>1. InFlight(s)' = {d} /\ ~interrupted[s]
            BY <1>7, <1>8, <2>2
        <3>2. \A f \in Fds : Gives(d, f) \/ Uses(d, f) => owner[f] = s
            BY <1>9, <1>12, <3>1 DEF OwnStream
        <3> QED BY <1>8, <3>1, <3>2 DEF OwnStream, Gives, Uses, Closes, Closing
    <2> QED BY <2>1, <2>2
<1> QED BY <1>6, <1>11, <1>12, StreamStep

\* destroy(), while the calls of X are answered.
LEMMA DestroyingStep ==
    ASSUME IInv, NEW s \in Streams, NEW X, X \subseteq InFlight(s), Destroying(s, X),
           \A c \in X : c.sys \in {"lseek", "read"}, made[s],
           UNCHANGED <<owner, offset, strays>>, UNCHANGED operations,
           UNCHANGED <<made, pos, onOpen>>
    PROVE  IInv'
<1> USE Numbers
<1>1. StreamTypes /\ StreamOK(s)
    BY StreamNow
<1>2. /\ destroyed' = [destroyed EXCEPT ![s] = TRUE]
      /\ early' = [early EXCEPT ![s] = early[s] \/ IsOpening(s)]
    BY DEF Destroying
<1>3. /\ destroyed' \in [Streams -> BOOLEAN] /\ early' \in [Streams -> BOOLEAN]
      /\ \A t \in Streams \ {s} : destroyed'[t] = destroyed[t] /\ early'[t] = early[t]
      /\ onOpen' \in [Streams -> Seq({"read", "close"})]
      /\ destroyed'[s] /\ early'[s] = (early[s] \/ IsOpening(s))
    BY <1>1, <1>2 DEF StreamTypes, IsOpening
<1>4. CASE ~destroyed[s] /\ sfd[s] # NullFd
    <2>1. Closing(s, X)
        BY <1>3, <1>4 DEF Closing, Destroying
    <2> QED BY <2>1, CloseNowStep
<1>5. CASE destroyed[s] \/ sfd[s] = NullFd
    <2>1. calls' = calls \ X /\ UNCHANGED <<closed, sfd, interrupted>>
        BY <1>5 DEF Destroying
    <2>2. StreamTypes'
        BY <1>1, <1>3, <2>1 DEF StreamTypes
    <2>3. StreamTurn(s, X, {})
        BY <1>3, <2>1, <2>2 DEF StreamTurn
    <2>4. InFlight(s)' = InFlight(s) \ X
        BY <2>3, TurnInFlight
    <2>5. \A f \in Fds : sfd[s] = f => early[s]
        BY <1>1, <1>5 DEF StreamOK
    <2>6. \A c \in InFlight(s) : c.sys = "open" => IsOpening(s)
        BY DEF IsOpening
    <2>7. \A c \in X, f \in Fds : ~Gives(c, f) /\ ~Closes(c, f)
        BY DEF Gives, Closes
    <2>8. StreamOK(s)'
        <3>1. \A f \in Fds : owner'[f] = s =>
                sfd'[s] = f \/ \E c \in InFlight(s)' : Gives(c, f) \/ Closes(c, f)
            BY <1>1, <2>1, <2>4, <2>7 DEF StreamOK
        <3>2. \A c \in InFlight(s)' : c.sys = "open" =>
                /\ InFlight(s)' = {c} /\ sfd'[s] = NullFd /\ ~interrupted'[s] /\ ~closed'[s]
                /\ early'[s]
            BY <1>1, <1>3, <2>1, <2>4, <2>6 DEF StreamOK
        <3>3. sfd'[s] \in Fds => sfd'[s] # ProgramFd /\ ~closed'[s] /\ early'[s]
            BY <1>1, <1>3, <2>1, <2>5 DEF StreamOK
        <3> QED BY <3>1, <3>2, <3>3 DEF StreamOK, Gives, Closes
    <2>9. OwnStream(s) => OwnStream(s)'
        <3>1. \A f \in Fds : \A c \in InFlight(s)' :
                Closes(c, f) /\ InFlight(s) = {c} => InFlight(s)' = {c}
            BY <2>4
        <3>2. InFlight(s)' \subseteq InFlight(s) /\ UNCHANGED <<owner, sfd, interrupted>>
            BY <2>1, <2>4
        <3>3. ASSUME OwnStream(s), ~interrupted[s] PROVE OwnStream(s)'
            <4>1. \A f \in Fds : sfd'[s] = f => owner'[f] = s
                BY <3>2, <3>3 DEF OwnStream
            <4>2. ASSUME NEW c \in InFlight(s)', NEW f \in Fds
                  PROVE  /\ Gives(c, f) \/ Uses(c, f) => owner'[f] = s
                         /\ Closes(c, f) => sfd'[s] = NullFd /\ InFlight(s)' = {c}
                BY <3>1, <3>2, <3>3 DEF OwnStream
            <4> QED BY <4>1, <4>2 DEF OwnStream, Gives, Uses, Closes
        <3> QED BY <3>2, <3>3 DEF OwnStream
    <2> QED BY <2>3, <2>8, <2>9, StreamStep
<1> QED BY <1>4, <1>5

LEMMA DestroyStep ==
    ASSUME IInv, NEW s \in Streams, Destroy(s), UNCHANGED operations PROVE IInv'
<1>1. /\ Destroying(s, {}) /\ made[s] /\ UNCHANGED <<owner, offset, strays>>
      /\ UNCHANGED <<made, pos, onOpen>>
    BY DEF Destroy, state
<1> QED BY <1>1, DestroyingStep

LEMMA CloseStep ==
    ASSUME IInv, NEW s \in Streams, Close(s), UNCHANGED operations PROVE IInv'
<1> USE Numbers
<1>1. /\ made[s] /\ UNCHANGED <<owner, offset, strays>>
      /\ UNCHANGED <<made, pos, destroyed, early>>
    BY DEF Close
<1>2. StreamTypes
    BY StreamNow
<1>3. CASE sfd[s] = NullFd
    <2>1. UNCHANGED <<calls, closed, sfd, interrupted>> /\ Once(s, "close")
        BY <1>3 DEF Close
    <2>2. onOpen[s] \in Seq({"read", "close"})
        BY <1>2 DEF StreamTypes
    <2>3. Append(onOpen[s], "close") \in Seq({"read", "close"})
        BY <2>2
    <2>4. onOpen' = onOpen \/ onOpen' = [onOpen EXCEPT ![s] = Append(onOpen[s], "close")]
        BY <2>1 DEF Once
    <2>5. onOpen' \in [Streams -> Seq({"read", "close"})]
        BY <1>2, <2>3, <2>4 DEF StreamTypes
    <2>6. StreamTypes'
        BY <1>1, <1>2, <2>1, <2>5 DEF StreamTypes
    <2>7. StreamTurn(s, {}, {})
        BY <1>1, <2>1, <2>6 DEF StreamTurn
    <2>8. Resting(s)
        BY <1>1, <2>1 DEF Resting, InFlight
    <2> QED BY <2>7, <2>8, QuietStep
<1>4. CASE sfd[s] # NullFd
    <2>1. CloseNow(s, {}) /\ UNCHANGED onOpen
        BY <1>4 DEF Close
    <2>2. /\ onOpen' \in [Streams -> Seq({"read", "close"})]
          /\ destroyed' \in [Streams -> BOOLEAN] /\ early' \in [Streams -> BOOLEAN]
          /\ \A t \in Streams \ {s} : destroyed'[t] = destroyed[t] /\ early'[t] = early[t]
        BY <1>1, <1>2, <2>1 DEF StreamTypes
    <2>3. Closing(s, {})
        BY <1>1, <1>4, <2>1, <2>2 DEF Closing
    <2> QED BY <2>3, CloseNowStep
<1> QED BY <1>3, <1>4

\* The step of a callback of stream s.
StreamCallback(s, c) ==
    /\ c \in InFlight(s) /\ c.res # Waiting
    /\ UNCHANGED <<made, start>> /\ UNCHANGED operations

\* The callback of c does not touch what the stream knows of its descriptor; if it
\* makes calls, then a read of the same descriptor after a lseek.
Later(s, c, N) ==
    /\ StreamCallback(s, c) /\ c.sys # "open" /\ Answered(c, N)
    /\ UNCHANGED <<sfd, pos, destroyed, closed, onOpen, early, interrupted>>
    /\ \A d \in N : /\ d \in ACall /\ d.by = s /\ d.sys = "read" /\ d.fd = c.fd
                    /\ c.sys = "lseek"

LEMMA LaterStep ==
    ASSUME IInv, NEW s \in Streams, NEW c, NEW N, Later(s, c, N)
    PROVE  IInv'
<1> USE Numbers
<1>1. /\ c \in InFlight(s) /\ c.res # Waiting /\ c.sys # "open" /\ calls' = (calls \ {c}) \cup N
      /\ UNCHANGED <<owner, offset, strays, made>> /\ UNCHANGED operations
      /\ UNCHANGED <<sfd, pos, destroyed, closed, onOpen, early, interrupted>>
    BY DEF Later, StreamCallback, Answered
<1>2. \A d \in N : /\ d \in ACall /\ d.by = s /\ d.sys = "read" /\ d.fd = c.fd
                   /\ c.sys = "lseek"
    BY DEF Later
<1>3. StreamTypes /\ StreamOK(s) /\ c.fd # ProgramFd
    BY <1>1, StreamNow
<1>4. StreamTypes'
    BY <1>1, <1>3 DEF StreamTypes
<1>5. StreamTurn(s, {c}, N)
    BY <1>1, <1>2, <1>3, <1>4 DEF StreamTurn
<1>6. InFlight(s)' = (InFlight(s) \ {c}) \cup N
    BY <1>5, TurnInFlight
<1>7. \A f \in Fds : ~Gives(c, f) /\ ~Closes(c, f)
    BY <1>1 DEF Gives, Closes
<1>8. StreamOK(s)'
    <2>1. \A d \in InFlight(s) : d.sys # "open"
        BY <1>1, <1>3 DEF StreamOK
    <2>2. \A d \in InFlight(s)' : d.sys # "open"
        BY <1>2, <1>6, <2>1
    <2>3. \A f \in Fds : owner'[f] = s =>
            sfd'[s] = f \/ \E d \in InFlight(s)' : Gives(d, f) \/ Closes(d, f)
        BY <1>1, <1>3, <1>6, <1>7 DEF StreamOK
    <2>4. made'[s]
        BY <1>1, <1>3 DEF StreamOK
    <2> QED BY <1>1, <1>3, <2>2, <2>3, <2>4 DEF StreamOK, Gives, Closes
<1>9. ASSUME OwnStream(s), ~interrupted[s] PROVE OwnStream(s)'
    <2>1. ASSUME NEW d \in InFlight(s)', NEW f \in Fds, Gives(d, f) \/ Uses(d, f)
          PROVE  owner[f] = s
        <3>1. CASE d \in InFlight(s)
            BY <1>9, <2>1, <3>1 DEF OwnStream
        <3>2. CASE d \in N
            <4>1. Uses(c, f)
                BY <1>2, <2>1, <3>2 DEF Gives, Uses, Closes
            <4> QED BY <1>1, <1>9, <4>1 DEF OwnStream
        <3> QED BY <1>6, <3>1, <3>2
    <2>2. ASSUME NEW d \in InFlight(s)', NEW f \in Fds PROVE ~Closes(d, f)
        <3>1. CASE d \in InFlight(s) /\ d # c
            BY <1>1, <1>9, <3>1 DEF OwnStream
        <3>2. CASE d \in N
            BY <1>2, <3>2 DEF Closes
        <3> QED BY <1>6, <3>1, <3>2
    <2>3. \A f \in Fds : sfd'[s] = f => owner'[f] = s
        BY <1>1, <1>9 DEF OwnStream
    <2> QED BY <1>1, <2>1, <2>2, <2>3 DEF OwnStream, Gives, Uses, Closes
<1>10. OwnStream(s) => OwnStream(s)'
    BY <1>1, <1>9 DEF OwnStream
<1> QED BY <1>5, <1>8, <1>10, StreamStep

LEMMA StreamSeeksStep ==
    ASSUME IInv, NEW s \in Streams, NEW c, StreamCallback(s, c), StreamSeeks(s, c)
    PROVE  IInv'
<1> USE Names
<1>1. c \in InFlight(s) /\ c.fd \in Handles
    BY StreamNow DEF StreamCallback, ACall
<1>2. LET d == Ask(s, "read", c.fd, 0)
      IN  d \in ACall /\ d.by = s /\ d.sys = "read" /\ d.fd = c.fd
    BY <1>1, StreamCall
<1>3. Later(s, c, {Ask(s, "read", c.fd, 0)})
    <2>1. c.by = s
        BY <1>1 DEF InFlight
    <2> QED BY <1>2, <2>1 DEF Later, StreamSeeks, flags, state
<1> QED BY <1>3, LaterStep

LEMMA StreamReadsStep ==
    ASSUME IInv, NEW s \in Streams, NEW c, StreamCallback(s, c), StreamReads(s, c)
    PROVE  IInv'
<1>1. Later(s, c, {})
    BY DEF Later, StreamReads, flags
<1> QED BY <1>1, LaterStep

LEMMA StreamClosesStep ==
    ASSUME IInv, NEW s \in Streams, NEW c, StreamCallback(s, c), StreamCloses(s, c)
    PROVE  IInv'
<1>1. Later(s, c, {})
    BY DEF Later, StreamCloses, flags, state
<1> QED BY <1>1, LaterStep

LEMMA StreamReadFailsStep ==
    ASSUME IInv, NEW s \in Streams, NEW c, StreamCallback(s, c), StreamReadFails(s, c)
    PROVE  IInv'
<1>1. /\ {c} \subseteq InFlight(s) /\ Destroying(s, {c}) /\ \A d \in {c} : d.sys \in {"lseek", "read"}
      /\ UNCHANGED <<owner, offset, strays>> /\ UNCHANGED operations
      /\ UNCHANGED <<made, pos, onOpen>>
    BY DEF StreamCallback, StreamReadFails, state
<1>2. made[s]
    BY StreamNow DEF StreamOK, StreamCallback
<1> QED BY <1>1, <1>2, DestroyingStep

-----------------------------------------------------------------------------
(* The open of a stream returns.                                           *)

LEMMA CountNat ==
    ASSUME NEW s \in Streams, NEW what, StreamTypes
    PROVE  Count(s, what) \in Nat
<1>1. Len(onOpen[s]) \in Nat
    BY DEF StreamTypes
<1>2. IsFiniteSet(1 .. Len(onOpen[s]))
    BY <1>1, FS_Interval
<1>3. IsFiniteSet({i \in 1 .. Len(onOpen[s]) : onOpen[s][i] = what})
    BY <1>2, FS_Subset
<1> QED BY <1>3, FS_CardinalityType DEF Count

\* The calls of the handlers of 'open' that close descriptor f.
LEMMA ClosesOfHandlers ==
    ASSUME NEW s \in Streams, NEW f \in Handles, StreamTypes
    PROVE  /\ \A d \in CloseCalls(s, f) :
                /\ d \in ACall /\ d.by = s /\ d.sys = "close" /\ d.fd = f /\ d.res = Waiting
           /\ Count(s, "close") = 0 => CloseCalls(s, f) = {}
           /\ Count(s, "close") > 0 => CloseCalls(s, f) # {}
           /\ Count(s, "close") = 1 => \A d \in CloseCalls(s, f) : CloseCalls(s, f) = {d}
<1> DEFINE k == Count(s, "close")
<1>1. k \in Nat
    BY CountNat
<1>2. CloseCalls(s, f) = {CallOf(s, "close", f, 0, n) : n \in 1 .. k}
    BY DEF CloseCalls
<1> HIDE DEF k
<1>3. \A d \in CloseCalls(s, f) : \E n \in Nat : d = CallOf(s, "close", f, 0, n)
    BY <1>1, <1>2
<1>4. s \in Actors /\ "close" \in Sys /\ 0 \in Int
    BY Names DEF Sys
<1>5. \A d \in CloseCalls(s, f) :
        /\ d \in ACall /\ d.by = s /\ d.sys = "close" /\ d.fd = f /\ d.res = Waiting
    BY <1>3, <1>4, NewCall
<1>6. k = 0 => CloseCalls(s, f) = {}
    BY <1>2
<1>7. k > 0 => CloseCalls(s, f) # {}
    BY <1>1, <1>2
<1>8. k = 1 => CloseCalls(s, f) = {CallOf(s, "close", f, 0, 1)}
    BY <1>2
<1> QED BY <1>5, <1>6, <1>7, <1>8 DEF k

\* A stream whose open was executed: its one call, and what it knows.
LEMMA OpenReturns ==
    ASSUME IInv, NEW s \in Streams, NEW c \in InFlight(s), c.sys = "open"
    PROVE  /\ InFlight(s) = {c} /\ made[s] /\ sfd[s] = NullFd /\ ~interrupted[s] /\ ~closed[s]
           /\ destroyed[s] => early[s]
           /\ \A f \in Fds : owner[f] = s => c.res = f
           /\ c.res \notin {Failed, Waiting} => c.res \in Fds \ {ProgramFd}
<1>1. StreamOK(s) /\ CallOK(c)
    BY StreamNow
<1>2. InFlight(s) = {c} /\ sfd[s] = NullFd /\ made[s]
    BY <1>1 DEF StreamOK
<1>3. \A f \in Fds : owner[f] = s => c.res = f
    BY <1>1, <1>2, Numbers DEF StreamOK, Gives, Closes
<1> QED BY <1>1, <1>2, <1>3 DEF StreamOK, CallOK

LEMMA StreamOpenFailsStep ==
    ASSUME IInv, NEW s \in Streams, NEW c, StreamCallback(s, c), StreamOpenFails(s, c)
    PROVE  IInv'
<1> USE Numbers
<1> DEFINE N == CloseCalls(s, BadFd)
<1>1. /\ c \in InFlight(s) /\ c.sys = "open" /\ c.res = Failed /\ calls' = (calls \ {c}) \cup N
      /\ UNCHANGED <<owner, offset, strays, made>> /\ UNCHANGED operations
      /\ UNCHANGED <<pos, closed, early, interrupted>>
      /\ destroyed' = [destroyed EXCEPT ![s] = TRUE]
      /\ sfd' = [sfd EXCEPT ![s] = IF Count(s, "close") = 0 THEN BadFd ELSE NullFd]
      /\ onOpen' = [onOpen EXCEPT ![s] = <<>>]
    BY DEF StreamCallback, StreamOpenFails, Answered
<1>2. StreamTypes /\ InFlight(s) = {c} /\ ~interrupted[s] /\ ~closed[s] /\ made[s]
      /\ \A f \in Fds : owner[f] # s
    BY <1>1, StreamNow, OpenReturns
<1>3. \A d \in N : /\ d \in ACall /\ d.by = s /\ d.sys = "close" /\ d.fd = BadFd
                   /\ d.res = Waiting
    BY <1>2, ClosesOfHandlers
<1> HIDE DEF N
<1>4. StreamTypes'
    <2>1. onOpen' \in [Streams -> Seq({"read", "close"})]
        BY <1>1, <1>2 DEF StreamTypes
    <2>2. sfd' \in [Streams -> Handles] /\ destroyed' \in [Streams -> BOOLEAN]
        BY <1>1, <1>2 DEF StreamTypes
    <2> QED BY <1>1, <1>2, <2>1, <2>2 DEF StreamTypes
<1>5. sfd'[s] \notin Fds /\ \A t \in Streams \ {s} : sfd'[t] = sfd[t] /\ destroyed'[t] = destroyed[t]
    BY <1>1, <1>2 DEF StreamTypes
<1>6. StreamTurn(s, {c}, N)
    BY <1>1, <1>3, <1>4, <1>5 DEF StreamTurn
<1>7. InFlight(s)' = N
    BY <1>2, <1>6, TurnInFlight
<1>8. StreamOK(s)'
    BY <1>1, <1>2, <1>3, <1>5, <1>7 DEF StreamOK
<1>9. OwnStream(s)'
    <2>1. \A d \in N, f \in Fds : ~Gives(d, f) /\ ~Uses(d, f) /\ ~Closes(d, f)
        BY <1>3 DEF Gives, Uses, Closes
    <2> QED BY <1>5, <1>7, <2>1 DEF OwnStream, Gives, Uses, Closes
<1> QED BY <1>6, <1>8, <1>9, StreamStep

LEMMA StreamOpensStep ==
    ASSUME IInv, NEW s \in Streams, NEW c, StreamCallback(s, c), StreamOpens(s, c)
    PROVE  IInv'
<1> USE Numbers
<1> DEFINE k == Count(s, "close")
           reads == ~destroyed[s] /\ (k > 0 => onOpen[s][1] = "read")
           R == IF reads THEN {Reading(s, c.res)} ELSE {}
           C == CloseCalls(s, c.res)
<1>1. /\ c \in InFlight(s) /\ c.sys = "open" /\ c.res \notin {Failed, Waiting}
      /\ calls' = (calls \ {c}) \cup (C \cup R)
      /\ UNCHANGED <<owner, offset, strays, made>> /\ UNCHANGED operations
      /\ UNCHANGED <<destroyed, closed, early>>
      /\ pos' = IF reads THEN [pos EXCEPT ![s] = PosAfter(s)] ELSE pos
      /\ sfd' = [sfd EXCEPT ![s] = IF k = 0 THEN c.res ELSE NullFd]
      /\ interrupted' = [interrupted EXCEPT ![s] = k > 1 \/ (k = 1 /\ reads)]
      /\ onOpen' = [onOpen EXCEPT ![s] = <<>>]
    BY DEF StreamCallback, StreamOpens, Answered
<1>2. /\ StreamTypes /\ InFlight(s) = {c} /\ ~interrupted[s] /\ ~closed[s] /\ made[s]
      /\ c.res \in Fds \ {ProgramFd} /\ (destroyed[s] => early[s])
      /\ \A f \in Fds : owner[f] = s => c.res = f
    BY <1>1, StreamNow, OpenReturns
<1>3. k \in Nat /\ c.res \in Handles
    BY <1>2, CountNat
<1>4. /\ \A d \in C : /\ d \in ACall /\ d.by = s /\ d.sys = "close" /\ d.fd = c.res
                      /\ d.res = Waiting
      /\ k = 0 => C = {}
      /\ k > 0 => C # {}
      /\ k = 1 => \A d \in C : C = {d}
    BY <1>2, <1>3, ClosesOfHandlers
<1>5. /\ \A d \in R : /\ d \in ACall /\ d.by = s /\ d.sys \in {"lseek", "read"} /\ d.fd = c.res
                      /\ d.res = Waiting
      /\ R # {} => reads
    <2> DEFINE g == Reading(s, c.res)
    <2>1. g \in ACall /\ g.by = s /\ g.sys \in {"lseek", "read"} /\ g.fd = c.res
          /\ g.res = Waiting
        BY <1>2, <1>3, ReadingCall
    <2>2. R \subseteq {g} /\ (R # {} => reads)
        OBVIOUS
    <2> HIDE DEF g, R, reads
    <2> QED BY <2>1, <2>2
<1> HIDE DEF k, reads, R, C
<1>6. StreamTypes'
    <2>1. onOpen' \in [Streams -> Seq({"read", "close"})]
        BY <1>1, <1>2 DEF StreamTypes
    <2>2. sfd' \in [Streams -> Handles]
        BY <1>1, <1>2, <1>3 DEF StreamTypes
    <2>3. PosAfter(s) \in Int
        BY <1>2 DEF StreamTypes, PosAfter
    <2>4. pos' \in [Streams -> Int]
        BY <1>1, <1>2, <2>3 DEF StreamTypes
    <2>5. (k > 1 \/ (k = 1 /\ reads)) \in BOOLEAN
        BY <1>3
    <2>6. interrupted' \in [Streams -> BOOLEAN]
        BY <1>1, <1>2, <2>5 DEF StreamTypes
    <2> QED BY <1>1, <1>2, <2>1, <2>2, <2>4, <2>6 DEF StreamTypes
<1>7. /\ sfd'[s] = IF k = 0 THEN c.res ELSE NullFd
      /\ interrupted'[s] = (k > 1 \/ (k = 1 /\ reads))
      /\ \A t \in Streams \ {s} : sfd'[t] = sfd[t] /\ interrupted'[t] = interrupted[t]
    BY <1>1, <1>2 DEF StreamTypes
<1>8. \A d \in C \cup R : d \in ACall /\ d.by = s /\ d.sys # "open" /\ d.fd = c.res
                          /\ d.res = Waiting
    BY <1>4, <1>5
<1>9. StreamTurn(s, {c}, C \cup R)
    BY <1>1, <1>2, <1>6, <1>7, <1>8 DEF StreamTurn
<1>10. InFlight(s)' = C \cup R
    BY <1>2, <1>9, TurnInFlight
<1>11. StreamOK(s)'
    <2>1. ASSUME NEW f \in Fds, owner[f] = s
          PROVE  sfd'[s] = f \/ \E d \in InFlight(s)' : Closes(d, f)
        <3>1. c.res = f
            BY <1>2, <2>1
        <3>2. CASE k = 0
            BY <1>7, <3>1, <3>2
        <3>3. CASE k # 0
            <4>1. PICK d \in C : d.sys = "close" /\ d.fd = f /\ d.res = Waiting
                BY <1>3, <1>4, <3>1, <3>3
            <4> QED BY <1>10, <4>1 DEF Closes
        <3> QED BY <3>2, <3>3
    <2>2. sfd'[s] \in Fds => sfd'[s] # ProgramFd
        BY <1>2, <1>7
    <2> QED BY <1>1, <1>2, <1>8, <1>10, <2>1, <2>2 DEF StreamOK, Gives, Closes
<1>12. ASSUME OwnStream(s) PROVE OwnStream(s)'
    <2>1. owner[c.res] = s
        <3>1. Gives(c, c.res)
            BY <1>1 DEF Gives
        <3> QED BY <1>1, <1>2, <1>12, <3>1 DEF OwnStream
    <2>2. \A f \in Fds : sfd'[s] = f => owner[f] = s
        BY <1>7, <2>1
    <2>3. ASSUME NEW d \in InFlight(s)', NEW f \in Fds, Gives(d, f) \/ Uses(d, f)
          PROVE  owner[f] = s
        BY <1>8, <1>10, <2>1, <2>3 DEF Gives, Uses, Closes
    <2>4. ASSUME ~interrupted'[s], NEW d \in InFlight(s)', NEW f \in Fds, Closes(d, f)
          PROVE  sfd'[s] = NullFd /\ InFlight(s)' = {d}
        <3>1. d \in C
            BY <1>5, <1>10, <2>4 DEF Closes
        <3>2. k = 1 /\ ~reads
            <4>1. k # 0
                BY <1>4, <3>1
            <4>2. ~(k > 1) /\ ~(k = 1 /\ reads)
                BY <1>7, <2>4
            <4>3. k = 1
                BY <1>3, <4>1, <4>2
            <4> QED BY <4>2, <4>3
        <3> QED BY <1>4, <1>5, <1>7, <1>10, <3>1, <3>2
    <2> QED BY <1>1, <2>2, <2>3, <2>4 DEF OwnStream, Gives, Uses, Closes
<1> QED BY <1>9, <1>11, <1>12, StreamStep

-----------------------------------------------------------------------------
(* The theorems.                                                           *)

LEMMA InitOK == Init => IInv
<1> SUFFICES ASSUME Init PROVE IInv
    OBVIOUS
<1> USE Numbers, Names
<1>1. /\ calls = {} /\ strays = {} /\ offset = [f \in Fds |-> 0]
      /\ owner = [f \in Fds |-> IF f = ProgramFd THEN Program ELSE Nobody]
    BY DEF Init, FilesInit
<1>2. \A a : InFlight(a) = {}
    BY <1>1 DEF InFlight
<1>3. \A f \in Fds : owner[f] \notin Actors /\ (owner[f] = Program <=> f = ProgramFd)
    BY <1>1
<1>4. TypeOK
    <2>1. /\ calls \subseteq ACall /\ strays \subseteq Actors
          /\ owner \in [Fds -> Owners] /\ offset \in [Fds -> Int]
        BY <1>1 DEF Owners
    <2>2. /\ kind \in [Operations -> Kinds \cup {"none", "close"}]
          /\ position \in [Operations -> Int]
          /\ callbacks \in [Operations -> Nat] /\ result \in [Operations -> {"none", "error", "ok"}]
          /\ failed \in [Operations -> Sys \cup {"none"}]
        BY DEF Init, OpsInit
    <2>3. <<>> \in Seq({"read", "close"})
        OBVIOUS
    <2>4. StreamTypes
        BY <2>3 DEF Init, StreamInit, StreamTypes
    <2> QED BY <2>1, <2>2, <2>4 DEF TypeOK, StreamTypes
<1>5. TableOK
    BY <1>1, <1>3 DEF TableOK
<1>6. ASSUME NEW o \in Operations PROVE OperationOK(o) /\ OwnOperation(o)
    <2>1. kind[o] = "none" /\ callbacks[o] = 0 /\ failed[o] = "none"
        BY DEF Init, OpsInit
    <2> QED BY <1>2, <1>3, <2>1 DEF OperationOK, OwnOperation
<1>7. ASSUME NEW s \in Streams PROVE StreamOK(s) /\ OwnStream(s)
    <2>1. ~made[s] /\ sfd[s] = NullFd /\ ~destroyed[s] /\ ~closed[s] /\ ~interrupted[s]
        BY DEF Init, StreamInit
    <2> QED BY <1>2, <1>3, <2>1 DEF StreamOK, OwnStream
<1> QED BY <1>1, <1>4, <1>5, <1>6, <1>7 DEF IInv, OwnOK

LEMMA CallbacksStep ==
    ASSUME IInv, NEW c \in calls, Callbacks(c), UNCHANGED streams PROVE IInv'
<1>1. OperationCallback(c)
    BY DEF Callbacks, Executed, OperationCallback
<1>2. CASE AfterOpenFails(c)
    BY <1>1, <1>2, AfterOpenFailsStep
<1>3. CASE AfterOpen(c)
    BY <1>1, <1>3, AfterOpenStep
<1>4. CASE AfterSeek(c)
    BY <1>1, <1>4, AfterSeekStep
<1>5. CASE AfterReadFails(c)
    BY <1>1, <1>5, AfterReadFailsStep
<1>6. CASE AfterRead(c)
    BY <1>1, <1>6, AfterReadStep
<1>7. CASE AfterWrite(c)
    BY <1>1, <1>7, AfterWriteStep
<1>8. CASE AfterClose(c)
    BY <1>1, <1>8, AfterCloseStep
<1> QED BY <1>2, <1>3, <1>4, <1>5, <1>6, <1>7, <1>8 DEF Callbacks

LEMMA StreamCallbacksStep ==
    ASSUME IInv, NEW c \in calls, StreamCallbacks(c), UNCHANGED operations PROVE IInv'
<1> DEFINE s == c.by
<1>1. s \in Streams /\ StreamCallback(s, c)
    BY DEF StreamCallbacks, StreamCallback, Executed, InFlight
<1>2. CASE StreamOpenFails(s, c)
    BY <1>1, <1>2, StreamOpenFailsStep
<1>3. CASE StreamOpens(s, c)
    BY <1>1, <1>3, StreamOpensStep
<1>4. CASE StreamSeeks(s, c)
    BY <1>1, <1>4, StreamSeeksStep
<1>5. CASE StreamReads(s, c)
    BY <1>1, <1>5, StreamReadsStep
<1>6. CASE StreamReadFails(s, c)
    BY <1>1, <1>6, StreamReadFailsStep
<1>7. CASE StreamCloses(s, c)
    BY <1>1, <1>7, StreamClosesStep
<1> QED BY <1>2, <1>3, <1>4, <1>5, <1>6, <1>7 DEF StreamCallbacks

LEMMA CallsStep ==
    ASSUME IInv, Calls, UNCHANGED streams PROVE IInv'
<1>1. PICK o \in Operations :
        \/ \E k \in Opening : CallOpening(o, k)
        \/ \E at \in 0 .. Size : CallRead(o, at)
        \/ CallClose(o)
    BY DEF Calls
<1> QED BY <1>1, CallOpeningStep, CallReadStep, CallCloseStep

LEMMA StreamProgramStep ==
    ASSUME IInv, StreamProgram, UNCHANGED operations PROVE IInv'
<1>1. PICK s \in Streams :
        \/ \E at \in {-1, 0, 1} : Create(s, at)
        \/ Read(s) \/ Destroy(s) \/ Close(s)
    BY DEF StreamProgram
<1> QED BY <1>1, CreateStep, ReadStep, DestroyStep, CloseStep

LEMMA StutterStep == IInv /\ UNCHANGED vars => IInv'
<1> SUFFICES ASSUME IInv, UNCHANGED vars PROVE IInv'
    OBVIOUS
<1>1. UNCHANGED files /\ UNCHANGED operations /\ UNCHANGED streams
    BY DEF vars
<1>2. \A a : InFlight(a)' = InFlight(a)
    BY <1>1 DEF InFlight, files
<1>3. \A o \in Operations : Unchanging(o)
    BY <1>1, <1>2 DEF Unchanging, operations
<1>4. \A s \in Streams : Resting(s)
    BY <1>1, <1>2 DEF Resting, streams, flags
<1>5. owner' = owner
    BY <1>1 DEF files
<1>6. \A o \in Operations : OperationOK(o)' /\ (OwnOperation(o) => OwnOperation(o)')
    BY <1>3, <1>5, UnchangingOK DEF IInv
<1>7. \A s \in Streams : StreamOK(s)' /\ (OwnStream(s) => OwnStream(s)')
    BY <1>4, <1>5, RestingOK DEF IInv
<1>8. TypeOK' /\ TableOK'
    BY <1>1 DEF IInv, TypeOK, TableOK, CallOK, files, operations, streams, flags, state
<1>9. OwnOK'
    BY <1>1, <1>6, <1>7 DEF IInv, OwnOK, Stray, files, streams
<1> QED BY <1>6, <1>7, <1>8, <1>9 DEF IInv

\* The invariant is inductive: whatever the pool, the kernel and the program do, every
\* descriptor of an operation or a stream is known to be used or to be closed.
THEOREM Invariance == Spec => []IInv
<1>1. IInv /\ [Next]_vars => IInv'
    <2> SUFFICES ASSUME IInv, [Next]_vars PROVE IInv'
        OBVIOUS
    <2>1. ASSUME NEW c \in calls, Execute(c), UNCHANGED <<operations, streams>> PROVE IInv'
        BY <2>1, ExecuteStep
    <2>2. ASSUME NEW c \in calls, Callbacks(c), UNCHANGED streams PROVE IInv'
        BY <2>2, CallbacksStep
    <2>3. ASSUME NEW c \in calls, StreamCallbacks(c), UNCHANGED operations PROVE IInv'
        BY <2>3, StreamCallbacksStep
    <2>4. CASE Calls /\ UNCHANGED streams
        BY <2>4, CallsStep
    <2>5. CASE StreamProgram /\ UNCHANGED operations
        BY <2>5, StreamProgramStep
    <2>6. CASE UNCHANGED vars
        BY <2>6, StutterStep
    <2> QED BY <2>1, <2>2, <2>3, <2>4, <2>5, <2>6 DEF Next, Pool
<1> QED BY InitOK, <1>1, PTL DEF Spec

\* No operation of fs.ts uses a descriptor that another opened, unless a stream was
\* closed with a read or another close of it under way.
THEOREM OwnDescriptorsAlways == Spec => []OwnDescriptors
<1>1. IInv => OwnDescriptors
    BY DEF IInv, OwnOK, Stray, OwnDescriptors
<1> QED BY <1>1, Invariance, PTL

\* Every function and stream that is over has closed its descriptor, except where
\* fs.ts forgets it: failed reads and writes, and destroy() before the open returned.
THEOREM NothingLeaksAlways == Spec => []NothingLeaks
<1>1. IInv => NothingLeaks
    <2> SUFFICES ASSUME IInv, NEW a \in Actors, Over(a), a \in Streams => ~early[a],
                        NEW f \in Fds, owner[f] = a
                 PROVE  FALSE
        BY DEF NothingLeaks
    <2>1. CASE a \in Streams
        <3>1. sfd[a] = f
            BY <2>1 DEF IInv, StreamOK, Over
        <3> QED BY <2>1, <3>1 DEF IInv, StreamOK, Over
    <2>2. CASE a \notin Streams
        <3>1. Keeps(a, f)
            BY <2>2, Names DEF IInv, OperationOK
        <3> QED BY <2>2, <3>1 DEF Keeps, Over
    <2> QED BY <2>1, <2>2
<1> QED BY <1>1, Invariance, PTL

\* No function of fs.ts calls its callback twice, but open() when it fails.
THEOREM AnsweredOnceAlways == Spec => []AnsweredOnce
<1>1. IInv => AnsweredOnce
    BY DEF IInv, OperationOK, AnsweredOnce
<1> QED BY <1>1, Invariance, PTL

-----------------------------------------------------------------------------
(* The bytes that are read.                                                *)

\* Another chunk behind those of a file from `first` on.
LEMMA InPlaceGrows ==
    ASSUME NEW q \in Seq(AChunk), NEW a, NEW first \in Int, InPlace(q, a, first),
           NEW x \in AChunk, x = [of |-> a, at |-> first + Len(q)]
    PROVE  /\ Append(q, x) \in Seq(AChunk) /\ Len(Append(q, x)) = Len(q) + 1
           /\ InPlace(Append(q, x), a, first)
<1>1. Append(q, x) \in Seq(AChunk) /\ Len(Append(q, x)) = Len(q) + 1 /\ Len(q) \in Nat
    OBVIOUS
<1>2. ASSUME NEW i \in 1 .. Len(q) + 1
      PROVE  Append(q, x)[i] = [of |-> a, at |-> first + i - 1]
    <2>1. CASE i = Len(q) + 1
        <3>1. Append(q, x)[i] = x
            BY <2>1
        <3>2. first + i - 1 = first + Len(q)
            BY <1>1, <2>1
        <3> QED BY <3>1, <3>2
    <2>2. CASE i # Len(q) + 1
        <3>1. i \in 1 .. Len(q)
            BY <1>1, <2>2
        <3>2. Append(q, x)[i] = q[i]
            BY <3>1
        <3> QED BY <3>1, <3>2 DEF InPlace
    <2> QED BY <2>1, <2>2
<1> QED BY <1>1, <1>2 DEF InPlace

\* Chunks in their places that end where the part ends are the part.
LEMMA InPlaceIsPart ==
    ASSUME NEW q \in Seq(AChunk), NEW a, NEW first \in Int, NEW last \in Int,
           InPlace(q, a, first),
           Len(q) = last - first + 1 \/ (Len(q) = 0 /\ last < first)
    PROVE  q = Part(a, first, last)
<1>1. Len(q) \in Nat /\ DOMAIN q = 1 .. Len(q) /\ q = [i \in 1 .. Len(q) |-> q[i]]
    OBVIOUS
<1>2. 1 .. last - first + 1 = 1 .. Len(q)
    BY <1>1
<1>3. \A i \in 1 .. Len(q) : q[i] = [of |-> a, at |-> first + i - 1]
    BY DEF InPlace
<1>4. Part(a, first, last) = [i \in 1 .. Len(q) |-> [of |-> a, at |-> first + i - 1]]
    BY <1>2 DEF Part
<1> QED BY <1>1, <1>3, <1>4

\* What the kernel does with call c, which becomes e, in full.
Kernel(c, e) ==
    \/ e.res = Failed /\ UNCHANGED <<owner, offset>>
    \/ /\ c.sys = "open" /\ e.res \in Fds /\ owner[e.res] = Nobody
       /\ owner' = [owner EXCEPT ![e.res] = c.by] /\ offset' = [offset EXCEPT ![e.res] = 0]
    \/ /\ c.sys = "read" /\ c.fd \in Fds /\ offset[c.fd] < Size
       /\ e.res = 1 /\ e.data = [of |-> owner[c.fd], at |-> offset[c.fd]]
       /\ owner' = owner /\ offset' = [offset EXCEPT ![c.fd] = offset[c.fd] + 1]
    \/ /\ c.sys = "read" /\ c.fd \in Fds /\ offset[c.fd] >= Size
       /\ e.res = 0 /\ UNCHANGED <<owner, offset>>
    \/ /\ c.sys = "lseek" /\ c.fd \in Fds
       /\ e.res = c.at /\ owner' = owner /\ offset' = [offset EXCEPT ![c.fd] = c.at]
    \/ c.sys = "write" /\ UNCHANGED <<owner, offset>>
    \/ /\ c.sys = "close" /\ c.fd \in Fds
       /\ owner' = [owner EXCEPT ![c.fd] = Nobody] /\ offset' = offset

LEMMA KernelSteps ==
    ASSUME IInv, NEW c \in calls, Execute(c)
    PROVE  /\ c.res = Waiting /\ c \in ACall
           /\ \E e : /\ e \in ACall /\ e.by = c.by /\ e.sys = c.sys /\ e.fd = c.fd /\ e.at = c.at
                     /\ calls' = (calls \ {c}) \cup {e} /\ Kernel(c, e)
           /\ strays' = {} => strays = {} /\ (c.sys # "open" /\ c.fd \in Fds =>
                                                  owner[c.fd] \in {c.by, Program})
<1> USE Numbers, Names
<1>1. c \in ACall /\ c.sys \in Sys /\ c.fd \in Handles /\ c.at \in Int /\ c.by \in Actors
      /\ c.res = Waiting
    BY DEF IInv, TypeOK, ACall, Execute
<1>2. owner \in [Fds -> Owners] /\ offset \in [Fds -> Int]
    BY DEF IInv, TypeOK
<1>3. strays' = {} => strays = {} /\ (c.sys # "open" /\ c.fd \in Fds =>
                                            owner[c.fd] \in {c.by, Program})
    BY DEF Execute
<1>4. NoData \in [of : Owners, at : Int]
    BY DEF NoData, Owners
<1> DEFINE New(e) ==
        /\ e \in ACall /\ e.by = c.by /\ e.sys = c.sys /\ e.fd = c.fd /\ e.at = c.at
        /\ calls' = (calls \ {c}) \cup {e}
<1>5. ASSUME NEW r \in Int, NEW x \in [of : Owners, at : Int], Returns(c, r, x)
      PROVE  /\ New(WithResult(c, r, x)) /\ WithResult(c, r, x).res = r
             /\ WithResult(c, r, x).data = x
    <2>1. calls' = (calls \ {c}) \cup {WithResult(c, r, x)}
        BY <1>5 DEF Returns, WithResult
    <2>2. WithResult(c, r, x).at = c.at /\ WithResult(c, r, x).data = x
        BY <1>1 DEF WithResult, ACall
    <2> QED BY <1>1, <2>1, <2>2, ReturnedCall
<1>6. \E e : New(e) /\ Kernel(c, e)
    <2>1. CASE Fails(c)
        <3>1. New(WithResult(c, Failed, NoData)) /\ WithResult(c, Failed, NoData).res = Failed
            BY <1>4, <1>5, <2>1 DEF Fails
        <3>2. Kernel(c, WithResult(c, Failed, NoData))
            BY <2>1, <3>1 DEF Kernel, Fails
        <3> QED BY <3>1, <3>2
    <2>2. CASE c.sys = "open" /\ ~Fails(c)
        <3>1. PICK f \in Free : /\ owner' = [owner EXCEPT ![f] = c.by]
                                /\ offset' = [offset EXCEPT ![f] = 0]
                                /\ Returns(c, f, NoData)
            BY <2>2 DEF Execute, ExecuteOpen, Fails
        <3>2. f \in Fds /\ f \in Int /\ owner[f] = Nobody
            BY DEF Free
        <3>3. New(WithResult(c, f, NoData)) /\ WithResult(c, f, NoData).res = f
            BY <1>4, <1>5, <3>1, <3>2
        <3>4. Kernel(c, WithResult(c, f, NoData))
            BY <2>2, <3>1, <3>2, <3>3 DEF Kernel
        <3> QED BY <3>3, <3>4
    <2>3. CASE c.sys # "open" /\ ~Fails(c)
        <3>1. c.fd \in Fds /\ OnDescriptor(c)
            BY <2>3 DEF Execute
        <3>2. CASE c.sys = "read" /\ ExecuteRead(c) /\ offset[c.fd] < Size
            <4> DEFINE x == [of |-> owner[c.fd], at |-> offset[c.fd]]
            <4>1. x \in [of : Owners, at : Int]
                BY <1>2, <3>1
            <4>2. /\ Returns(c, 1, x) /\ owner' = owner
                  /\ offset' = [offset EXCEPT ![c.fd] = offset[c.fd] + 1]
                BY <3>2 DEF ExecuteRead
            <4>3. /\ New(WithResult(c, 1, x)) /\ WithResult(c, 1, x).res = 1
                  /\ WithResult(c, 1, x).data = x
                BY <1>5, <4>1, <4>2
            <4>4. Kernel(c, WithResult(c, 1, x))
                BY <3>1, <3>2, <4>2, <4>3 DEF Kernel
            <4> QED BY <4>3, <4>4
        <3>3. CASE c.sys = "read" /\ ExecuteRead(c) /\ ~(offset[c.fd] < Size)
            <4>0. offset[c.fd] >= Size
                <5>1. offset[c.fd] \in Int
                    BY <1>2, <3>1
                <5> QED BY <3>3, <5>1
            <4>1. Returns(c, 0, NoData) /\ UNCHANGED <<owner, offset>>
                BY <3>3, Zenon DEF ExecuteRead
            <4>2. New(WithResult(c, 0, NoData)) /\ WithResult(c, 0, NoData).res = 0
                BY <1>4, <1>5, <4>1
            <4>3. Kernel(c, WithResult(c, 0, NoData))
                BY <3>1, <3>3, <4>0, <4>1, <4>2 DEF Kernel
            <4> QED BY <4>2, <4>3
        <3>4. CASE c.sys = "write" /\ Returns(c, 1, NoData) /\ UNCHANGED <<owner, offset>>
            <4>1. New(WithResult(c, 1, NoData))
                BY <1>4, <1>5, <3>4
            <4>2. Kernel(c, WithResult(c, 1, NoData))
                BY <3>4 DEF Kernel
            <4> QED BY <4>1, <4>2
        <3>5. CASE c.sys = "lseek" /\ ExecuteSeek(c)
            <4>1. Returns(c, c.at, NoData) /\ owner' = owner
                  /\ offset' = [offset EXCEPT ![c.fd] = c.at]
                BY <3>5 DEF ExecuteSeek
            <4>2. New(WithResult(c, c.at, NoData)) /\ WithResult(c, c.at, NoData).res = c.at
                BY <1>1, <1>4, <1>5, <4>1
            <4>3. Kernel(c, WithResult(c, c.at, NoData))
                BY <3>1, <3>5, <4>1, <4>2 DEF Kernel
            <4> QED BY <4>2, <4>3
        <3>6. CASE c.sys = "close" /\ ExecuteClose(c)
            <4>1. Returns(c, 0, NoData) /\ offset' = offset
                  /\ owner' = [owner EXCEPT ![c.fd] = Nobody]
                BY <3>6 DEF ExecuteClose
            <4>2. New(WithResult(c, 0, NoData))
                BY <1>4, <1>5, <4>1
            <4>3. Kernel(c, WithResult(c, 0, NoData))
                BY <3>1, <3>6, <4>1 DEF Kernel
            <4> QED BY <4>2, <4>3
        <3> QED BY <2>3, <3>1, <3>2, <3>3, <3>4, <3>5, <3>6 DEF OnDescriptor
    <2> QED BY <2>1, <2>2, <2>3
<1> QED BY <1>1, <1>3, <1>6

\* Nobody else moved a descriptor of actor a, or gave it one.
Untouched(a) == \A f \in Fds : owner'[f] = a => owner[f] = a /\ offset'[f] = offset[f]

LEMMA ChainKept ==
    ASSUME NEW c, NEW n, Untouched(c.by), ChainOK(c, n)
    PROVE  ChainOK(c, n)'
<1>1. ASSUME NEW f, NEW k, AtChunk(c.by, f, k) PROVE AtChunk(c.by, f, k)'
    BY <1>1 DEF AtChunk, Untouched
<1> QED BY <1>1 DEF ChainOK, Gives

\* The part of an actor that a step does not concern is preserved.
LEMMA ReaderKept ==
    ASSUME NEW o \in Operations, Untouched(o), InFlight(o)' = InFlight(o),
           kind'[o] = kind[o], got'[o] = got[o], result'[o] = result[o], ReaderOK(o)
    PROVE  ReaderOK(o)'
<1>1. \A c \in InFlight(o) : c.by = o
    BY DEF InFlight
<1>2. ASSUME NEW c \in InFlight(o), ChainOK(c, Len(got[o])) PROVE ChainOK(c, Len(got[o]))'
    <2>1. PICK n : n = Len(got[o])
        OBVIOUS
    <2>2. ChainOK(c, n)'
        BY <1>1, <1>2, <2>1, ChainKept
    <2> QED BY <2>1, <2>2
<1> QED BY <1>2 DEF ReaderOK

LEMMA StreamKept ==
    ASSUME NEW s \in Streams, Untouched(s), InFlight(s)' = InFlight(s),
           made'[s] = made[s], sfd'[s] = sfd[s], pos'[s] = pos[s], start'[s] = start[s],
           reading'[s] = reading[s], ended'[s] = ended[s], pushed'[s] = pushed[s],
           StreamReadsOK(s)
    PROVE  StreamReadsOK(s)'
<1>1. \A c \in InFlight(s) : c.by = s
    BY DEF InFlight
<1>2. First(s)' = First(s) /\ LastOf(s)' = LastOf(s) /\ NextChunk(s)' = NextChunk(s)
    BY DEF First, LastOf, NextChunk
<1>3. BeginsOK(s)' /\ PushedOK(s)'
    BY <1>2 DEF StreamReadsOK, BeginsOK, PushedOK
<1>4. IdleOK(s)'
    BY <1>2 DEF StreamReadsOK, IdleOK, AtChunk, Untouched
<1>5. ASSUME NEW c \in InFlight(s) PROVE ReadingOK(s, c)'
    <2>1. ReadingOK(s, c)
        BY DEF StreamReadsOK
    <2>2. ChainOK(c, NextChunk(s))'
        BY <1>1, <1>2, <2>1, ChainKept DEF ReadingOK
    <2> QED BY <1>2, <2>1, <2>2 DEF ReadingOK
<1> QED BY <1>3, <1>4, <1>5 DEF StreamReadsOK

\* What the kernel does to the descriptors of others, and to the caller's own if it
\* neither opens nor seeks nor reads.
LEMMA KernelUntouched ==
    ASSUME IInv, NEW c \in calls, NEW e, Kernel(c, e),
           c.sys # "open" /\ c.fd \in Fds => owner[c.fd] \in {c.by, Program}
    PROVE  /\ \A a \in Actors \ {c.by} : Untouched(a)
           /\ c.sys \notin {"open", "lseek", "read"} => Untouched(c.by)
<1> USE Names
<1>1. owner \in [Fds -> Owners] /\ offset \in [Fds -> Int] /\ c.by \in Actors
    BY DEF IInv, TypeOK, ACall
<1>2. ASSUME NEW a \in Actors, a # c.by \/ c.sys \notin {"open", "lseek", "read"},
             NEW f \in Fds, owner'[f] = a
      PROVE  owner[f] = a /\ offset'[f] = offset[f]
    <2>1. CASE UNCHANGED <<owner, offset>>
        BY <1>2, <2>1
    <2>2. CASE c.sys = "open" /\ e.res \in Fds /\ owner' = [owner EXCEPT ![e.res] = c.by]
               /\ offset' = [offset EXCEPT ![e.res] = 0]
        BY <1>1, <1>2, <2>2
    <2>3. CASE c.sys = "read" /\ c.fd \in Fds /\ owner' = owner
               /\ offset' = [offset EXCEPT ![c.fd] = offset[c.fd] + 1]
        BY <1>1, <1>2, <2>3
    <2>4. CASE c.sys = "lseek" /\ c.fd \in Fds /\ owner' = owner
               /\ offset' = [offset EXCEPT ![c.fd] = c.at]
        BY <1>1, <1>2, <2>4
    <2>5. CASE c.sys = "close" /\ c.fd \in Fds /\ owner' = [owner EXCEPT ![c.fd] = Nobody]
               /\ offset' = offset
        BY <1>1, <1>2, <2>5
    <2> QED BY <2>1, <2>2, <2>3, <2>4, <2>5 DEF Kernel
<1> QED BY <1>1, <1>2 DEF Untouched

\* A call of a chain is executed.
LEMMA KernelChain ==
    ASSUME IInv, NEW c \in calls, c.res = Waiting, NEW e \in ACall, Kernel(c, e),
           e.by = c.by, e.sys = c.sys, e.fd = c.fd, e.at = c.at,
           c.sys # "open" /\ c.fd \in Fds => owner[c.fd] = c.by,
           NEW n \in Nat, ChainOK(c, n)
    PROVE  ChainOK(e, n)'
<1> USE Numbers, Names
<1>1. owner \in [Fds -> Owners] /\ offset \in [Fds -> Int] /\ c.by \in Actors
    BY DEF IInv, TypeOK, ACall
<1>2. CASE c.sys = "open"
    <2>1. e.res = Failed \/ (e.res \in Fds /\ offset' = [offset EXCEPT ![e.res] = 0])
        BY <1>2 DEF Kernel
    <2>2. \A f \in Fds : Gives(e, f) => AtChunk(e.by, f, 0)'
        BY <1>1, <2>1 DEF Gives, AtChunk
    <2> QED BY <1>2, <2>2 DEF ChainOK
<1>3. CASE c.sys = "lseek"
    <2>1. c.at = n
        BY <1>3 DEF ChainOK
    <2>2. e.res = Failed \/ (c.fd \in Fds /\ offset' = [offset EXCEPT ![c.fd] = n])
        BY <1>3, <2>1 DEF Kernel
    <2>3. e.res # Failed => AtChunk(e.by, e.fd, n)'
        BY <1>1, <2>2 DEF AtChunk
    <2> QED BY <1>3, <2>1, <2>3 DEF ChainOK
<1>4. CASE c.sys = "read"
    <2>1. AtChunk(c.by, c.fd, n)
        BY <1>4 DEF ChainOK
    <2>2. c.fd \in Fds => offset[c.fd] = n /\ owner[c.fd] = c.by
        BY <1>4, <2>1 DEF AtChunk
    <2>3. CASE e.res = Failed
        BY <1>4, <2>3 DEF ChainOK, Waiting, Failed
    <2>4. CASE /\ c.fd \in Fds /\ offset[c.fd] < Size
               /\ e.res = 1 /\ e.data = [of |-> owner[c.fd], at |-> offset[c.fd]]
               /\ owner' = owner /\ offset' = [offset EXCEPT ![c.fd] = offset[c.fd] + 1]
        <3>1. n < Size /\ e.data = [of |-> e.by, at |-> n] /\ AtChunk(e.by, e.fd, n + 1)'
            BY <1>1, <2>2, <2>4 DEF AtChunk
        <3>2. e.res = 1 /\ e.res # Waiting /\ e.res # 0
            BY <2>4 DEF Waiting
        <3> QED BY <1>4, <3>1, <3>2 DEF ChainOK
    <2>5. CASE c.fd \in Fds /\ offset[c.fd] >= Size /\ e.res = 0
        BY <1>4, <2>2, <2>5 DEF ChainOK, Waiting
    <2> QED BY <1>4, <2>3, <2>4, <2>5 DEF Kernel
<1> QED BY <1>2, <1>3, <1>4 DEF ChainOK

\* A thread executes c, which becomes e.
Executes(c, e) ==
    /\ c \in calls /\ c \in ACall /\ c.res = Waiting
    /\ e \in ACall /\ e.by = c.by /\ e.sys = c.sys /\ e.fd = c.fd /\ e.at = c.at
    /\ calls' = (calls \ {c}) \cup {e} /\ Kernel(c, e)
    /\ UNCHANGED <<operations, streams>>

LEMMA ExecutesInFlight ==
    ASSUME NEW c, NEW e, Executes(c, e)
    PROVE  /\ c \in InFlight(c.by) /\ InFlight(c.by)' = (InFlight(c.by) \ {c}) \cup {e}
           /\ \A a : a # c.by => InFlight(a)' = InFlight(a)
BY DEF Executes, InFlight

\* Only the one operation that reads from the program's descriptor moves it.
LEMMA ExecutePosition ==
    ASSUME IInv, NEW c, NEW e, Executes(c, e), NEW o \in Operations, PositionOK(o),
           \A p \in Operations : PositionOK(p)
    PROVE  PositionOK(o)'
<1> USE Numbers, Names
<1>1. /\ c \in InFlight(c.by) /\ InFlight(c.by)' = (InFlight(c.by) \ {c}) \cup {e}
      /\ \A a : a # c.by => InFlight(a)' = InFlight(a)
    BY ExecutesInFlight
<1>2. /\ e.sys = c.sys /\ e.at = c.at /\ Kernel(c, e) /\ c.res = Waiting /\ c \in calls
      /\ UNCHANGED <<kind, position, got, callbacks, disturbed>>
    BY DEF Executes, operations
<1>3. /\ owner \in [Fds -> Owners] /\ offset \in [Fds -> Int] /\ owner[ProgramFd] = Program
    BY DEF IInv, TypeOK, TableOK
<1>4. Reads' = Reads
    BY <1>2 DEF Reads
<1>5. ASSUME NEW p \in Operations, kind[p] = "read", NEW d \in InFlight(p)
      PROVE  d.sys \in {"lseek", "read"} /\ d.fd = ProgramFd /\ InFlight(p) = {d} /\ p \in Reads
    <2>1. Fits(p, d) /\ InFlight(p) = {d} /\ (d.sys # "close" => callbacks[p] = 0)
        BY DEF IInv, OperationOK
    <2>2. d.sys \in {"lseek", "read"} /\ d.fd = ProgramFd
        BY <1>5, <2>1 DEF Fits, Opening, Kinds, Readers
    <2> QED BY <1>5, <2>1, <2>2 DEF Reads
<1>6. CASE c.fd = ProgramFd /\ c.sys # "open"
    <2>1. c.by \in Operations /\ kind[c.by] = "read"
        BY <1>2, <1>6 DEF IInv, TableOK, CallOK
    <2>2. c.sys \in {"lseek", "read"} /\ InFlight(c.by) = {c} /\ c.by \in Reads
        BY <1>1, <1>5, <2>1
    <2>3. CASE o # c.by
        <3>1. kind[o] = "read" /\ ~disturbed[o] => o \notin Reads
            BY <2>2, <2>3 DEF PositionOK, AtPosition
        <3>2. kind[o] = "read" /\ ~disturbed[o] => InFlight(o) = {}
            BY <1>5, <3>1
        <3> QED BY <1>1, <1>2, <1>4, <2>3, <3>1, <3>2 DEF PositionOK, AtPosition
    <2>4. CASE o = c.by
        <3> SUFFICES ASSUME ~disturbed[o], position[o] # 0
                     PROVE  /\ e.sys = "lseek" => e.at = position[o]
                            /\ Sought(e) => offset'[ProgramFd] = position[o]
                            /\ e.sys = "read" /\ e.res > 0 => e.data.at = position[o]
            BY <1>1, <1>2, <1>4, <2>1, <2>2, <2>4 DEF PositionOK, AtPosition, Sought
        <3>1. /\ c.sys = "lseek" => c.at = position[o]
              /\ c.sys = "read" => offset[ProgramFd] = position[o]
            BY <1>1, <1>2, <2>1, <2>4 DEF PositionOK, AtPosition, Sought
        <3>2. CASE c.sys = "lseek"
            <4>1. e.res = Failed \/ offset' = [offset EXCEPT ![ProgramFd] = position[o]]
                BY <1>2, <1>6, <3>1, <3>2 DEF Kernel
            <4> QED BY <1>2, <1>3, <3>1, <3>2, <4>1 DEF Sought
        <3>3. CASE c.sys = "read"
            <4>1. \/ e.res = Failed \/ e.res = 0
                  \/ e.res = 1 /\ e.data = [of |-> owner[c.fd], at |-> offset[c.fd]]
                BY <1>2, <3>3 DEF Kernel
            <4>2. ~Sought(e)
                BY <1>2, <3>3, <4>1 DEF Sought, Waiting, Failed
            <4>3. e.res > 0 => e.data.at = position[o]
                BY <1>6, <3>1, <3>3, <4>1 DEF Failed
            <4> QED BY <1>2, <3>3, <4>2, <4>3
        <3> QED BY <2>2, <3>2, <3>3
    <2> QED BY <2>3, <2>4
<1>7. CASE ~(c.fd = ProgramFd /\ c.sys # "open")
    <2>1. offset'[ProgramFd] = offset[ProgramFd]
        <3>1. CASE c.sys = "open"
            BY <1>2, <1>3, <3>1 DEF Kernel
        <3>2. CASE c.sys # "open"
            BY <1>2, <1>3, <1>7, <3>2 DEF Kernel
        <3> QED BY <3>1, <3>2
    <2>2. CASE o # c.by
        BY <1>1, <1>2, <1>4, <2>1, <2>2 DEF PositionOK, AtPosition
    <2>3. CASE o = c.by
        <3>1. kind[o] # "read"
            BY <1>1, <1>5, <1>7, <2>3
        <3> QED BY <1>2, <3>1 DEF PositionOK, AtPosition
    <2> QED BY <2>2, <2>3
<1> QED BY <1>6, <1>7

\* What readFile and readdir have goes on with the offset of their descriptor.
LEMMA ExecuteReader ==
    ASSUME IInv, NEW c, NEW e, Executes(c, e), NEW o \in Operations, ReaderOK(o),
           BytesTypes,
           c.sys # "open" /\ c.fd \in Fds => owner[c.fd] \in {c.by, Program}
    PROVE  ReaderOK(o)'
<1> USE Numbers, Names
<1>1. /\ c \in InFlight(c.by) /\ InFlight(c.by)' = (InFlight(c.by) \ {c}) \cup {e}
      /\ \A a : a # c.by => InFlight(a)' = InFlight(a)
    BY ExecutesInFlight
<1>2. /\ c \in calls /\ e \in ACall /\ Kernel(c, e) /\ c.res = Waiting /\ UNCHANGED <<kind, got, result>>
      /\ e.by = c.by /\ e.sys = c.sys /\ e.fd = c.fd /\ e.at = c.at
    BY DEF Executes, operations
<1>3. CASE o # c.by
    <2>1. Untouched(o)
        BY <1>2, <1>3, KernelUntouched
    <2> QED BY <1>1, <1>2, <1>3, <2>1, ReaderKept
<1>4. CASE o = c.by /\ kind[o] \in Readers
    <2>1. c.fd # ProgramFd
        BY <1>2, <1>4 DEF IInv, TableOK, CallOK, Readers
    <2>2. c.sys # "open" /\ c.fd \in Fds => owner[c.fd] = c.by
        BY <2>1 DEF IInv, TableOK
    <2>3. PICK n \in Nat : n = Len(got[o])
        BY DEF BytesTypes
    <2>4. ChainOK(c, n) /\ (c.sys = "open" => got[o] = <<>>)
        BY <1>1, <1>4, <2>3 DEF ReaderOK
    <2>5. ChainOK(e, n)'
        BY <1>2, <2>2, <2>4, KernelChain
    <2>6. InFlight(o)' = {e}
        BY <1>1, <1>4 DEF IInv, OperationOK
    <2> QED BY <1>2, <2>3, <2>4, <2>5, <2>6 DEF ReaderOK
<1>5. CASE o = c.by /\ kind[o] \notin Readers
    BY <1>2, <1>5 DEF ReaderOK
<1> QED BY <1>3, <1>4, <1>5

LEMMA StreamNumbers ==
    ASSUME BytesTypes, NEW s \in Streams, BeginsOK(s)
    PROVE  /\ start[s] \in Int /\ pushed[s] \in Seq(AChunk) /\ Len(pushed[s]) \in Nat
           /\ First(s) \in Nat /\ NextChunk(s) \in Nat /\ NextChunk(s) = First(s) + Len(pushed[s])
<1>1. start[s] \in Int /\ start[s] >= -1 /\ pushed[s] \in Seq(AChunk)
    BY DEF BytesTypes, BeginsOK
<1>2. First(s) \in Nat
    BY <1>1 DEF First
<1>3. Len(pushed[s]) \in Nat
    BY <1>1
<1> QED BY <1>1, <1>2, <1>3 DEF NextChunk

\* What a stream has goes on with the offset of its descriptor.
LEMMA ExecuteStream ==
    ASSUME IInv, NEW c, NEW e, Executes(c, e), NEW s \in Streams, StreamReadsOK(s),
           BytesTypes,
           c.sys # "open" /\ c.fd \in Fds => owner[c.fd] \in {c.by, Program}
    PROVE  StreamReadsOK(s)'
<1> USE Numbers, Names
<1>1. /\ c \in InFlight(c.by) /\ InFlight(c.by)' = (InFlight(c.by) \ {c}) \cup {e}
      /\ \A a : a # c.by => InFlight(a)' = InFlight(a)
    BY ExecutesInFlight
<1>2. /\ c \in calls /\ e \in ACall /\ Kernel(c, e) /\ c.res = Waiting
      /\ e.by = c.by /\ e.sys = c.sys /\ e.fd = c.fd /\ e.at = c.at
      /\ UNCHANGED <<made, sfd, pos, start, reading, ended, pushed>>
    BY DEF Executes, streams, state
<1>3. CASE s # c.by
    <2>1. Untouched(s)
        BY <1>2, <1>3, KernelUntouched
    <2> QED BY <1>1, <1>2, <1>3, <2>1, StreamKept
<1>4. CASE s = c.by
    <2>1. First(s)' = First(s) /\ LastOf(s)' = LastOf(s) /\ NextChunk(s)' = NextChunk(s)
        BY <1>2 DEF First, LastOf, NextChunk
    <2>2. BeginsOK(s)' /\ PushedOK(s)'
        BY <1>2, <2>1 DEF StreamReadsOK, BeginsOK, PushedOK
    <2>3. ReadingOK(s, c) /\ StreamOK(s)
        BY <1>1, <1>4 DEF StreamReadsOK, IInv
    <2>4. c.sys = "open" => InFlight(s) = {c} /\ sfd[s] = NullFd
        BY <1>1, <1>4, <2>3 DEF StreamOK
    <2>5. c.sys \notin {"open", "lseek", "read"} => Untouched(s)
        BY <1>2, <1>4, KernelUntouched
    <2>6. IdleOK(s)'
        <3>1. CASE c.sys = "open" \/ Seeks(c)
            BY <1>2, <2>3, <2>4, <3>1 DEF IdleOK, ReadingOK
        <3>2. CASE ~(c.sys = "open" \/ Seeks(c))
            BY <1>2, <2>1, <2>5, <3>2 DEF StreamReadsOK, IdleOK, AtChunk, Untouched, Seeks
        <3> QED BY <3>1, <3>2
    <2>7. ReadingOK(s, e)'
        <3>1. c.fd # ProgramFd
            BY <1>2, <1>4 DEF IInv, TableOK, CallOK
        <3>2. c.sys # "open" /\ c.fd \in Fds => owner[c.fd] = c.by
            BY <3>1 DEF IInv, TableOK
        <3>3. PICK n \in Nat : n = NextChunk(s)
            BY StreamNumbers DEF StreamReadsOK
        <3>4. ChainOK(e, n)'
            BY <1>2, <2>3, <3>2, <3>3, KernelChain DEF ReadingOK
        <3>5. Seeks(e) => \A d \in InFlight(s)' : Seeks(d) => d = e
            BY <1>1, <1>2, <1>4, <2>3 DEF ReadingOK, Seeks
        <3> QED BY <1>2, <2>1, <2>3, <3>3, <3>4, <3>5 DEF ReadingOK, Seeks
    <2>8. ASSUME NEW d \in InFlight(s), d # c PROVE ReadingOK(s, d)'
        <3>1. ReadingOK(s, d) /\ d.by = s /\ c.sys # "open" /\ d.sys # "open"
            BY <1>1, <1>4, <2>3, <2>4, <2>8 DEF StreamReadsOK, StreamOK, InFlight
        <3>2. CASE Seeks(c)
            <4>1. ~Seeks(d)
                BY <2>3, <2>8, <3>2 DEF ReadingOK
            <4> QED BY <3>1, <4>1 DEF ReadingOK, ChainOK, Seeks
        <3>3. CASE ~Seeks(c)
            <4>1. ChainOK(d, NextChunk(s))'
                BY <2>1, <2>5, <3>1, <3>3, ChainKept DEF ReadingOK, Seeks
            <4>2. Seeks(d) => \A x \in InFlight(s)' : Seeks(x) => x = d
                BY <1>1, <1>2, <1>4, <3>1, <3>3 DEF ReadingOK, Seeks
            <4> QED BY <1>2, <2>1, <3>1, <4>1, <4>2 DEF ReadingOK
        <3> QED BY <3>2, <3>3
    <2>9. \A d \in InFlight(s)' : d = e \/ (d \in InFlight(s) /\ d # c)
        BY <1>1, <1>4
    <2> QED BY <2>2, <2>6, <2>7, <2>8, <2>9 DEF StreamReadsOK
<1> QED BY <1>3, <1>4

LEMMA ExecuteBytes ==
    ASSUME IInv, BytesInv, NEW c \in calls, Execute(c), UNCHANGED <<operations, streams>>
    PROVE  BytesInv'
<1>1. PICK e : Executes(c, e)
    BY KernelSteps DEF Executes
<1>2. strays' = {} => strays = {} /\ (c.sys # "open" /\ c.fd \in Fds =>
                                          owner[c.fd] \in {c.by, Program})
    BY KernelSteps
<1>3. BytesTypes'
    BY DEF BytesInv, BytesTypes, operations, streams, state
<1>4. ASSUME NEW o \in Operations PROVE PositionOK(o)' /\ (kind[o] = "none" => got[o] = <<>>)'
    <2>1. PositionOK(o)'
        BY <1>1, ExecutePosition DEF BytesInv
    <2> QED BY <2>1 DEF BytesInv, operations
<1>5. ASSUME NEW o \in Operations, strays' = {} PROVE ReaderOK(o)'
    BY <1>1, <1>2, <1>5, ExecuteReader DEF BytesInv
<1>6. ASSUME NEW s \in Streams, strays' = {} PROVE StreamReadsOK(s)'
    BY <1>1, <1>2, <1>6, ExecuteStream DEF BytesInv
<1> QED BY <1>3, <1>4, <1>5, <1>6 DEF BytesInv

\* A step of operation o leaves the others, the streams and the descriptors alone.
OperationTurn(o, X, N) ==
    /\ X \subseteq InFlight(o) /\ calls' = (calls \ X) \cup N /\ (\A d \in N : d.by = o)
    /\ UNCHANGED <<owner, offset, strays>> /\ UNCHANGED streams
    /\ \A p \in Operations \ {o} :
        /\ kind'[p] = kind[p] /\ got'[p] = got[p] /\ result'[p] = result[p]
        /\ position'[p] = position[p] /\ callbacks'[p] = callbacks[p]
    /\ got' \in [Operations -> Seq(AChunk)] /\ disturbed' \in [Operations -> BOOLEAN]

LEMMA OperationBytes ==
    ASSUME IInv, BytesInv, NEW o \in Operations, NEW X, NEW N, OperationTurn(o, X, N),
           kind'[o] # "none", \A p \in Operations : PositionOK(p)',
           strays = {} => ReaderOK(o)'
    PROVE  BytesInv'
<1> USE Names
<1>1. \A a : a # o => InFlight(a)' = InFlight(a)
    <2>1. X \subseteq InFlight(o) /\ calls' = (calls \ X) \cup N /\ \A d \in N : d.by = o
        BY DEF OperationTurn
    <2> QED BY <2>1, InFlightSteps
<1>2. \A a : Untouched(a)
    BY DEF OperationTurn, Untouched
<1>3. BytesTypes'
    BY DEF OperationTurn, BytesInv, BytesTypes, streams, state
<1>4. \A p \in Operations : kind'[p] = "none" => got'[p] = <<>>
    BY DEF OperationTurn, BytesInv
<1>5. ASSUME NEW p \in Operations, strays = {} PROVE ReaderOK(p)'
    <2>1. CASE p # o
        <3>1. ReaderOK(p)
            BY <1>5 DEF BytesInv
        <3> QED BY <1>1, <1>2, <2>1, <3>1, ReaderKept DEF OperationTurn
    <2> QED BY <1>5, <2>1
<1>6. ASSUME NEW s \in Streams, strays = {} PROVE StreamReadsOK(s)'
    <2>1. StreamReadsOK(s)
        BY <1>6 DEF BytesInv
    <2>2. UNCHANGED <<made, sfd, pos, start, reading, ended, pushed>>
        BY DEF OperationTurn, streams, state
    <2>3. InFlight(s)' = InFlight(s)
        BY <1>1
    <2> QED BY <1>2, <2>1, <2>2, <2>3, StreamKept
<1>7. strays' = strays
    BY DEF OperationTurn
<1> QED BY <1>3, <1>4, <1>5, <1>6, <1>7 DEF BytesInv

LEMMA PositionKept ==
    ASSUME NEW p \in Operations, PositionOK(p), InFlight(p)' = InFlight(p),
           kind'[p] = kind[p], got'[p] = got[p], position'[p] = position[p],
           disturbed'[p] = disturbed[p], offset' = offset,
           p \in Reads' => p \in Reads /\ Reads' \subseteq Reads
    PROVE  PositionOK(p)'
<1>1. AtPosition(p) => AtPosition(p)'
    BY DEF AtPosition, Sought
<1> QED BY <1>1 DEF PositionOK

\* The callback of c makes the calls of N.
Goes(c, N) ==
    /\ Answered(c, N) /\ (\A d \in N : d.by = c.by)
    /\ \A p \in Operations \ {c.by} :
        got'[p] = got[p] /\ callbacks'[p] = callbacks[p] /\ result'[p] = result[p]
    /\ got' \in [Operations -> Seq(AChunk)]
    /\ callbacks'[c.by] = 0 => callbacks[c.by] = 0

LEMMA CallbackNow ==
    ASSUME IInv, NEW c, NEW N, OperationCallback(c), Goes(c, N)
    PROVE  /\ c \in ACall /\ InFlight(c.by) = {c} /\ InFlight(c.by)' = N /\ Fits(c.by, c)
           /\ kind' = kind /\ position' = position /\ offset' = offset /\ owner' = owner
           /\ kind[c.by] # "none"
<1>1. c \in calls /\ c.by \in Operations /\ c \in InFlight(c.by) /\ c \in ACall
    BY DEF OperationCallback, InFlight, IInv, TypeOK
<1>2. InFlight(c.by) = {c} /\ Fits(c.by, c) /\ kind[c.by] # "none"
    BY <1>1 DEF IInv, OperationOK
<1>3. InFlight(c.by)' = N
    BY <1>2 DEF Goes, Answered, InFlight
<1> QED BY <1>1, <1>2, <1>3 DEF OperationCallback, Goes, Answered

LEMMA CallbackBytes ==
    ASSUME IInv, BytesInv, NEW c, NEW N, OperationCallback(c), Goes(c, N),
           kind[c.by] = "read" /\ position[c.by] # 0 /\ AtPosition(c.by) => AtPosition(c.by)',
           kind[c.by] \in Readers /\ ReaderOK(c.by) => ReaderOK(c.by)'
    PROVE  BytesInv'
<1> USE Names
<1> DEFINE o == c.by
<1>1. /\ c \in InFlight(o) /\ kind[o] # "none" /\ o \in Operations
      /\ kind' = kind /\ position' = position /\ disturbed' = disturbed /\ offset' = offset
    BY CallbackNow DEF OperationCallback
<1>2. OperationTurn(o, {c}, N)
    BY <1>1 DEF OperationTurn, OperationCallback, Goes, Answered, BytesInv, BytesTypes
<1>3. Reads' \subseteq Reads
    BY <1>1 DEF Reads, Goes
<1>4. ASSUME NEW p \in Operations PROVE PositionOK(p)'
    <2>1. PositionOK(p)
        BY DEF BytesInv
    <2>2. CASE p # o
        <3>1. InFlight(p)' = InFlight(p)
            BY <1>2, <2>2, InFlightSteps DEF OperationTurn
        <3>2. got'[p] = got[p]
            BY <2>2 DEF Goes
        <3> QED BY <1>1, <1>3, <2>1, <3>1, <3>2, PositionKept
    <2>3. CASE p = o
        BY <1>1, <1>3, <2>1, <2>3 DEF PositionOK
    <2> QED BY <2>2, <2>3
<1>5. strays = {} => ReaderOK(o)'
    <2>1. kind[o] \notin Readers => ReaderOK(o)'
        BY <1>1 DEF ReaderOK
    <2>2. strays = {} => ReaderOK(o)
        BY <1>1 DEF BytesInv
    <2> QED BY <2>1, <2>2
<1>6. kind'[o] # "none"
    BY <1>1
<1> HIDE DEF o
<1> QED BY <1>1, <1>2, <1>4, <1>5, <1>6, OperationBytes

\* A callback that gives no chunk and does not say "ok".
LEMMA QuietCallback ==
    ASSUME IInv, BytesInv, NEW c, NEW N, OperationCallback(c), Goes(c, N),
           got' = got, kind[c.by] \in Readers => result'[c.by] \in {"error", result[c.by]},
           \A d \in N : d.sys \in {"close", "write"}
    PROVE  BytesInv'
<1>1. InFlight(c.by)' = N /\ kind' = kind /\ position' = position /\ kind[c.by] # "none"
    BY CallbackNow
<1>2. AtPosition(c.by) => AtPosition(c.by)'
    BY <1>1 DEF AtPosition, Sought
<1>3. \A d \in N : ChainOK(d, Len(got[c.by]))' /\ d.sys # "open"
    BY DEF ChainOK
<1>4. kind[c.by] \in Readers /\ ReaderOK(c.by) => ReaderOK(c.by)'
    BY <1>1, <1>3 DEF ReaderOK
<1> QED BY <1>2, <1>4, CallbackBytes

\* The fields of a call that goes on with a descriptor.
LEMMA AskFields ==
    \A a, sys, fd, at :
        /\ Ask(a, sys, fd, at).by = a /\ Ask(a, sys, fd, at).sys = sys
        /\ Ask(a, sys, fd, at).fd = fd /\ Ask(a, sys, fd, at).at = at
        /\ Ask(a, sys, fd, at).res = Waiting
BY DEF Ask, CallOf

\* A call to be made goes on where the descriptor is.
LEMMA AskChain ==
    ASSUME NEW a, NEW sys \in {"read", "close"}, NEW fd, NEW at, NEW n,
           sys = "read" => AtChunk(a, fd, n)'
    PROVE  ChainOK(Ask(a, sys, fd, at), n)'
BY AskFields DEF ChainOK, Waiting, Failed

LEMMA AfterOpenFailsBytes ==
    ASSUME IInv, BytesInv, NEW c, OperationCallback(c), AfterOpenFails(c) PROVE BytesInv'
<1> DEFINE o == c.by
<1>1. c \in calls /\ o \in Operations
    BY DEF OperationCallback
<1>2. /\ callbacks \in [Operations -> Nat] /\ result \in [Operations -> {"none", "error", "ok"}]
      /\ got \in [Operations -> Seq(AChunk)]
    BY DEF IInv, TypeOK, BytesInv, BytesTypes
<1>3. Goes(c, {}) /\ got' = got /\ result'[o] = "error"
    BY <1>1, <1>2 DEF AfterOpenFails, Goes, Callback
<1> QED BY <1>3, QuietCallback

LEMMA AfterReadFailsBytes ==
    ASSUME IInv, BytesInv, NEW c, OperationCallback(c), AfterReadFails(c) PROVE BytesInv'
<1> DEFINE o == c.by
<1>1. c \in calls /\ o \in Operations
    BY DEF OperationCallback
<1>2. /\ callbacks \in [Operations -> Nat] /\ result \in [Operations -> {"none", "error", "ok"}]
      /\ got \in [Operations -> Seq(AChunk)]
    BY DEF IInv, TypeOK, BytesInv, BytesTypes
<1>3. Goes(c, {}) /\ got' = got /\ result'[o] = "error"
    BY <1>1, <1>2 DEF AfterReadFails, Goes, Callback
<1> QED BY <1>3, QuietCallback

LEMMA AfterCloseBytes ==
    ASSUME IInv, BytesInv, NEW c, OperationCallback(c), AfterClose(c) PROVE BytesInv'
<1>1. got \in [Operations -> Seq(AChunk)]
    BY DEF BytesInv, BytesTypes
<1>2. Goes(c, {}) /\ got' = got /\ result' = result
    BY <1>1 DEF AfterClose, Goes, NoCallback
<1> QED BY <1>2, QuietCallback

LEMMA AfterWriteBytes ==
    ASSUME IInv, BytesInv, NEW c, OperationCallback(c), AfterWrite(c) PROVE BytesInv'
<1> DEFINE o == c.by  N == {Ask(c.by, "close", c.fd, 0)}
<1>1. c \in calls /\ o \in Operations
    BY DEF OperationCallback
<1>2. /\ callbacks \in [Operations -> Nat] /\ result \in [Operations -> {"none", "error", "ok"}]
      /\ got \in [Operations -> Seq(AChunk)]
    BY DEF IInv, TypeOK, BytesInv, BytesTypes
<1>3. \A d \in N : d.by = o /\ d.sys = "close"
    BY AskFields
<1>4. Goes(c, N) /\ got' = got
    BY <1>1, <1>2, <1>3 DEF AfterWrite, AfterWriteCloses, Goes, Callback
<1>5. kind[o] \notin Readers
    BY <1>4, CallbackNow DEF AfterWrite, Fits, Readers
<1> HIDE DEF N
<1> QED BY <1>3, <1>4, <1>5, QuietCallback

LEMMA AfterSeekBytes ==
    ASSUME IInv, BytesInv, NEW c, OperationCallback(c), AfterSeek(c) PROVE BytesInv'
<1> DEFINE o == c.by  N == {Ask(c.by, "read", c.fd, 0)}
<1>1. c \in calls /\ o \in Operations /\ c.res # Waiting
    BY DEF OperationCallback
<1>2. /\ callbacks \in [Operations -> Nat] /\ result \in [Operations -> {"none", "error", "ok"}]
      /\ got \in [Operations -> Seq(AChunk)]
    BY DEF IInv, TypeOK, BytesInv, BytesTypes
<1>3. CASE c.res = Failed
    <2>1. Goes(c, {}) /\ got' = got /\ result'[o] = "error"
        BY <1>1, <1>2, <1>3 DEF AfterSeek, Goes, Callback
    <2> QED BY <2>1, QuietCallback
<1>4. CASE c.res # Failed
    <2>1. \A d \in N : d.by = o /\ d.sys = "read"
        BY AskFields
    <2>2. Goes(c, N) /\ got' = got /\ result' = result
        BY <1>1, <1>2, <1>4, <2>1 DEF AfterSeek, Goes, NoCallback
    <2>3. /\ InFlight(o) = {c} /\ InFlight(o)' = N /\ position' = position /\ offset' = offset
          /\ kind[o] \notin Readers
        BY <2>2, CallbackNow DEF AfterSeek, Fits, Readers
    <2>4. ASSUME AtPosition(o) PROVE AtPosition(o)'
        <3>1. offset[ProgramFd] = position[o]
            BY <1>1, <1>4, <2>3, <2>4 DEF AtPosition, Sought, AfterSeek
        <3>2. \A d \in N : d.sys = "read" /\ d.res = Waiting
            BY AskFields
        <3> QED BY <2>2, <2>3, <2>4, <3>1, <3>2 DEF AtPosition, Waiting
    <2> HIDE DEF N
    <2> QED BY <2>2, <2>3, <2>4, CallbackBytes
<1> QED BY <1>3, <1>4

LEMMA AfterOpenBytes ==
    ASSUME IInv, BytesInv, NEW c, OperationCallback(c), AfterOpen(c) PROVE BytesInv'
<1> DEFINE o == c.by
<1>1. c \in calls /\ o \in Operations
    BY DEF OperationCallback
<1>2. /\ callbacks \in [Operations -> Nat] /\ result \in [Operations -> {"none", "error", "ok"}]
      /\ got \in [Operations -> Seq(AChunk)]
    BY DEF IInv, TypeOK, BytesInv, BytesTypes
<1>3. CASE kind[o] \in Readers /\ Answered(c, {Ask(o, "read", c.res, 0)}) /\ NoCallback
    <2> DEFINE N == {Ask(o, "read", c.res, 0)}
    <2>1. \A d \in N : d.by = o /\ d.sys = "read"
        BY AskFields
    <2>2. Goes(c, N) /\ got' = got /\ result' = result
        BY <1>2, <1>3, <2>1 DEF AfterOpen, Goes, NoCallback
    <2>3. InFlight(o) = {c} /\ InFlight(o)' = N /\ kind' = kind /\ owner' = owner /\ offset' = offset
        BY <2>2, CallbackNow
    <2>4. ASSUME ReaderOK(o) PROVE ReaderOK(o)'
        <3>1. got[o] = <<>> /\ \A f \in Fds : Gives(c, f) => AtChunk(o, f, 0)
            BY <1>3, <2>3, <2>4 DEF ReaderOK, ChainOK, AfterOpen
        <3>2. AtChunk(o, c.res, 0)'
            BY <2>3, <3>1 DEF AtChunk, Gives, AfterOpen
        <3>3. ChainOK(Ask(o, "read", c.res, 0), 0)'
            BY <3>2, AskChain
        <3>4. Len(got[o])' = 0 /\ got'[o] = got[o]
            BY <2>2, <3>1
        <3>5. \A d \in N : ChainOK(d, Len(got[o]))' /\ d.sys # "open"
            BY <2>1, <3>3, <3>4
        <3> HIDE DEF N
        <3> QED BY <2>2, <2>3, <2>4, <3>5 DEF ReaderOK
    <2>5. kind[o] # "read"
        BY <1>3 DEF Readers
    <2> HIDE DEF N
    <2> QED BY <2>2, <2>4, <2>5, CallbackBytes
<1>4. CASE kind[o] = "writeFile" /\ Answered(c, {Ask(o, "write", c.res, 0)}) /\ NoCallback
    <2>1. \A d \in {Ask(o, "write", c.res, 0)} : d.by = o /\ d.sys = "write"
        BY AskFields
    <2>2. Goes(c, {Ask(o, "write", c.res, 0)}) /\ got' = got /\ kind[o] \notin Readers
        BY <1>2, <1>4, <2>1 DEF AfterOpen, Goes, NoCallback, Readers
    <2> QED BY <2>1, <2>2, QuietCallback
<1>5. CASE kind[o] = "open" /\ Answered(c, {}) /\ Callback(o, 1, "ok")
    <2>1. Goes(c, {}) /\ got' = got /\ kind[o] \notin Readers
        BY <1>1, <1>2, <1>5 DEF AfterOpen, Goes, Callback, Readers
    <2> QED BY <2>1, QuietCallback
<1>6. CASE kind[o] = "appendFile" /\ Answered(c, {Ask(o, "close", c.res, 0)}) /\ NoCallback
    <2>1. \A d \in {Ask(o, "close", c.res, 0)} : d.by = o /\ d.sys = "close"
        BY AskFields
    <2>2. Goes(c, {Ask(o, "close", c.res, 0)}) /\ got' = got /\ kind[o] \notin Readers
        BY <1>2, <1>6, <2>1 DEF AfterOpen, Goes, NoCallback, Readers
    <2> QED BY <2>1, <2>2, QuietCallback
<1>7. CASE kind[o] = "appendFile" /\ Answered(c, {}) /\ NoCallback
    <2>1. Goes(c, {}) /\ got' = got /\ kind[o] \notin Readers
        BY <1>2, <1>7 DEF AfterOpen, Goes, NoCallback, Readers
    <2> QED BY <2>1, QuietCallback
<1> QED BY <1>3, <1>4, <1>5, <1>6, <1>7 DEF AfterOpen

LEMMA AfterReadBytes ==
    ASSUME IInv, BytesInv, NEW c, OperationCallback(c), AfterRead(c) PROVE BytesInv'
<1> USE Numbers, Names
<1> DEFINE o == c.by  N == IF kind[o] = "read" THEN {} ELSE {NextCall(c)}
<1>1. /\ c \in calls /\ o \in Operations /\ c.res # Waiting /\ c.res # Failed /\ c.sys = "read"
      /\ c.data \in AChunk /\ c.res \in Int /\ o \in Actors
    BY DEF OperationCallback, AfterRead, IInv, TypeOK, ACall, AChunk
<1>2. /\ callbacks \in [Operations -> Nat] /\ result \in [Operations -> {"none", "error", "ok"}]
      /\ got \in [Operations -> Seq(AChunk)]
    BY DEF IInv, TypeOK, BytesInv, BytesTypes
<1>3. Answered(c, N) /\ \A d \in N : d.by = o
    BY AskFields DEF AfterRead, NextCall
<1>4. got'= IF c.res > 0 THEN [got EXCEPT ![o] = Append(@, c.data)] ELSE got
    BY DEF AfterRead
<1>5. got' \in [Operations -> Seq(AChunk)]
    <2>1. Append(got[o], c.data) \in Seq(AChunk)
        BY <1>1, <1>2
    <2> QED BY <1>1, <1>2, <1>4, <2>1
<1>6. Goes(c, N)
    <2>1. \A p \in Operations \ {o} :
            got'[p] = got[p] /\ callbacks'[p] = callbacks[p] /\ result'[p] = result[p]
        BY <1>1, <1>2, <1>4 DEF AfterRead, Callback, NoCallback
    <2>2. callbacks'[o] = 0 => callbacks[o] = 0
        BY <1>1, <1>2 DEF AfterRead, Callback, NoCallback
    <2> QED BY <1>3, <1>5, <2>1, <2>2 DEF Goes
<1>7. /\ InFlight(o) = {c} /\ InFlight(o)' = N /\ Fits(o, c) /\ kind' = kind /\ owner' = owner
      /\ position' = position /\ offset' = offset
    BY <1>6, CallbackNow
<1>8. ASSUME kind[o] = "read", AtPosition(o) PROVE AtPosition(o)'
    <2>1. \A i \in 1 .. Len(got'[o]) : got'[o][i].at = position[o]
        <3>1. CASE c.res > 0
            <4>1. c.data.at = position[o]
                BY <1>1, <1>7, <1>8, <3>1 DEF AtPosition
            <4>2. got'[o] = Append(got[o], c.data) /\ got[o] \in Seq(AChunk)
                BY <1>1, <1>2, <1>4, <3>1
            <4>3. \A i \in 1 .. Len(got[o]) : got[o][i].at = position[o]
                BY <1>8 DEF AtPosition
            <4> QED BY <4>1, <4>2, <4>3
        <3>2. CASE ~(c.res > 0)
            BY <1>4, <1>8, <3>2 DEF AtPosition
        <3> QED BY <3>1, <3>2
    <2>2. N = {}
        BY <1>8
    <2> QED BY <1>7, <2>1, <2>2 DEF AtPosition
<1>9. ASSUME kind[o] \in Readers, ReaderOK(o) PROVE ReaderOK(o)'
    <2>1. PICK n \in Nat : n = Len(got[o])
        BY <1>1, <1>2
    <2>2. ChainOK(c, n) /\ InPlace(got[o], o, 0) /\ n <= Size /\ (result[o] = "ok" => n = Size)
        BY <1>7, <1>9, <2>1 DEF ReaderOK
    <2>3. kind[o] # "read"
        BY <1>9 DEF Readers
    <2>4. CASE c.res = 1
        <3>1. n < Size /\ c.data = [of |-> o, at |-> n] /\ AtChunk(o, c.fd, n + 1)
            BY <1>1, <2>2, <2>4 DEF ChainOK
        <3>2. got'[o] = Append(got[o], c.data) /\ got[o] \in Seq(AChunk)
            BY <1>1, <1>2, <1>4, <2>4
        <3>3. Len(got'[o]) = n + 1 /\ InPlace(got'[o], o, 0)
            <4>1. c.data = [of |-> o, at |-> 0 + Len(got[o])]
                BY <2>1, <3>1
            <4> QED BY <1>1, <2>1, <2>2, <3>2, <4>1, InPlaceGrows
        <3>4. result' = result
            BY <2>3, <2>4, AskFields DEF AfterRead, NextCall, NoCallback
        <3>5. N = {Ask(o, "read", c.fd, 0)}
            BY <2>3, <2>4 DEF NextCall
        <3>6. ChainOK(Ask(o, "read", c.fd, 0), n + 1)'
            <4>1. AtChunk(o, c.fd, n + 1)'
                BY <1>7, <3>1 DEF AtChunk
            <4> QED BY <4>1, AskChain
        <3>7. Ask(o, "read", c.fd, 0).sys # "open"
            BY AskFields
        <3>8. n + 1 <= Size /\ result[o] # "ok"
            BY <2>2, <3>1
        <3>9. InFlight(o)' = {Ask(o, "read", c.fd, 0)} /\ kind'[o] = kind[o] /\ result'[o] = result[o]
            BY <1>7, <3>4, <3>5
        <3> HIDE DEF N, o
        <3> QED BY <1>9, <3>3, <3>6, <3>7, <3>8, <3>9 DEF ReaderOK
    <2>5. CASE c.res = 0
        <3>1. n = Size /\ got' = got
            BY <1>1, <1>4, <2>2, <2>5 DEF ChainOK
        <3>2. N = {Ask(o, "close", c.fd, 0)}
            BY <2>3, <2>5 DEF NextCall
        <3>3. ChainOK(Ask(o, "close", c.fd, 0), n)'
            BY AskChain
        <3>4. Ask(o, "close", c.fd, 0).sys # "open"
            BY AskFields
        <3>5. InFlight(o)' = {Ask(o, "close", c.fd, 0)} /\ kind'[o] = kind[o] /\ got'[o] = got[o]
              /\ Len(got'[o]) = n
            BY <1>7, <2>1, <3>1, <3>2
        <3>6. kind'[o] # "none"
            BY <1>9, <3>5 DEF Readers
        <3> HIDE DEF N, o
        <3> QED BY <2>2, <3>1, <3>3, <3>4, <3>5, <3>6 DEF ReaderOK
    <2>6. c.res \in {0, 1}
        BY <1>1, <2>2 DEF ChainOK
    <2> QED BY <2>4, <2>5, <2>6
<1> HIDE DEF N
<1> QED BY <1>6, <1>8, <1>9, CallbackBytes

\* Operation o, which was not called yet, is called and makes the call d.
Starts(o, k, d) ==
    /\ o \in Operations /\ kind[o] = "none" /\ callbacks[o] = 0 /\ got[o] = <<>>
    /\ kind'[o] = k /\ got' = got /\ result' = result /\ callbacks' = callbacks
    /\ InFlight(o)' = {d} /\ OperationTurn(o, {}, {d})
    /\ \A p \in Operations \ {o} : InFlight(p)' = InFlight(p) /\ kind'[p] = kind[p]
    /\ strays = {} => result[o] # "ok"

LEMMA UnusedNow ==
    ASSUME IInv, BytesInv, NEW o, NEW k, NEW d, Call(o, k, d), d.by = o,
           disturbed' \in [Operations -> BOOLEAN], UNCHANGED streams, UNCHANGED <<owner, offset, strays>>,
           \A p \in Operations \ {o} : position'[p] = position[p]
    PROVE  Starts(o, k, d)
<1>1. o \in Operations /\ kind[o] = "none"
    BY DEF Call, Unused
<1>2. InFlight(o) = {} /\ callbacks[o] = 0 /\ got[o] = <<>>
    BY <1>1 DEF IInv, OperationOK, BytesInv
<1>3. kind \in [Operations -> Kinds \cup {"none", "close"}] /\ got \in [Operations -> Seq(AChunk)]
    BY DEF IInv, TypeOK, BytesInv, BytesTypes
<1>4. /\ kind' = [kind EXCEPT ![o] = k] /\ calls' = calls \cup {d}
      /\ got' = got /\ result' = result /\ callbacks' = callbacks
    BY DEF Call
<1>5. InFlight(o)' = {d} /\ \A p \in Operations \ {o} : InFlight(p)' = InFlight(p)
    BY <1>2, <1>4 DEF InFlight
<1>6. kind'[o] = k /\ \A p \in Operations \ {o} : kind'[p] = kind[p]
    BY <1>1, <1>3, <1>4
<1>7. strays = {} => result[o] # "ok"
    BY <1>1 DEF BytesInv, ReaderOK
<1>8. OperationTurn(o, {}, {d})
    BY <1>3, <1>4, <1>6 DEF OperationTurn
<1> QED BY <1>1, <1>2, <1>4, <1>5, <1>6, <1>7, <1>8 DEF Starts

LEMMA CallOpeningBytes ==
    ASSUME IInv, BytesInv, NEW o \in Operations, NEW k \in Opening, CallOpening(o, k), UNCHANGED streams
    PROVE  BytesInv'
<1> USE Numbers, Names
<1> DEFINE d == Ask(o, "open", 0, 0)
<1>1. Call(o, k, d) /\ d.by = o /\ UNCHANGED <<position, disturbed, owner, offset, strays>>
    BY AskFields DEF CallOpening, Call
<1>2. d.sys = "open" /\ d.res = Waiting
    BY AskFields
<1>3. disturbed' \in [Operations -> BOOLEAN]
    BY <1>1 DEF BytesInv, BytesTypes
<1> HIDE DEF d
<1>4. /\ kind[o] = "none" /\ callbacks[o] = 0 /\ got[o] = <<>>
      /\ kind'[o] = k /\ got' = got /\ result' = result /\ callbacks' = callbacks
      /\ InFlight(o)' = {d} /\ OperationTurn(o, {}, {d})
      /\ \A p \in Operations \ {o} : InFlight(p)' = InFlight(p) /\ kind'[p] = kind[p]
      /\ strays = {} => result[o] # "ok"
    <2>1. Starts(o, k, d)
        BY <1>1, <1>3, UnusedNow
    <2> QED BY <2>1 DEF Starts
<1>5. k # "none" /\ k # "read"
    BY DEF Opening, Kinds
<1>6. Reads' = Reads
    BY <1>4, <1>5 DEF Reads
<1>7. ASSUME NEW p \in Operations PROVE PositionOK(p)'
    <2>1. PositionOK(p)
        BY DEF BytesInv
    <2>2. CASE p # o
        BY <1>1, <1>4, <1>6, <2>1, <2>2, PositionKept
    <2>3. CASE p = o
        BY <1>4, <1>5, <2>3 DEF PositionOK
    <2> QED BY <2>2, <2>3
<1>8. ASSUME strays = {} PROVE ReaderOK(o)'
    <2>1. ChainOK(d, 0)'
        BY <1>2 DEF ChainOK, Gives
    <2>2. InPlace(<<>>, o, 0) /\ Len(<<>>) = 0
        BY DEF InPlace
    <2>3. Len(got[o])' = 0 /\ got'[o] = <<>> /\ result'[o] # "ok"
        BY <1>4, <1>8
    <2>4. ChainOK(d, Len(got[o]))'
        BY <2>1, <2>3
    <2> QED BY <1>4, <1>5, <2>2, <2>3, <2>4 DEF ReaderOK
<1> QED BY <1>4, <1>5, <1>7, <1>8, OperationBytes

LEMMA CallReadBytes ==
    ASSUME IInv, BytesInv, NEW o \in Operations, NEW at \in 0 .. Size, CallRead(o, at), UNCHANGED streams
    PROVE  BytesInv'
<1> USE Numbers, Names
<1> DEFINE d == FirstCall(o, at)
<1>1. /\ Call(o, "read", d) /\ d.by = o /\ UNCHANGED <<owner, offset, strays>>
      /\ position' = [position EXCEPT ![o] = at]
      /\ disturbed' = [r \in Operations |-> disturbed[r] \/ (r \in Reads \cup {o} /\ Reads # {})]
    BY AskFields DEF CallRead, Call, FirstCall
<1>2. d.res = Waiting /\ (at # 0 => d.sys = "lseek" /\ d.at = at)
    BY AskFields DEF FirstCall
<1>3. /\ disturbed \in [Operations -> BOOLEAN] /\ disturbed' \in [Operations -> BOOLEAN]
      /\ position \in [Operations -> Int]
    BY <1>1 DEF BytesInv, BytesTypes, IInv, TypeOK
<1> HIDE DEF d
<1>4. \A p \in Operations \ {o} : position'[p] = position[p]
    BY <1>1, <1>3
<1>5. /\ kind[o] = "none" /\ callbacks[o] = 0 /\ got[o] = <<>>
      /\ kind'[o] = "read" /\ got' = got /\ result' = result /\ callbacks' = callbacks
      /\ InFlight(o)' = {d} /\ OperationTurn(o, {}, {d})
      /\ \A p \in Operations \ {o} : InFlight(p)' = InFlight(p) /\ kind'[p] = kind[p]
    <2>1. Starts(o, "read", d)
        BY <1>1, <1>3, <1>4, UnusedNow
    <2> QED BY <2>1 DEF Starts
<1>6. Reads' = Reads \cup {o}
    BY <1>5 DEF Reads
<1>7. ASSUME NEW p \in Operations PROVE PositionOK(p)'
    <2>1. PositionOK(p)
        BY DEF BytesInv
    <2>2. CASE p # o /\ p \in Reads
        <3>1. disturbed'[p]
            BY <1>1, <2>2
        <3> QED BY <3>1 DEF PositionOK
    <2>3. CASE p # o /\ p \notin Reads
        <3>1. disturbed'[p] = disturbed[p]
            BY <1>1, <1>3, <2>3
        <3>2. p \notin Reads'
            BY <1>6, <2>3
        <3> QED BY <1>1, <1>4, <1>5, <2>1, <2>3, <3>1, <3>2, PositionKept
    <2>4. CASE p = o
        <3>1. ~disturbed'[o] => Reads' = {o}
            BY <1>1, <1>6
        <3>2. position'[o] # 0 => AtPosition(o)'
            BY <1>1, <1>2, <1>3, <1>5 DEF AtPosition, Sought, Waiting
        <3> QED BY <2>4, <3>1, <3>2 DEF PositionOK
    <2> QED BY <2>2, <2>3, <2>4
<1>8. ReaderOK(o)'
    BY <1>5 DEF ReaderOK, Readers
<1> QED BY <1>5, <1>7, <1>8, OperationBytes

LEMMA CallCloseBytes ==
    ASSUME IInv, BytesInv, NEW o \in Operations, CallClose(o), UNCHANGED streams PROVE BytesInv'
<1> USE Names
<1>1. PICK f \in Fds : calls' = calls \cup {Ask(o, "close", f, 0)}
    BY DEF CallClose
<1> DEFINE d == Ask(o, "close", f, 0)
<1>2. d.by = o
    BY AskFields
<1> HIDE DEF d
<1>3. /\ kind[o] = "open" /\ kind' = [kind EXCEPT ![o] = "close"] /\ calls' = calls \cup {d}
      /\ UNCHANGED <<owner, offset, strays, position, got, callbacks, result, disturbed>>
    BY <1>1 DEF CallClose, d
<1>4. kind \in [Operations -> Kinds \cup {"none", "close"}] /\ BytesTypes
    BY DEF IInv, TypeOK, BytesInv
<1>5. kind'[o] = "close" /\ \A p \in Operations \ {o} : kind'[p] = kind[p]
    BY <1>3, <1>4
<1>6. OperationTurn(o, {}, {d})
    BY <1>2, <1>3, <1>4, <1>5 DEF OperationTurn, BytesTypes
<1>7. Reads' = Reads
    BY <1>3, <1>5 DEF Reads
<1>8. ASSUME NEW p \in Operations PROVE PositionOK(p)'
    <2>1. PositionOK(p)
        BY DEF BytesInv
    <2>2. CASE p # o
        <3>1. InFlight(p)' = InFlight(p)
            BY <1>2, <1>3, <2>2 DEF InFlight
        <3> QED BY <1>3, <1>5, <1>7, <2>1, <2>2, <3>1, PositionKept
    <2>3. CASE p = o
        BY <1>5, <2>3 DEF PositionOK
    <2> QED BY <2>2, <2>3
<1>9. ReaderOK(o)'
    BY <1>5 DEF ReaderOK, Readers
<1> QED BY <1>5, <1>6, <1>8, <1>9, OperationBytes

\* A step of stream s leaves the others, the operations and the descriptors alone.
StreamMove(s, X, N) ==
    /\ X \subseteq InFlight(s) /\ calls' = (calls \ X) \cup N /\ (\A d \in N : d.by = s)
    /\ UNCHANGED <<owner, offset, strays>> /\ UNCHANGED operations
    /\ \A t \in Streams \ {s} :
        /\ made'[t] = made[t] /\ sfd'[t] = sfd[t] /\ pos'[t] = pos[t] /\ start'[t] = start[t]
        /\ reading'[t] = reading[t] /\ ended'[t] = ended[t] /\ pushed'[t] = pushed[t]
    /\ BytesTypes'

LEMMA MoveInFlight ==
    ASSUME NEW s, NEW X, NEW N, StreamMove(s, X, N)
    PROVE  /\ InFlight(s)' = (InFlight(s) \ X) \cup N
           /\ \A a : a # s => InFlight(a)' = InFlight(a)
<1>1. X \subseteq InFlight(s) /\ calls' = (calls \ X) \cup N /\ \A d \in N : d.by = s
    BY DEF StreamMove
<1> QED BY <1>1, InFlightSteps

LEMMA StreamBytes ==
    ASSUME IInv, BytesInv, NEW s \in Streams, NEW X, NEW N, StreamMove(s, X, N),
           strays = {} /\ StreamReadsOK(s) => StreamReadsOK(s)'
    PROVE  BytesInv'
<1> USE Names
<1>1. \A a : a # s => InFlight(a)' = InFlight(a)
    BY MoveInFlight
<1>2. \A a : Untouched(a)
    BY DEF StreamMove, Untouched
<1>3. /\ UNCHANGED <<kind, position, got, callbacks, result, disturbed>>
      /\ UNCHANGED <<owner, offset, strays>> /\ BytesTypes'
    BY DEF StreamMove, operations
<1>4. Reads' = Reads
    BY <1>3 DEF Reads
<1>5. ASSUME NEW o \in Operations PROVE PositionOK(o)' /\ (kind'[o] = "none" => got'[o] = <<>>)
    <2>1. PositionOK(o) /\ (kind[o] = "none" => got[o] = <<>>)
        BY DEF BytesInv
    <2>2. InFlight(o)' = InFlight(o)
        BY <1>1
    <2>3. PositionOK(o)'
        BY <1>3, <1>4, <2>1, <2>2, PositionKept
    <2> QED BY <1>3, <2>1, <2>3
<1>6. ASSUME NEW o \in Operations, strays = {} PROVE ReaderOK(o)'
    <2>1. ReaderOK(o) /\ InFlight(o)' = InFlight(o)
        BY <1>1, <1>6 DEF BytesInv
    <2> QED BY <1>2, <1>3, <2>1, ReaderKept
<1>7. ASSUME NEW t \in Streams, strays = {} PROVE StreamReadsOK(t)'
    <2>1. StreamReadsOK(t) /\ StreamReadsOK(s)
        BY <1>7 DEF BytesInv
    <2>2. CASE t # s
        <3>1. InFlight(t)' = InFlight(t)
            BY <1>1, <2>2
        <3>2. /\ made'[t] = made[t] /\ sfd'[t] = sfd[t] /\ pos'[t] = pos[t] /\ start'[t] = start[t]
              /\ reading'[t] = reading[t] /\ ended'[t] = ended[t] /\ pushed'[t] = pushed[t]
            BY <2>2 DEF StreamMove
        <3> QED BY <1>2, <2>1, <3>1, <3>2, StreamKept
    <2> QED BY <1>7, <2>1, <2>2
<1> QED BY <1>3, <1>5, <1>6, <1>7 DEF BytesInv

\* What the stream has read stays.
Keeping(s) ==
    /\ made[s] /\ made'[s] = made[s] /\ start'[s] = start[s]
    /\ pushed'[s] = pushed[s] /\ ended'[s] = ended[s]

LEMMA KeepingNumbers ==
    ASSUME NEW s \in Streams, Keeping(s), PushedOK(s)
    PROVE  /\ First(s)' = First(s) /\ LastOf(s)' = LastOf(s) /\ NextChunk(s)' = NextChunk(s)
           /\ PushedOK(s)'
<1>1. First(s)' = First(s) /\ LastOf(s)' = LastOf(s) /\ NextChunk(s)' = NextChunk(s)
    BY DEF First, LastOf, NextChunk, Keeping
<1> QED BY <1>1 DEF PushedOK, Keeping

\* A stream that closes, or waits, or forgets its descriptor.
LEMMA QuietStream ==
    ASSUME IInv, BytesInv, NEW s \in Streams, NEW X, NEW N, StreamMove(s, X, N), Keeping(s),
           pos'[s] = pos[s], \A d \in N : d.sys = "close",
           reading[s] => reading'[s],
           ~reading'[s] => sfd'[s] \in {sfd[s], NullFd},
           \A c \in InFlight(s) \ X : Seeks(c) => sfd'[s] \in {sfd[s], NullFd}
    PROVE  BytesInv'
<1> SUFFICES ASSUME strays = {}, StreamReadsOK(s) PROVE StreamReadsOK(s)'
    BY StreamBytes
<1>1. First(s)' = First(s) /\ LastOf(s)' = LastOf(s) /\ NextChunk(s)' = NextChunk(s) /\ PushedOK(s)'
    BY KeepingNumbers DEF StreamReadsOK
<1>2. InFlight(s)' = (InFlight(s) \ X) \cup N /\ \A d \in N : ~Seeks(d)
    BY MoveInFlight DEF Seeks
<1>3. BeginsOK(s)'
    BY DEF StreamReadsOK, BeginsOK, Keeping
<1>4. owner' = owner /\ offset' = offset
    BY DEF StreamMove
<1>5. IdleOK(s)'
    BY <1>1, <1>4 DEF StreamReadsOK, IdleOK, AtChunk, Keeping
<1>6. ASSUME NEW d \in N PROVE ReadingOK(s, d)'
    BY DEF ReadingOK, ChainOK, Seeks
<1>7. ASSUME NEW d \in InFlight(s) \ X PROVE ReadingOK(s, d)'
    <2>1. ReadingOK(s, d) /\ d.by = s
        BY DEF StreamReadsOK, InFlight
    <2>2. Untouched(d.by)
        BY <1>4 DEF Untouched
    <2>3. ChainOK(d, NextChunk(s))'
        <3>1. PICK n : n = NextChunk(s)
            OBVIOUS
        <3>2. ChainOK(d, n)'
            BY <2>1, <2>2, <3>1, ChainKept DEF ReadingOK
        <3> QED BY <1>1, <3>1, <3>2
    <2>4. Seeks(d) => reading'[s] /\ sfd'[s] \in {NullFd, d.fd}
        BY <2>1 DEF ReadingOK
    <2>5. Seeks(d) => \A x \in InFlight(s)' : Seeks(x) => x = d
        BY <1>2, <2>1 DEF ReadingOK
    <2> QED BY <1>1, <2>1, <2>3, <2>4, <2>5 DEF ReadingOK, Keeping
<1> QED BY <1>1, <1>2, <1>3, <1>5, <1>6, <1>7 DEF StreamReadsOK

\* The types of the variables of streams, the ones of the first invariant included.
LEMMA StreamKinds ==
    ASSUME IInv, BytesInv
    PROVE  StreamTypes /\ BytesTypes
BY DEF IInv, TypeOK, StreamTypes, BytesInv

LEMMA CreateBytes ==
    ASSUME IInv, BytesInv, NEW s \in Streams, NEW at \in {-1, 0, 1}, Create(s, at),
           UNCHANGED operations
    PROVE  BytesInv'
<1> USE Numbers, Names, EndAssumption
<1> DEFINE d == Ask(s, "open", 0, 0)
<1>1. d.by = s /\ d.sys = "open" /\ d.res = Waiting
    BY AskFields
<1>2. /\ ~made[s] /\ at <= End /\ calls' = calls \cup {d}
      /\ made' = [made EXCEPT ![s] = TRUE] /\ pos' = [pos EXCEPT ![s] = at]
      /\ start' = [start EXCEPT ![s] = at]
      /\ UNCHANGED <<owner, offset, strays, sfd, reading, ended, pushed>>
    BY DEF Create, state
<1> HIDE DEF d
<1>3. StreamTypes /\ BytesTypes
    BY StreamKinds
<1>4. start' \in [Streams -> Int] /\ start'[s] = at /\ pos'[s] = at /\ made'[s]
    BY <1>2, <1>3 DEF BytesTypes, StreamTypes
<1>5. BytesTypes'
    BY <1>2, <1>3, <1>4 DEF BytesTypes, operations
<1>6. StreamMove(s, {}, {d})
    BY <1>1, <1>2, <1>3, <1>5 DEF StreamMove, BytesTypes, StreamTypes
<1>7. InFlight(s)' = {d} /\ sfd[s] = NullFd
    BY <1>2, <1>6, MoveInFlight DEF IInv, StreamOK
<1>8. ASSUME strays = {}, StreamReadsOK(s) PROVE StreamReadsOK(s)'
    <2>1. pushed'[s] = <<>> /\ ~ended'[s] /\ ~reading'[s]
        BY <1>2, <1>8 DEF StreamReadsOK, BeginsOK
    <2>2. BeginsOK(s)'
        BY <1>2, <1>4, <2>1 DEF BeginsOK
    <2>3. PushedOK(s)'
        BY <2>1 DEF PushedOK, InPlace
    <2>4. IdleOK(s)'
        BY <1>2, <1>7 DEF IdleOK
    <2>5. \A n : ChainOK(d, n)'
        BY <1>1 DEF ChainOK, Gives
    <2>6. ReadingOK(s, d)'
        BY <1>1, <1>4, <2>1, <2>5 DEF ReadingOK, Seeks
    <2> QED BY <1>7, <2>2, <2>3, <2>4, <2>6 DEF StreamReadsOK
<1> QED BY <1>6, <1>8, StreamBytes

\* A read goes on from the chunk where the stream is.
LEMMA ReadingChain ==
    ASSUME NEW s \in Streams, NEW fd, NEW n \in Nat, NEW m, m = Reading(s, fd), pos[s] \in Int,
           pos[s] # -1 => pos[s] = n, pos[s] = -1 \/ pos[s] = 0 => AtChunk(s, fd, n),
           pos[s] >= -1, UNCHANGED <<owner, offset>>
    PROVE  ChainOK(m, n)' /\ m.by = s /\ Seeks(m) /\ m.fd = fd
<1> DEFINE sys == IF pos[s] > 0 THEN "lseek" ELSE "read"
           at == IF pos[s] > 0 THEN pos[s] ELSE 0
<1>1. m = Ask(s, sys, fd, at)
    BY DEF Reading
<1>2. m.by = s /\ m.sys = sys /\ m.fd = fd /\ m.at = at /\ m.res = Waiting
    BY <1>1, AskFields
<1>3. Seeks(m)
    BY <1>2 DEF Seeks
<1>4. ChainOK(m, n)'
    <2>1. CASE pos[s] > 0
        <3>1. m.sys = "lseek" /\ m.at = n
            BY <1>2, <2>1
        <3> QED BY <1>2, <3>1 DEF ChainOK
    <2>2. CASE ~(pos[s] > 0)
        <3>1. m.sys = "read" /\ AtChunk(s, fd, n)
            BY <1>2, <2>2
        <3>2. AtChunk(s, fd, n)'
            BY <3>1 DEF AtChunk
        <3> QED BY <1>2, <3>1, <3>2 DEF ChainOK, Waiting, Failed
    <2> QED BY <2>1, <2>2
<1> QED BY <1>2, <1>3, <1>4

\* A read of the stream begins: nothing is under way, and the calls of N are it and
\* at most closes.
LEMMA BeginBytes ==
    ASSUME IInv, BytesInv, NEW s \in Streams, NEW X, NEW N, StreamMove(s, X, N), Keeping(s),
           NEW fd, NEW m, m = Reading(s, fd), m \in N,
           \A d \in N : d = m \/ d.sys = "close",
           reading'[s], sfd'[s] \in {NullFd, fd}, pos'[s] = PosAfter(s),
           strays = {} /\ StreamReadsOK(s) =>
                /\ \A d \in InFlight(s) \ X : d.sys # "open" /\ ~Seeks(d)
                /\ pos[s] # -1 => pos[s] = NextChunk(s) /\ pos[s] <= End
                /\ pos[s] < 1 => AtChunk(s, fd, NextChunk(s))
    PROVE  BytesInv'
<1> USE Numbers, Names
<1> SUFFICES ASSUME strays = {}, StreamReadsOK(s) PROVE StreamReadsOK(s)'
    BY StreamBytes
<1>1. First(s)' = First(s) /\ LastOf(s)' = LastOf(s) /\ NextChunk(s)' = NextChunk(s) /\ PushedOK(s)'
    BY KeepingNumbers DEF StreamReadsOK
<1>2. InFlight(s)' = (InFlight(s) \ X) \cup N
    BY MoveInFlight
<1>3. BeginsOK(s) /\ pos[s] \in Int /\ NextChunk(s) \in Nat
    BY StreamKinds, StreamNumbers DEF StreamReadsOK, StreamTypes
<1>4. PICK n \in Nat : n = NextChunk(s)
    BY <1>3
<1>5. /\ pos[s] # -1 => pos[s] = n /\ n <= End
      /\ pos[s] < 1 => AtChunk(s, fd, n)
    BY <1>4
<1>6. pos[s] >= -1
    BY <1>3 DEF BeginsOK
<1>7. ChainOK(m, n)' /\ Seeks(m) /\ m.fd = fd
    <2>1. UNCHANGED <<owner, offset>>
        BY DEF StreamMove
    <2>2. pos[s] = -1 \/ pos[s] = 0 => AtChunk(s, fd, n)
        BY <1>5
    <2> QED BY <1>3, <1>5, <1>6, <2>1, <2>2, ReadingChain
<1>8. /\ pos'[s] >= -1 /\ (pos'[s] = -1 <=> pos[s] = -1)
      /\ pos'[s] # -1 => pos'[s] = n + 1 /\ n <= End
    BY <1>3, <1>5, <1>6 DEF PosAfter
<1>9. BeginsOK(s)'
    BY <1>3, <1>8 DEF BeginsOK, Keeping
<1>10. IdleOK(s)'
    BY DEF IdleOK
<1>11. \A d \in InFlight(s)' : d = m \/ d.sys \notin {"open", "lseek", "read"}
    <2>1. \A d \in InFlight(s) \ X : d.sys # "open" /\ ~Seeks(d)
        OBVIOUS
    <2> QED BY <1>2, <2>1 DEF Seeks
<1>12. ReadingOK(s, m)'
    <2>1. ChainOK(m, NextChunk(s))'
        BY <1>1, <1>4, <1>7
    <2>2. \A d \in InFlight(s)' : Seeks(d) => d = m
        BY <1>11 DEF Seeks
    <2>3. m.sys # "open"
        BY <1>7 DEF Seeks
    <2>4. pos'[s] # -1 => pos'[s] = NextChunk(s)' + 1 /\ NextChunk(s)' <= End
        BY <1>1, <1>4, <1>8
    <2> QED BY <1>7, <2>1, <2>2, <2>3, <2>4 DEF ReadingOK
<1>13. ASSUME NEW d \in InFlight(s)', d # m PROVE ReadingOK(s, d)'
    BY <1>11, <1>13 DEF ReadingOK, ChainOK, Seeks
<1> QED BY <1>1, <1>9, <1>10, <1>12, <1>13 DEF StreamReadsOK

LEMMA ReadBytes ==
    ASSUME IInv, BytesInv, NEW s \in Streams, Read(s), UNCHANGED operations
    PROVE  BytesInv'
<1> USE Numbers, Names, EndAssumption
<1>1. StreamTypes /\ BytesTypes /\ StreamOK(s)
    BY StreamKinds, StreamNow
<1>2. /\ made[s] /\ ~reading[s] /\ ~ended[s]
      /\ UNCHANGED <<owner, offset, strays, made, sfd, start, pushed>>
    BY DEF Read
<1>3. CASE /\ reading' = [reading EXCEPT ![s] = TRUE] /\ UNCHANGED <<calls, pos, ended>>
    <2>1. BytesTypes' /\ reading'[s]
        BY <1>1, <1>2, <1>3 DEF BytesTypes, operations
    <2>2. StreamMove(s, {}, {}) /\ Keeping(s)
        BY <1>1, <1>2, <1>3, <2>1 DEF StreamMove, BytesTypes, Keeping
    <2> QED BY <1>2, <1>3, <2>1, <2>2, QuietStream
<1>4. CASE /\ sfd[s] # NullFd /\ pos[s] > End /\ ended' = [ended EXCEPT ![s] = TRUE]
           /\ UNCHANGED <<reading, calls, pos>>
    <2>1. BytesTypes' /\ ended'[s]
        BY <1>1, <1>2, <1>4 DEF BytesTypes, operations
    <2>2. StreamMove(s, {}, {})
        BY <1>1, <1>2, <1>4, <2>1 DEF StreamMove, BytesTypes
    <2>3. InFlight(s)' = InFlight(s)
        BY <2>2, MoveInFlight
    <2>4. ASSUME strays = {}, StreamReadsOK(s) PROVE StreamReadsOK(s)'
        <3>1. First(s)' = First(s) /\ LastOf(s)' = LastOf(s) /\ NextChunk(s)' = NextChunk(s)
            BY <1>2 DEF First, LastOf, NextChunk
        <3>2. BeginsOK(s)' /\ start[s] # -1 /\ pos[s] = NextChunk(s) /\ pos[s] \in Int
            BY <1>1, <1>2, <1>4, <2>4 DEF StreamReadsOK, BeginsOK, IdleOK, StreamTypes
        <3>3. NextChunk(s) > LastOf(s)
            BY <1>4, <3>2 DEF LastOf
        <3>4. PushedOK(s)'
            BY <1>2, <2>4, <3>1, <3>3 DEF StreamReadsOK, PushedOK
        <3>5. IdleOK(s)'
            BY <2>1 DEF IdleOK
        <3>6. ASSUME NEW c \in InFlight(s) PROVE ReadingOK(s, c)'
            <4>1. ReadingOK(s, c)
                BY <2>4 DEF StreamReadsOK
            <4>2. ~Seeks(c) /\ c.sys # "open"
                BY <1>1, <1>2, <1>4, <4>1 DEF ReadingOK, StreamOK
            <4> QED BY <4>2 DEF ReadingOK, ChainOK, Seeks
        <3> QED BY <2>3, <3>2, <3>4, <3>5, <3>6 DEF StreamReadsOK
    <2> QED BY <2>2, <2>4, StreamBytes
<1>5. CASE /\ sfd[s] # NullFd /\ pos[s] <= End /\ calls' = calls \cup {Reading(s, sfd[s])}
           /\ pos' = [pos EXCEPT ![s] = PosAfter(s)] /\ reading' = [reading EXCEPT ![s] = TRUE]
           /\ UNCHANGED ended
    <2>1. PICK fd, m : fd = sfd[s] /\ m = Reading(s, fd)
        OBVIOUS
    <2>2. m.by = s
        BY <2>1, AskFields DEF Reading
    <2>3. BytesTypes' /\ reading'[s]
        BY <1>1, <1>2, <1>5 DEF BytesTypes, operations
    <2>4. StreamMove(s, {}, {m}) /\ Keeping(s) /\ pos'[s] = PosAfter(s)
        BY <1>1, <1>2, <1>5, <2>1, <2>2, <2>3 DEF StreamMove, BytesTypes, StreamTypes, Keeping
    <2>5. ASSUME strays = {}, StreamReadsOK(s)
          PROVE  /\ pos[s] # -1 => pos[s] = NextChunk(s) /\ pos[s] <= End
                 /\ AtChunk(s, fd, NextChunk(s))
                 /\ \A d \in InFlight(s) : ~Seeks(d)
        BY <1>2, <1>5, <2>1, <2>5 DEF StreamReadsOK, IdleOK, ReadingOK
    <2>6. \A d \in InFlight(s) : d.sys # "open"
        BY <1>1, <1>5 DEF StreamOK
    <2> QED BY <1>2, <2>1, <2>3, <2>4, <2>5, <2>6, BeginBytes
<1> QED BY <1>3, <1>4, <1>5 DEF Read

\* _close() of an open stream, with the calls of X answered.
LEMMA CloseNowBytes ==
    ASSUME IInv, BytesInv, NEW s \in Streams, NEW X, X \subseteq InFlight(s), CloseNow(s, X), made[s],
           UNCHANGED <<owner, offset, strays>>, UNCHANGED operations,
           UNCHANGED <<made, pos, start, reading, ended, pushed>>
    PROVE  BytesInv'
<1>1. StreamTypes /\ BytesTypes
    BY StreamKinds
<1>2. PICK d : d = Ask(s, "close", sfd[s], 0)
    OBVIOUS
<1>3. d.by = s /\ d.sys = "close"
    BY <1>2, AskFields
<1>4. calls' = (calls \ X) \cup {d} /\ sfd' = [sfd EXCEPT ![s] = NullFd]
    BY <1>2 DEF CloseNow, FdAfterClose
<1>5. StreamMove(s, X, {d}) /\ Keeping(s) /\ sfd'[s] = NullFd
    BY <1>1, <1>3, <1>4 DEF StreamMove, BytesTypes, StreamTypes, Keeping, operations
<1> QED BY <1>3, <1>5, QuietStream

\* destroy() with the calls of X answered.
LEMMA DestroyingBytes ==
    ASSUME IInv, BytesInv, NEW s \in Streams, NEW X, X \subseteq InFlight(s), Destroying(s, X), made[s],
           UNCHANGED <<owner, offset, strays>>, UNCHANGED operations,
           UNCHANGED <<made, pos, start, reading, ended, pushed>>
    PROVE  BytesInv'
<1>1. CASE CloseNow(s, X)
    BY <1>1, CloseNowBytes
<1>2. CASE calls' = calls \ X /\ UNCHANGED sfd
    <2>1. BytesTypes
        BY StreamKinds
    <2>2. StreamMove(s, X, {}) /\ Keeping(s)
        BY <1>2, <2>1 DEF StreamMove, BytesTypes, Keeping, operations
    <2> QED BY <1>2, <2>2, QuietStream
<1> QED BY <1>1, <1>2 DEF Destroying

LEMMA DestroyBytes ==
    ASSUME IInv, BytesInv, NEW s \in Streams, Destroy(s), UNCHANGED operations PROVE BytesInv'
BY DestroyingBytes DEF Destroy, state

LEMMA CloseBytes ==
    ASSUME IInv, BytesInv, NEW s \in Streams, Close(s), UNCHANGED operations PROVE BytesInv'
<1>1. /\ made[s] /\ UNCHANGED <<owner, offset, strays, made, pos, start, reading, ended, pushed>>
    BY DEF Close
<1>2. CASE CloseNow(s, {})
    BY <1>1, <1>2, CloseNowBytes
<1>3. CASE UNCHANGED <<calls, sfd>>
    <2>1. BytesTypes
        BY StreamKinds
    <2>2. StreamMove(s, {}, {}) /\ Keeping(s)
        BY <1>1, <1>3, <2>1 DEF StreamMove, BytesTypes, Keeping, operations
    <2> QED BY <1>1, <1>3, <2>2, QuietStream
<1> QED BY <1>2, <1>3 DEF Close

LEMMA StreamReadFailsBytes ==
    ASSUME IInv, BytesInv, NEW s \in Streams, NEW c, StreamCallback(s, c), StreamReadFails(s, c)
    PROVE  BytesInv'
<1>1. made[s] /\ {c} \subseteq InFlight(s)
    BY DEF StreamCallback, IInv, StreamOK
<1> QED BY <1>1, DestroyingBytes DEF StreamCallback, StreamReadFails, state

LEMMA StreamClosesBytes ==
    ASSUME IInv, BytesInv, NEW s \in Streams, NEW c, StreamCallback(s, c), StreamCloses(s, c)
    PROVE  BytesInv'
<1>1. made[s] /\ {c} \subseteq InFlight(s) /\ BytesTypes
    BY StreamKinds DEF StreamCallback, IInv, StreamOK
<1>2. calls' = (calls \ {c}) \cup {} /\ UNCHANGED <<owner, offset, strays, made, start>>
      /\ UNCHANGED <<sfd, pos, reading, ended, pushed>> /\ UNCHANGED operations
    BY DEF StreamCallback, StreamCloses, Answered, state
<1>3. StreamMove(s, {c}, {}) /\ Keeping(s)
    BY <1>1, <1>2 DEF StreamMove, BytesTypes, Keeping, operations
<1> QED BY <1>2, <1>3, QuietStream

LEMMA StreamOpenFailsBytes ==
    ASSUME IInv, BytesInv, NEW s \in Streams, NEW c, StreamCallback(s, c), StreamOpenFails(s, c)
    PROVE  BytesInv'
<1> USE Numbers
<1>1. StreamTypes /\ BytesTypes
    BY StreamKinds
<1>2. c \in InFlight(s) /\ InFlight(s) = {c} /\ made[s]
    BY OpenReturns DEF StreamCallback, StreamOpenFails
<1> DEFINE N == CloseCalls(s, BadFd)
<1>3. \A d \in N : d.by = s /\ d.sys = "close"
    BY <1>1, ClosesOfHandlers
<1>4. /\ calls' = (calls \ {c}) \cup N /\ UNCHANGED <<owner, offset, strays, made, start>>
      /\ sfd' = [sfd EXCEPT ![s] = IF Count(s, "close") = 0 THEN BadFd ELSE NullFd]
      /\ reading' = [reading EXCEPT ![s] = TRUE] /\ UNCHANGED <<pos, ended, pushed>>
      /\ UNCHANGED operations
    BY DEF StreamCallback, StreamOpenFails, Answered
<1>5. PICK M : M = N
    OBVIOUS
<1> HIDE DEF N
<1>6. BytesTypes' /\ reading'[s]
    BY <1>1, <1>4 DEF BytesTypes, operations
<1>7. \A t \in Streams \ {s} : sfd'[t] = sfd[t] /\ reading'[t] = reading[t]
    BY <1>1, <1>4 DEF BytesTypes, StreamTypes
<1>8. StreamMove(s, {c}, M) /\ Keeping(s)
    BY <1>2, <1>3, <1>4, <1>5, <1>6, <1>7 DEF StreamMove, Keeping
<1> QED BY <1>2, <1>3, <1>4, <1>5, <1>6, <1>8, QuietStream

LEMMA StreamOpensBytes ==
    ASSUME IInv, BytesInv, NEW s \in Streams, NEW c, StreamCallback(s, c), StreamOpens(s, c)
    PROVE  BytesInv'
<1> USE Numbers
<1>1. StreamTypes /\ BytesTypes
    BY StreamKinds
<1>2. c.sys = "open" /\ c.res \notin {Failed, Waiting}
    BY DEF StreamCallback, StreamOpens
<1>3. c \in InFlight(s) /\ InFlight(s) = {c} /\ made[s] /\ c.res \in Fds \ {ProgramFd}
    BY <1>2, OpenReturns DEF StreamCallback
<1>4. PICK fd : fd = c.res
    OBVIOUS
<1>5. PICK C : C = CloseCalls(s, fd)
    OBVIOUS
<1>6. PICK m : m = Reading(s, fd)
    OBVIOUS
<1>7. PICK k : k = Count(s, "close")
    OBVIOUS
<1>8. PICK reads \in BOOLEAN : reads <=> ~destroyed[s] /\ (k > 0 => onOpen[s][1] = "read")
    OBVIOUS
<1>9. /\ calls' = (calls \ {c}) \cup (C \cup (IF reads THEN {m} ELSE {}))
      /\ pos' = IF reads THEN [pos EXCEPT ![s] = PosAfter(s)] ELSE pos
      /\ sfd' = [sfd EXCEPT ![s] = IF k = 0 THEN fd ELSE NullFd]
      /\ reading' = [reading EXCEPT ![s] = TRUE]
    BY <1>4, <1>5, <1>6, <1>7, <1>8 DEF StreamOpens, Answered
<1>10. UNCHANGED <<owner, offset, strays, made, start, ended, pushed>> /\ UNCHANGED operations
    BY DEF StreamCallback, StreamOpens, Answered
<1>11. (\A d \in C : d.by = s /\ d.sys = "close") /\ m.by = s
    <2>1. fd \in Handles
        BY <1>3, <1>4
    <2> QED BY <1>1, <1>5, <1>6, <2>1, ClosesOfHandlers, AskFields DEF Reading
<1>12. BytesTypes' /\ reading'[s] /\ sfd'[s] \in {NullFd, fd}
    BY <1>1, <1>9, <1>10 DEF BytesTypes, StreamTypes, operations
<1>13. \A t \in Streams \ {s} : sfd'[t] = sfd[t] /\ reading'[t] = reading[t] /\ pos'[t] = pos[t]
    BY <1>1, <1>9 DEF BytesTypes, StreamTypes
<1>14. Keeping(s)
    BY <1>3, <1>10 DEF Keeping
<1>15. CASE reads
    <2>1. calls' = (calls \ {c}) \cup (C \cup {m}) /\ pos'[s] = PosAfter(s)
        BY <1>1, <1>9, <1>15 DEF StreamTypes
    <2>2. StreamMove(s, {c}, C \cup {m})
        BY <1>3, <1>10, <1>11, <1>12, <1>13, <2>1 DEF StreamMove
    <2>3. ASSUME strays = {}, StreamReadsOK(s)
          PROVE  /\ pos[s] # -1 => pos[s] = NextChunk(s) /\ pos[s] <= End
                 /\ pos[s] < 1 => AtChunk(s, fd, NextChunk(s))
        <3>1. ReadingOK(s, c) /\ BeginsOK(s)
            BY <1>3, <2>3 DEF StreamReadsOK
        <3>2. pushed[s] = <<>> /\ pos[s] = start[s] /\ AtChunk(c.by, fd, 0)
            BY <1>2, <1>3, <1>4, <3>1 DEF ReadingOK, ChainOK, Gives
        <3>3. start[s] \in Int /\ start[s] >= -1 /\ start[s] <= End /\ c.by = s
            BY <1>1, <1>3, <3>1 DEF BytesTypes, BeginsOK, InFlight
        <3>4. NextChunk(s) = IF start[s] = -1 THEN 0 ELSE start[s]
            BY <3>2, <3>3 DEF NextChunk, First
        <3>5. pos[s] < 1 => NextChunk(s) = 0
            BY <3>2, <3>3, <3>4
        <3> QED BY <3>2, <3>3, <3>4, <3>5
    <2> QED BY <1>3, <1>6, <1>11, <1>12, <1>14, <2>1, <2>2, <2>3, BeginBytes
<1>16. CASE ~reads
    <2>1. calls' = (calls \ {c}) \cup C /\ pos' = pos
        BY <1>9, <1>16
    <2>2. StreamMove(s, {c}, C)
        BY <1>3, <1>10, <1>11, <1>12, <1>13, <2>1 DEF StreamMove
    <2> QED BY <1>3, <1>11, <1>12, <1>14, <2>1, <2>2, QuietStream
<1> QED BY <1>15, <1>16

LEMMA StreamSeeksBytes ==
    ASSUME IInv, BytesInv, NEW s \in Streams, NEW c, StreamCallback(s, c), StreamSeeks(s, c)
    PROVE  BytesInv'
<1>1. made[s] /\ {c} \subseteq InFlight(s) /\ BytesTypes /\ c.by = s
    BY StreamKinds DEF StreamCallback, IInv, StreamOK, InFlight
<1>2. PICK m : m = Ask(s, "read", c.fd, 0)
    OBVIOUS
<1>3. m.by = s /\ m.sys = "read" /\ m.fd = c.fd
    BY <1>2, AskFields
<1>4. /\ calls' = (calls \ {c}) \cup {m} /\ UNCHANGED <<owner, offset, strays, made, start>>
      /\ UNCHANGED <<sfd, pos, reading, ended, pushed>> /\ UNCHANGED operations
      /\ c.sys = "lseek" /\ c.res \notin {Failed, Waiting}
    BY <1>2 DEF StreamCallback, StreamSeeks, Answered, state
<1>5. StreamMove(s, {c}, {m}) /\ Keeping(s)
    BY <1>1, <1>3, <1>4 DEF StreamMove, BytesTypes, Keeping, operations
<1>6. InFlight(s)' = (InFlight(s) \ {c}) \cup {m}
    BY <1>5, MoveInFlight
<1> SUFFICES ASSUME strays = {}, StreamReadsOK(s) PROVE StreamReadsOK(s)'
    BY <1>5, StreamBytes
<1>7. First(s)' = First(s) /\ LastOf(s)' = LastOf(s) /\ NextChunk(s)' = NextChunk(s) /\ PushedOK(s)'
    BY <1>5, KeepingNumbers DEF StreamReadsOK
<1>8. BeginsOK(s)' /\ ReadingOK(s, c) /\ Seeks(c)
    BY <1>1, <1>4 DEF StreamReadsOK, BeginsOK, Seeks
<1>9. reading[s] /\ \A d \in InFlight(s) : Seeks(d) => d = c
    BY <1>8 DEF ReadingOK
<1>10. IdleOK(s)'
    BY <1>4, <1>9 DEF IdleOK
<1>11. PICK n : n = NextChunk(s)
    OBVIOUS
<1>12. ChainOK(m, n)'
    <2>1. AtChunk(s, c.fd, n)'
        BY <1>1, <1>4, <1>8, <1>11 DEF ReadingOK, ChainOK, AtChunk
    <2> QED BY <1>2, <2>1, AskChain
<1>13. ReadingOK(s, m)'
    BY <1>3, <1>4, <1>6, <1>7, <1>8, <1>9, <1>11, <1>12 DEF ReadingOK, Seeks
<1>14. ASSUME NEW d \in InFlight(s) \ {c} PROVE ReadingOK(s, d)'
    <2>1. ~Seeks(d) /\ d.sys # "open"
        BY <1>1, <1>4, <1>9, <1>14 DEF IInv, StreamOK
    <2> QED BY <2>1 DEF ReadingOK, ChainOK, Seeks
<1> QED BY <1>6, <1>7, <1>8, <1>10, <1>13, <1>14 DEF StreamReadsOK

LEMMA StreamReadsBytes ==
    ASSUME IInv, BytesInv, NEW s \in Streams, NEW c, StreamCallback(s, c), StreamReads(s, c)
    PROVE  BytesInv'
<1> USE Numbers, Names, EndAssumption
<1>1. /\ made[s] /\ c \in InFlight(s) /\ BytesTypes /\ c.by = s /\ c.res \in Int /\ c.data \in AChunk
      /\ StreamOK(s)
    BY StreamKinds DEF StreamCallback, IInv, StreamOK, InFlight, TypeOK, ACall, AChunk
<1>2. /\ calls' = calls \ {c} /\ UNCHANGED <<owner, offset, strays, made, start, sfd, pos>>
      /\ UNCHANGED operations
      /\ pushed' = IF c.res > 0 THEN [pushed EXCEPT ![s] = Append(pushed[s], c.data)] ELSE pushed
      /\ ended' = [ended EXCEPT ![s] = ended[s] \/ c.res = 0]
      /\ reading' = [reading EXCEPT ![s] = FALSE]
      /\ c.sys = "read" /\ c.res \notin {Failed, Waiting}
    BY DEF StreamCallback, StreamReads, Answered
<1>3. /\ pushed'[s] = IF c.res > 0 THEN Append(pushed[s], c.data) ELSE pushed[s]
      /\ ~reading'[s]
      /\ pushed[s] \in Seq(AChunk)
      /\ \A t \in Streams \ {s} : /\ pushed'[t] = pushed[t] /\ ended'[t] = ended[t]
                                  /\ reading'[t] = reading[t]
    BY <1>1, <1>2 DEF BytesTypes
<1>4. (c.res = 0 => ended'[s]) /\ (c.res # 0 => ended'[s] = ended[s])
    <2>1. ended[s] \in BOOLEAN /\ ended'[s] = (ended[s] \/ c.res = 0)
        BY <1>1, <1>2 DEF BytesTypes
    <2> QED BY <2>1, Zenon
<1>5. BytesTypes'
    <2>1. Append(pushed[s], c.data) \in Seq(AChunk)
        BY <1>1, <1>3
    <2>2. pushed' \in [Streams -> Seq(AChunk)]
        BY <1>1, <1>2, <2>1 DEF BytesTypes
    <2>3. ended' \in [Streams -> BOOLEAN]
        BY <1>1, <1>2 DEF BytesTypes
    <2>4. reading' \in [Streams -> BOOLEAN]
        BY <1>1, <1>2 DEF BytesTypes
    <2> QED BY <1>1, <1>2, <2>2, <2>3, <2>4 DEF BytesTypes, operations
<1>6. StreamMove(s, {c}, {})
    BY <1>1, <1>2, <1>3, <1>5 DEF StreamMove
<1>7. InFlight(s)' = InFlight(s) \ {c}
    BY <1>6, MoveInFlight
<1> SUFFICES ASSUME strays = {}, StreamReadsOK(s) PROVE StreamReadsOK(s)'
    BY <1>6, StreamBytes
<1>8. BeginsOK(s)' /\ BeginsOK(s) /\ ReadingOK(s, c) /\ Seeks(c) /\ PushedOK(s)
    BY <1>1, <1>2 DEF StreamReadsOK, BeginsOK, Seeks
<1>9. PICK n \in Nat : n = NextChunk(s)
    BY <1>1, <1>8, StreamNumbers
<1>10. First(s) \in Nat /\ Len(pushed[s]) \in Nat /\ n = First(s) + Len(pushed[s]) /\ start[s] \in Int
    BY <1>1, <1>8, <1>9, StreamNumbers
<1>11. /\ ChainOK(c, n) /\ sfd[s] \in {NullFd, c.fd} /\ (\A d \in InFlight(s) : Seeks(d) => d = c)
       /\ pos[s] # -1 => pos[s] = n + 1 /\ n <= End
    BY <1>8, <1>9 DEF ReadingOK
<1>12. First(s)' = First(s) /\ LastOf(s)' = LastOf(s)
    BY <1>2 DEF First, LastOf
<1>13. n < Size => n <= LastOf(s)
    BY <1>8, <1>11 DEF BeginsOK, LastOf
<1>14. n >= Size => n > LastOf(s)
    BY DEF LastOf
<1>15. ASSUME NEW d \in InFlight(s) \ {c} PROVE ReadingOK(s, d)'
    <2>1. ~Seeks(d) /\ d.sys # "open"
        BY <1>1, <1>2, <1>11, <1>15 DEF StreamOK
    <2> QED BY <2>1 DEF ReadingOK, ChainOK, Seeks
<1>16. CASE c.res = 1
    <2>1. n < Size /\ c.data = [of |-> s, at |-> n] /\ AtChunk(s, c.fd, n + 1)
        BY <1>1, <1>2, <1>11, <1>16 DEF ChainOK
    <2>2. /\ pushed'[s] = Append(pushed[s], c.data) /\ ended'[s] = ended[s]
          /\ Len(pushed'[s]) = Len(pushed[s]) + 1 /\ InPlace(pushed'[s], s, First(s))
        <3>1. InPlace(pushed[s], s, First(s)) /\ c.data = [of |-> s, at |-> First(s) + Len(pushed[s])]
            BY <1>8, <1>10, <2>1 DEF PushedOK
        <3>2. /\ Len(Append(pushed[s], c.data)) = Len(pushed[s]) + 1
              /\ InPlace(Append(pushed[s], c.data), s, First(s))
            BY <1>1, <1>3, <1>10, <3>1, InPlaceGrows
        <3>3. ended'[s] = ended[s]
            BY <1>16, <1>4
        <3>4. pushed'[s] = Append(pushed[s], c.data)
            BY <1>3, <1>16
        <3> QED BY <3>2, <3>3, <3>4
    <2>3. NextChunk(s)' = n + 1
        BY <1>10, <1>12, <2>2 DEF NextChunk
    <2>4. n + 1 <= LastOf(s) + 1 /\ ~ended[s]
        <3>1. LastOf(s) \in Int /\ n <= LastOf(s)
            BY <1>13, <2>1 DEF LastOf
        <3> QED BY <1>8, <1>9, <3>1 DEF PushedOK
    <2>5. PushedOK(s)'
        BY <1>12, <2>2, <2>3, <2>4 DEF PushedOK
    <2>6. IdleOK(s)'
        <3>1. AtChunk(s, c.fd, n + 1)'
            BY <1>2, <2>1 DEF AtChunk
        <3>2. sfd'[s] # NullFd => sfd'[s] = c.fd
            BY <1>2, <1>11
        <3>3. pos'[s] # -1 => pos'[s] = n + 1
            BY <1>2, <1>11
        <3> QED BY <2>3, <3>1, <3>2, <3>3 DEF IdleOK
    <2> QED BY <1>7, <1>8, <1>15, <2>5, <2>6 DEF StreamReadsOK
<1>17. CASE c.res = 0
    <2>1. n >= Size
        BY <1>2, <1>11, <1>17 DEF ChainOK
    <2>2. pushed'[s] = pushed[s] /\ ended'[s]
        BY <1>3, <1>17, <1>4
    <2>3. NextChunk(s)' = n
        BY <1>9, <1>12, <2>2 DEF NextChunk
    <2>4. PushedOK(s)'
        BY <1>8, <1>9, <1>12, <1>14, <2>1, <2>2, <2>3 DEF PushedOK
    <2>5. IdleOK(s)'
        BY <2>2 DEF IdleOK
    <2> QED BY <1>7, <1>8, <1>15, <2>4, <2>5 DEF StreamReadsOK
<1>18. c.res \in {0, 1}
    BY <1>2, <1>11 DEF ChainOK
<1> QED BY <1>16, <1>17, <1>18

LEMMA InitBytes == Init => BytesInv
<1> SUFFICES ASSUME Init PROVE BytesInv
    OBVIOUS
<1> USE Numbers, Names, EndAssumption
<1>1. /\ calls = {} /\ kind = [o \in Operations |-> "none"] /\ result = [o \in Operations |-> "none"]
      /\ got = [o \in Operations |-> <<>>] /\ disturbed = [o \in Operations |-> FALSE]
    BY DEF Init, FilesInit, OpsInit
<1>2. /\ made = [s \in Streams |-> FALSE] /\ sfd = [s \in Streams |-> NullFd]
      /\ pos = [s \in Streams |-> -1] /\ start = [s \in Streams |-> -1]
      /\ reading = [s \in Streams |-> FALSE] /\ ended = [s \in Streams |-> FALSE]
      /\ pushed = [s \in Streams |-> <<>>]
    BY DEF Init, StreamInit
<1>3. <<>> \in Seq(AChunk) /\ -1 \in Int /\ -1 >= -1 /\ -1 <= End
    OBVIOUS
<1>4. BytesTypes
    BY <1>1, <1>2, <1>3 DEF BytesTypes
<1>5. \A o \in Operations : PositionOK(o) /\ (kind[o] = "none" => got[o] = <<>>)
    BY <1>1 DEF PositionOK
<1>6. \A o \in Operations : ReaderOK(o)
    BY <1>1 DEF ReaderOK, Readers
<1>7. ASSUME NEW s \in Streams PROVE StreamReadsOK(s)
    <2>1. BeginsOK(s)
        BY <1>2, <1>3 DEF BeginsOK
    <2>2. PushedOK(s)
        BY <1>2 DEF PushedOK, InPlace
    <2>3. IdleOK(s)
        BY <1>2 DEF IdleOK
    <2>4. InFlight(s) = {}
        BY <1>1 DEF InFlight
    <2> QED BY <2>1, <2>2, <2>3, <2>4 DEF StreamReadsOK
<1> QED BY <1>4, <1>5, <1>6, <1>7 DEF BytesInv

LEMMA CallbacksBytes ==
    ASSUME IInv, BytesInv, NEW c \in calls, Callbacks(c), UNCHANGED streams PROVE BytesInv'
<1>1. OperationCallback(c)
    BY DEF Callbacks, Executed, OperationCallback
<1>2. CASE AfterOpenFails(c)
    BY <1>1, <1>2, AfterOpenFailsBytes
<1>3. CASE AfterOpen(c)
    BY <1>1, <1>3, AfterOpenBytes
<1>4. CASE AfterSeek(c)
    BY <1>1, <1>4, AfterSeekBytes
<1>5. CASE AfterReadFails(c)
    BY <1>1, <1>5, AfterReadFailsBytes
<1>6. CASE AfterRead(c)
    BY <1>1, <1>6, AfterReadBytes
<1>7. CASE AfterWrite(c)
    BY <1>1, <1>7, AfterWriteBytes
<1>8. CASE AfterClose(c)
    BY <1>1, <1>8, AfterCloseBytes
<1> QED BY <1>2, <1>3, <1>4, <1>5, <1>6, <1>7, <1>8 DEF Callbacks

LEMMA StreamCallbacksBytes ==
    ASSUME IInv, BytesInv, NEW c \in calls, StreamCallbacks(c), UNCHANGED operations
    PROVE  BytesInv'
<1> DEFINE s == c.by
<1>1. s \in Streams /\ StreamCallback(s, c)
    BY DEF StreamCallbacks, StreamCallback, Executed, InFlight
<1>2. CASE StreamOpenFails(s, c)
    BY <1>1, <1>2, StreamOpenFailsBytes
<1>3. CASE StreamOpens(s, c)
    BY <1>1, <1>3, StreamOpensBytes
<1>4. CASE StreamSeeks(s, c)
    BY <1>1, <1>4, StreamSeeksBytes
<1>5. CASE StreamReads(s, c)
    BY <1>1, <1>5, StreamReadsBytes
<1>6. CASE StreamReadFails(s, c)
    BY <1>1, <1>6, StreamReadFailsBytes
<1>7. CASE StreamCloses(s, c)
    BY <1>1, <1>7, StreamClosesBytes
<1> QED BY <1>2, <1>3, <1>4, <1>5, <1>6, <1>7 DEF StreamCallbacks

LEMMA CallsBytes ==
    ASSUME IInv, BytesInv, Calls, UNCHANGED streams PROVE BytesInv'
<1>1. PICK o \in Operations :
        \/ \E k \in Opening : CallOpening(o, k)
        \/ \E at \in 0 .. Size : CallRead(o, at)
        \/ CallClose(o)
    BY DEF Calls
<1> QED BY <1>1, CallOpeningBytes, CallReadBytes, CallCloseBytes

LEMMA StreamProgramBytes ==
    ASSUME IInv, BytesInv, StreamProgram, UNCHANGED operations PROVE BytesInv'
<1>1. PICK s \in Streams :
        \/ \E at \in {-1, 0, 1} : Create(s, at)
        \/ Read(s) \/ Destroy(s) \/ Close(s)
    BY DEF StreamProgram
<1> QED BY <1>1, CreateBytes, ReadBytes, DestroyBytes, CloseBytes

LEMMA StutterBytes ==
    ASSUME BytesInv, UNCHANGED vars PROVE BytesInv'
<1>1. /\ UNCHANGED <<owner, offset, calls, strays>>
      /\ UNCHANGED <<kind, position, got, callbacks, result, disturbed>>
      /\ UNCHANGED <<made, sfd, pos, start, reading, ended, pushed>>
    BY DEF vars, files, operations, streams, state
<1>2. /\ \A a : InFlight(a)' = InFlight(a) /\ Untouched(a)
      /\ Reads' = Reads
    BY <1>1 DEF InFlight, Untouched, Reads
<1>3. \A o \in Operations : PositionOK(o)' /\ (kind'[o] = "none" => got'[o] = <<>>)
    BY <1>1, <1>2, PositionKept DEF BytesInv
<1>4. ASSUME NEW o \in Operations, strays = {} PROVE ReaderOK(o)'
    BY <1>1, <1>2, <1>4, ReaderKept DEF BytesInv
<1>5. ASSUME NEW s \in Streams, strays = {} PROVE StreamReadsOK(s)'
    BY <1>1, <1>2, <1>5, StreamKept DEF BytesInv
<1>6. BytesTypes'
    BY <1>1 DEF BytesInv, BytesTypes
<1> QED BY <1>1, <1>3, <1>4, <1>5, <1>6 DEF BytesInv

\* Every chain of reads is where its next chunk is: of readFile and readdir by how many
\* chunks they have, of a stream by how many it has pushed, of read() at its position.
THEOREM BytesInvariance == Spec => []BytesInv
<1>1. IInv /\ BytesInv /\ [Next]_vars => BytesInv'
    <2> SUFFICES ASSUME IInv, BytesInv, [Next]_vars PROVE BytesInv'
        OBVIOUS
    <2>1. ASSUME NEW c \in calls, Execute(c), UNCHANGED <<operations, streams>> PROVE BytesInv'
        BY <2>1, ExecuteBytes
    <2>2. ASSUME NEW c \in calls, Callbacks(c), UNCHANGED streams PROVE BytesInv'
        BY <2>2, CallbacksBytes
    <2>3. ASSUME NEW c \in calls, StreamCallbacks(c), UNCHANGED operations PROVE BytesInv'
        BY <2>3, StreamCallbacksBytes
    <2>4. CASE Calls /\ UNCHANGED streams
        BY <2>4, CallsBytes
    <2>5. CASE StreamProgram /\ UNCHANGED operations
        BY <2>5, StreamProgramBytes
    <2>6. CASE UNCHANGED vars
        BY <2>6, StutterBytes
    <2> QED BY <2>1, <2>2, <2>3, <2>4, <2>5, <2>6 DEF Next, Pool
<1> QED BY InitBytes, Invariance, <1>1, PTL DEF Spec

\* What a caller is given are the bytes that it asked for: of readFile and readdir the
\* whole file in order, of a stream the front of its part, and all of it once it has
\* ended, unless a stream strayed to another's descriptor; of read() what is at its
\* position, unless it is 0 or another read of the descriptor was under way.
THEOREM RightBytesAlways == Spec => []RightBytes
<1> USE Numbers, EndAssumption
<1>1. ASSUME BytesInv PROVE RightBytes
    <2>1. ASSUME strays = {}, NEW o \in Operations, kind[o] \in Readers, result[o] = "ok"
          PROVE  got[o] = Part(o, 0, Size - 1)
        <3>1. got[o] \in Seq(AChunk) /\ InPlace(got[o], o, 0) /\ Len(got[o]) = Size
            BY <1>1, <2>1 DEF BytesInv, BytesTypes, ReaderOK
        <3>2. Len(got[o]) = (Size - 1) - 0 + 1
            BY <3>1
        <3> QED BY <3>1, <3>2, InPlaceIsPart
    <2>2. ASSUME strays = {}, NEW s \in Streams
          PROVE  /\ pushed[s] = Part(s, First(s), First(s) + Len(pushed[s]) - 1)
                 /\ ended[s] => pushed[s] = Part(s, First(s), LastOf(s))
        <3>1. BytesTypes /\ BeginsOK(s) /\ PushedOK(s)
            BY <1>1, <2>2 DEF BytesInv, StreamReadsOK
        <3>2. /\ pushed[s] \in Seq(AChunk) /\ Len(pushed[s]) \in Nat /\ First(s) \in Int
              /\ NextChunk(s) = First(s) + Len(pushed[s])
            BY <3>1, StreamNumbers
        <3>3. InPlace(pushed[s], s, First(s)) /\ LastOf(s) \in Int
            BY <3>1 DEF PushedOK, LastOf
        <3>4. pushed[s] = Part(s, First(s), First(s) + Len(pushed[s]) - 1)
            <4>1. First(s) + Len(pushed[s]) - 1 \in Int
                  /\ Len(pushed[s]) = (First(s) + Len(pushed[s]) - 1) - First(s) + 1
                BY <3>2
            <4> QED BY <3>2, <3>3, <4>1, InPlaceIsPart
        <3>5. ASSUME ended[s] PROVE pushed[s] = Part(s, First(s), LastOf(s))
            <4>1. NextChunk(s) > LastOf(s) /\ (Len(pushed[s]) > 0 => NextChunk(s) <= LastOf(s) + 1)
                BY <3>1, <3>5 DEF PushedOK
            <4>2. \/ Len(pushed[s]) = LastOf(s) - First(s) + 1
                  \/ Len(pushed[s]) = 0 /\ LastOf(s) < First(s)
                BY <3>2, <3>3, <4>1
            <4> QED BY <3>2, <3>3, <4>2, InPlaceIsPart
        <3> QED BY <3>4, <3>5
    <2>3. ASSUME NEW o \in Operations, kind[o] = "read", ~disturbed[o], position[o] # 0,
                 NEW i \in DOMAIN got[o]
          PROVE  got[o][i].at = position[o]
        <3>1. got[o] \in Seq(AChunk) /\ AtPosition(o)
            BY <1>1, <2>3 DEF BytesInv, BytesTypes, PositionOK
        <3>2. i \in 1 .. Len(got[o])
            BY <2>3, <3>1
        <3> QED BY <3>1, <3>2 DEF AtPosition
    <2> QED BY <2>1, <2>2, <2>3 DEF RightBytes, WholeFiles, PositionsRespected
<1> QED BY <1>1, BytesInvariance, PTL

=============================================================================
