------------------------- MODULE DaemonServe_proofs -------------------------
(***************************************************************************)
(* Proofs about DaemonServe, for any set of clients, mismatched or not,    *)
(* whatever they send and for any number of frames: the reset's counting   *)
(* is exact, every client starts on a clean worker, no history entry mixes *)
(* clients, and the one shared worker implements a session per client.     *)
(***************************************************************************)
EXTENDS DaemonServe, FiniteSetTheorems, SequenceTheorems, TLAPS

InService == {"forward", "join", "reset"}
Clean     == queue = <<>> /\ events = <<>> /\ worker = EmptySession

\* Where a connection is, and which queue holds its client: each at most once.
Placed ==
    /\ \A i \in 1..Len(backlog) : sock[backlog[i]].at = "backlog"
    /\ \A i \in 1..Len(early) : sock[early[i]].at = "early"
    /\ \A i, j \in 1..Len(backlog) : backlog[i] = backlog[j] => i = j
    /\ \A i, j \in 1..Len(early) : early[i] = early[j] => i = j
    /\ \A c \in Clients :
          /\ sock[c].at = "served" => c = cur
          /\ sock[c].at = "out" => ~sock[c].peer /\ sock[c].in = <<>> /\ sock[c].out = <<>>
    /\ phase \in {"greet", "forward"} => sock[cur].at = "served"
    /\ phase \in {"join", "reset"} => sock[cur].at \in {"served", "ended"}

\* The relay writes to the client that is served.
RelayServes == relay => cur \in Clients /\ sock[cur].at = "served"

\* Between clients the worker is clean, and while one is served all it has to do
\* and all it says is that client's, up to the barrier of the reset.
Ours(q)     == \A i \in 1..Len(q) : q[i].from = cur
Said(es)    == \A i \in 1..Len(es) : es[i].for = cur
Barrier     == [from |-> Nobody, frame |-> ResetFrame]
Acked       == [for |-> Nobody, event |-> "Aborted", text |-> <<>>]
Owned ==
    /\ phase \in {"starting", "handover", "next", "greet"} => Clean
    /\ phase \in {"forward", "join"} => Ours(queue) /\ Said(events)
    /\ phase = "reset" =>
          \/ \E q \in Seq(Message) : queue = Append(q, Barrier) /\ Ours(q) /\ Said(events)
          \/ /\ queue = <<>> /\ worker = EmptySession
             /\ \E es \in Seq(WorkerEvent) : events = Append(es, Acked) /\ Said(es)

\* A Flush that is being polished or recorded is the one at the head of the queue.
Staged ==
    worker.stage # "gather" =>
        /\ queue # <<>> /\ Head(queue).frame.cmd = "Flush"
        /\ ~worker.failed

\* Frames go from a client's socket to the queue, their chunks to the session's
\* text and that to the history, and each client numbers them in order.
Increasing(s) == \A i, j \in 1..Len(s) : i < j => s[i].k < s[j].k
\* Frame k has left the connection r, and client c's frame k the queue q too.
Passed(r, k) ==
    /\ k <= r.sent
    /\ \A j \in 1..Len(r.in) : k < r.in[j].k
Behind(r, q, c, k) ==
    /\ r.at \in {"served", "ended"}
    /\ Passed(r, k)
    /\ \A i \in 1..Len(q) : q[i].from = c => k < q[i].frame.k
SocketsOrdered == \A c \in Clients :
    /\ \A i \in 1..Len(sock[c].in) : sock[c].in[i].k <= sock[c].sent
    /\ Increasing(sock[c].in)
QueueOrdered == \A i \in 1..Len(queue) : queue[i].from # Nobody =>
    /\ Passed(sock[queue[i].from], queue[i].frame.k)
    /\ \A j \in 1..Len(queue) : i < j /\ queue[j].from # Nobody => queue[i].frame.k < queue[j].frame.k
TextOrdered == \A a \in 1..Len(worker.parts) :
    /\ worker.parts[a][1] = cur
    /\ Behind(sock[cur], queue, cur, worker.parts[a][2])
    /\ \A b \in 1..Len(worker.parts) : a < b => worker.parts[a][2] < worker.parts[b][2]
PastOrdered == \A i \in 1..Len(history) : \A a \in 1..Len(history[i]) :
    /\ Behind(sock[history[i][a][1]], queue, history[i][a][1], history[i][a][2])
    /\ worker.stage # "recorded" => \A b \in 1..Len(worker.parts) :
          worker.parts[b][1] = history[i][a][1] => history[i][a][2] < worker.parts[b][2]
Ordered == SocketsOrdered /\ QueueOrdered /\ TextOrdered /\ PastOrdered

\* A connection's counts start at nothing.
FreshCounts == phase = "greet" => counts.cancels = counts.aborteds

IInv ==
    /\ TypeOK /\ Placed /\ RelayServes /\ Owned /\ Staged
    /\ FreshCounts /\ UnackedAreCounted /\ Ordered /\ HistoryIsOneClients

-----------------------------------------------------------------------------
(* Counting in sequences *)

Where(s, T) == {i \in 1..Len(s) : s[i] \in T}
Among(s, T) == Cardinality(Where(s, T))

LEMMA AmongFinite ==
    ASSUME NEW S, NEW T, NEW s \in Seq(S)
    PROVE  IsFiniteSet(Where(s, T)) /\ Among(s, T) \in Nat
<1>1. Len(s) \in Nat
    BY LenProperties
<1>2. IsFiniteSet(1..Len(s))
    BY <1>1, FS_Interval
<1>3. Where(s, T) \subseteq 1..Len(s)
    BY DEF Where
<1> QED
    BY <1>2, <1>3, FS_Subset, FS_CardinalityType DEF Among

LEMMA AmongNone ==
    ASSUME NEW T
    PROVE  Among(<<>>, T) = 0
<1>1. Where(<<>>, T) = {}
    BY DEF Where
<1> QED
    BY <1>1, FS_EmptySet DEF Among

\* Appending adds one if the element counts.
LEMMA AmongAppend ==
    ASSUME NEW S, NEW T, NEW s \in Seq(S), NEW e \in S
    PROVE  Among(Append(s, e), T) = Among(s, T) + (IF e \in T THEN 1 ELSE 0)
<1>1. IsFiniteSet(Where(s, T)) /\ Among(s, T) \in Nat
    BY AmongFinite
<1>2. Len(s) \in Nat
    BY LenProperties
<1>3. /\ Len(Append(s, e)) = Len(s) + 1
      /\ \A i \in 1..Len(s) : Append(s, e)[i] = s[i]
      /\ Append(s, e)[Len(s) + 1] = e
    BY AppendProperties
<1>4. Where(Append(s, e), T) = IF e \in T THEN Where(s, T) \cup {Len(s) + 1} ELSE Where(s, T)
    BY <1>2, <1>3 DEF Where
<1>5. Len(s) + 1 \notin Where(s, T)
    BY <1>2 DEF Where
<1>6. Cardinality(Where(s, T) \cup {Len(s) + 1}) = Cardinality(Where(s, T)) + 1
    BY <1>1, <1>5, FS_AddElement
<1> QED
    BY <1>1, <1>4, <1>6 DEF Among

\* Taking the head off takes one away if it counts.
LEMMA AmongTail ==
    ASSUME NEW S, NEW T, NEW s \in Seq(S), s # <<>>
    PROVE  Among(s, T) = Among(Tail(s), T) + (IF Head(s) \in T THEN 1 ELSE 0)
<1> DEFINE later == Where(s, T) \ {1}
           f     == [i \in later |-> i - 1]
<1>1. IsFiniteSet(Where(s, T)) /\ Among(s, T) \in Nat
    BY AmongFinite
<1>2. /\ Len(s) \in Nat \ {0} /\ Len(Tail(s)) = Len(s) - 1
      /\ \A i \in 1..Len(Tail(s)) : Tail(s)[i] = s[i + 1]
      /\ Head(s) = s[1]
    BY HeadTailProperties, EmptySeq
<1>3. f \in Bijection(later, Where(Tail(s), T))
    <2>1. f \in [later -> Where(Tail(s), T)]
        BY <1>2 DEF Where
    <2>2. \A i, j \in later : f[i] = f[j] => i = j
        BY <1>2 DEF Where
    <2>3. \A j \in Where(Tail(s), T) : j + 1 \in later /\ f[j + 1] = j
        BY <1>2 DEF Where
    <2>4. f \in Injection(later, Where(Tail(s), T)) /\ f \in Surjection(later, Where(Tail(s), T))
        BY <2>1, <2>2, <2>3 DEF Injection, Surjection, IsInjective
    <2> QED
        BY <2>4 DEF Bijection
<1>4. ExistsBijection(later, Where(Tail(s), T))
    BY <1>3 DEF ExistsBijection
<1>5. /\ IsFiniteSet(later)
      /\ Cardinality(later) = IF 1 \in Where(s, T) THEN Cardinality(Where(s, T)) - 1
                              ELSE Cardinality(Where(s, T))
    BY <1>1, FS_RemoveElement
<1>6. Among(Tail(s), T) = Cardinality(later)
    <2> HIDE DEF later, f
    <2> QED
        BY <1>4, <1>5, FS_Bijection DEF Among
<1>7. 1 \in Where(s, T) <=> Head(s) \in T
    BY <1>2 DEF Where
<1> QED
    BY <1>1, <1>5, <1>6, <1>7 DEF Among

\* Head, Tail and Append, index by index.
LEMMA Tails ==
    ASSUME NEW S, NEW s \in Seq(S), s # <<>>
    PROVE  /\ Len(s) \in Nat \ {0} /\ 1 \in 1..Len(s) /\ Head(s) = s[1] /\ Head(s) \in S
           /\ Tail(s) \in Seq(S) /\ Len(Tail(s)) = Len(s) - 1
           /\ \A i \in 1..Len(Tail(s)) : /\ i + 1 \in 1..Len(s) /\ i + 1 # 1
                                         /\ Tail(s)[i] = s[i + 1] /\ Tail(s)[i] \in S
<1>1. /\ Len(s) \in Nat \ {0} /\ Tail(s) \in Seq(S) /\ Len(Tail(s)) = Len(s) - 1
      /\ \A i \in 1..Len(Tail(s)) : Tail(s)[i] = s[i + 1]
      /\ Head(s) = s[1] /\ Head(s) \in S
    BY HeadTailProperties, EmptySeq
<1>2. \A i \in 1..Len(Tail(s)) : i + 1 \in 1..Len(s) /\ i + 1 # 1 /\ Tail(s)[i] \in S
    BY <1>1, ElementOfSeq
<1> QED
    BY <1>1, <1>2

LEMMA Appends ==
    ASSUME NEW S, NEW s \in Seq(S), NEW e \in S
    PROVE  /\ Len(s) \in Nat /\ Append(s, e) \in Seq(S) /\ Append(s, e) # <<>>
           /\ Len(Append(s, e)) = Len(s) + 1 /\ Append(s, e)[Len(s) + 1] = e
           /\ \A i \in 1..Len(Append(s, e)) :
                 (i \in 1..Len(s) /\ Append(s, e)[i] = s[i]) \/ (i = Len(s) + 1 /\ Append(s, e)[i] = e)
           /\ \A i \in 1..Len(s) : i \in 1..Len(Append(s, e)) /\ Append(s, e)[i] = s[i]
<1>1. /\ Len(s) \in Nat /\ Append(s, e) \in Seq(S) /\ Append(s, e) # <<>>
      /\ Len(Append(s, e)) = Len(s) + 1 /\ Append(s, e)[Len(s) + 1] = e
      /\ \A i \in 1..Len(s) : Append(s, e)[i] = s[i]
    BY AppendProperties, LenProperties
<1>2. \A i \in 1..Len(s) : i \in 1..Len(Append(s, e)) /\ Append(s, e)[i] = s[i]
    BY <1>1
<1>3. \A i \in 1..Len(Append(s, e)) :
         (i \in 1..Len(s) /\ Append(s, e)[i] = s[i]) \/ (i = Len(s) + 1 /\ Append(s, e)[i] = e)
    <2> SUFFICES ASSUME NEW i \in 1..Len(Append(s, e)), i # Len(s) + 1
                 PROVE  i \in 1..Len(s)
        BY <1>1
    <2> QED BY <1>1
<1> QED
    BY <1>1, <1>2, <1>3

-----------------------------------------------------------------------------
(* What is still to come: Cancels in the queue, Aborteds among the events *)

Cancels  == {m \in Message : m.frame.cmd = "Cancel"}
Aborteds == {e \in WorkerEvent : e.event = "Aborted"}

\* Unacked, now and after a step.
Due == Among(queue, Cancels) + Among(events, Aborteds)

LEMMA UnackedIsDue ==
    ASSUME TypeOK, TypeOK'
    PROVE  Unacked = Due /\ Unacked' = Due'
<1>1. queue \in Seq(Message) /\ queue' \in Seq(Message)
      /\ events \in Seq(WorkerEvent) /\ events' \in Seq(WorkerEvent)
    BY DEF TypeOK
<1>2. {i \in DOMAIN queue : queue[i].frame.cmd = "Cancel"} = Where(queue, Cancels)
    BY <1>1, LenProperties, ElementOfSeq DEF Where, Cancels
<1>3. {i \in DOMAIN events : events[i].event = "Aborted"} = Where(events, Aborteds)
    BY <1>1, LenProperties, ElementOfSeq DEF Where, Aborteds
<1>4. {i \in DOMAIN queue' : queue'[i].frame.cmd = "Cancel"} = Where(queue', Cancels)
    BY <1>1, LenProperties, ElementOfSeq DEF Where, Cancels
<1>5. {i \in DOMAIN events' : events'[i].event = "Aborted"} = Where(events', Aborteds)
    BY <1>1, LenProperties, ElementOfSeq DEF Where, Aborteds
<1>6. Unacked = Due
    BY <1>2, <1>3 DEF Unacked, Count, IsCancel, IsAborted, Among, Due
<1>7. Unacked' = Due'
    BY <1>4, <1>5 DEF Unacked, Count, IsCancel, IsAborted, Among, Due
<1> QED
    BY <1>6, <1>7

LEMMA DueTypes ==
    ASSUME TypeOK
    PROVE  Among(queue, Cancels) \in Nat /\ Among(events, Aborteds) \in Nat
<1>1. queue \in Seq(Message) /\ events \in Seq(WorkerEvent)
    BY DEF TypeOK
<1> QED
    BY <1>1, AmongFinite

-----------------------------------------------------------------------------
(* Types *)

LEMMA Typed ==
    /\ <<>> \in Seq(Piece) /\ <<>> \in Seq(Frames) /\ <<>> \in Seq(ToldEvent)
    /\ <<>> \in Seq(Message) /\ <<>> \in Seq(WorkerEvent) /\ <<>> \in Seq(Clients)
    /\ <<>> \in Seq(Seq(Piece))
    /\ EmptySession \in Session
    /\ \A e \in EventKind : Event(e, <<>>) \in ToldEvent
<1>1. \A S : <<>> \in Seq(S)
    BY EmptySeq
<1> QED
    BY <1>1 DEF EmptySession, Session, Event, ToldEvent

LEMMA InitIInv ==
    Init => IInv
<1> SUFFICES ASSUME Init PROVE IInv
    OBVIOUS
<1>1. \A c \in Clients : sock[c] = [at |-> "out", peer |-> FALSE, sent |-> 0, in |-> <<>>, out |-> <<>>]
    BY DEF Init
<1>2. TypeOK
    <2>1. sock \in [Clients -> Connection]
        <3>1. [at |-> "out", peer |-> FALSE, sent |-> 0, in |-> <<>>, out |-> <<>>] \in Connection
            BY Typed, ClientsAssumption DEF Connection
        <3> QED BY <3>1 DEF Init
    <2>2. backlog \in Seq(Clients) /\ early \in Seq(Clients) /\ queue \in Seq(Message)
          /\ events \in Seq(WorkerEvent) /\ worker \in Session /\ history \in Seq(Seq(Piece))
        BY Typed DEF Init
    <2>3. counts = [cancels |-> 0, aborteds |-> 0] /\ drain = 0
        BY DEF Init
    <2>4. phase = "starting" /\ cur = Nobody /\ relay = FALSE
        BY DEF Init
    <2>5. counts \in [cancels : Nat, aborteds : Nat] /\ drain \in Int
        BY <2>3
    <2> QED BY <2>1, <2>2, <2>4, <2>5 DEF TypeOK
<1>3. \A s \in {backlog, early, queue, events, worker.parts, history} : s = <<>> /\ Len(s) = 0 /\ DOMAIN s = {}
    <2>1. Len(<<>>) = 0 /\ DOMAIN <<>> = {}
        OBVIOUS
    <2> QED BY <2>1 DEF Init, EmptySession
<1>4. Placed /\ RelayServes
    BY <1>1, <1>3 DEF Init, Placed, RelayServes
<1>5. Owned /\ Staged
    BY DEF Init, Owned, Clean, Staged, EmptySession
<1>6. UnackedAreCounted /\ FreshCounts
    BY DEF Init, UnackedAreCounted, FreshCounts
<1>7. Ordered
    BY <1>1, <1>3 DEF Init, Ordered, SocketsOrdered, QueueOrdered, TextOrdered, PastOrdered,
                      Passed, Increasing, EmptySession
<1>8. HistoryIsOneClients
    BY <1>3 DEF HistoryIsOneClients
<1> QED
    BY <1>2, <1>4, <1>5, <1>6, <1>7, <1>8 DEF IInv

-----------------------------------------------------------------------------
(* Every step keeps the types *)

\* One client's connection changes at a time.
LEMMA ClientTypes ==
    ASSUME TypeOK, NEW c \in Clients, NEW cmd \in ClientMsg,
           Connect(c) \/ Leave(c) \/ Submit(c, cmd)
    PROVE  TypeOK'
<1>0. sock \in [Clients -> Connection] /\ backlog \in Seq(Clients)
    BY DEF TypeOK
<1>1. CASE Connect(c)
    <2>1. sock' \in [Clients -> Connection]
        BY <1>0, <1>1 DEF Connect, Connection
    <2>2. backlog' \in Seq(Clients)
        BY <1>0, <1>1, AppendProperties DEF Connect
    <2> QED BY <1>1, <2>1, <2>2 DEF TypeOK, Connect, mainVars, workVars
<1>2. CASE Leave(c)
    <2>1. sock' \in [Clients -> Connection]
        BY <1>0, <1>2 DEF Leave, Connection
    <2> QED BY <1>2, <2>1 DEF TypeOK, Leave, mainVars, workVars
<1>3. CASE Submit(c, cmd)
    <2> DEFINE f == [cmd |-> cmd, k |-> sock[c].sent + 1]
    <2>1. sock[c].sent \in Nat /\ sock[c].sent + 1 \in 1..MaxFrames
        BY <1>0, <1>3, ClientsAssumption DEF Submit, FrameBound, Connection
    <2>2. f \in Frames
        BY <1>3, <2>1 DEF Submit, Frames
    <2>3. Append(sock[c].in, f) \in Seq(Frames)
        BY <1>0, <2>2, AppendProperties DEF Connection
    <2>4. sock' \in [Clients -> Connection]
        <3> DEFINE i == Append(sock[c].in, f)
                   n == sock[c].sent + 1
        <3>1. sock' = [sock EXCEPT ![c].sent = n, ![c].in = i]
            BY <1>3 DEF Submit
        <3>2. n \in 0..MaxFrames /\ i \in Seq(Frames)
            BY <2>1, <2>3, ClientsAssumption
        <3> HIDE DEF i, n
        <3> QED BY <1>0, <3>1, <3>2 DEF Connection
    <2> QED BY <1>3, <2>4 DEF TypeOK, Submit, mainVars, workVars
<1> QED BY <1>1, <1>2, <1>3

LEMMA EndedTypes ==
    ASSUME TypeOK, NEW c \in Clients, Ended(c) \/ Refused(c)
    PROVE  sock' \in [Clients -> Connection]
<1>0. sock \in [Clients -> Connection] /\ <<>> \in Seq(Frames)
    BY Typed DEF TypeOK
<1>1. CASE Ended(c)
    BY <1>0, <1>1 DEF Ended, Connection
<1>2. CASE Refused(c)
    <2> DEFINE o == IF sock[c].peer THEN Append(sock[c].out, Event("Error", <<>>)) ELSE sock[c].out
    <2>1. o \in Seq(ToldEvent)
        BY <1>0, Typed, AppendProperties DEF Connection, EventKind
    <2>2. sock' = [sock EXCEPT ![c].at = "ended", ![c].in = <<>>, ![c].out = o]
        BY <1>2 DEF Refused
    <2> HIDE DEF o
    <2> QED BY <1>0, <2>1, <2>2 DEF Connection
<1> QED BY <1>1, <1>2

LEMMA StartupTypes ==
    ASSUME TypeOK, NEW c \in Clients, Startup(c)
    PROVE  TypeOK'
<1>0. sock \in [Clients -> Connection] /\ early \in Seq(Clients) /\ sock[c] \in Connection
    BY DEF TypeOK
<1>1. ASSUME HasFrame(c) PROVE Tail(sock[c].in) \in Seq(Frames)
    BY <1>0, <1>1, HeadTailProperties DEF HasFrame, Connection
<1>2. \A e \in EventKind : Append(sock[c].out, Event(e, <<>>)) \in Seq(ToldEvent)
    BY <1>0, Typed, AppendProperties DEF Connection
<1>3. sock' \in [Clients -> Connection]
    <2>1. CASE Ended(c) \/ Refused(c)
        BY <2>1, EndedTypes
    <2>2. CASE /\ Greets(c)
               /\ sock' = [sock EXCEPT ![c].at = "startup", ![c].in = Tail(@),
                                  ![c].out = Append(@, Event("Hello", <<>>))]
        <3> DEFINE o == Append(sock[c].out, Event("Hello", <<>>))
                   i == Tail(sock[c].in)
        <3>1. o \in Seq(ToldEvent) /\ i \in Seq(Frames)
            BY <1>1, <1>2, <2>2 DEF EventKind, Greets
        <3>2. sock' = [sock EXCEPT ![c].at = "startup", ![c].in = i, ![c].out = o]
            BY <2>2
        <3> HIDE DEF o, i
        <3> QED BY <1>0, <3>1, <3>2 DEF Connection
    <2>3. CASE HasFrame(c) /\ sock' = [sock EXCEPT ![c].in = Tail(@)]
        <3> DEFINE i == Tail(sock[c].in)
        <3>1. i \in Seq(Frames) /\ sock' = [sock EXCEPT ![c].in = i]
            BY <1>1, <2>3
        <3> HIDE DEF i
        <3> QED BY <1>0, <3>1 DEF Connection
    <2>4. CASE HasFrame(c) /\ sock' = [sock EXCEPT ![c].in = Tail(@),
                                                  ![c].out = Append(@, Event("Error", <<>>))]
        <3> DEFINE o == Append(sock[c].out, Event("Error", <<>>))
                   i == Tail(sock[c].in)
        <3>1. o \in Seq(ToldEvent) /\ i \in Seq(Frames)
            BY <1>1, <1>2, <2>4 DEF EventKind
        <3>2. sock' = [sock EXCEPT ![c].in = i, ![c].out = o]
            BY <2>4
        <3> HIDE DEF o, i
        <3> QED BY <1>0, <3>1, <3>2 DEF Connection
    <2>5. CASE sock' = [sock EXCEPT ![c].at = "early", ![c].out = Append(@, Event("Ready", <<>>))]
        <3> DEFINE o == Append(sock[c].out, Event("Ready", <<>>))
        <3>1. o \in Seq(ToldEvent) /\ sock' = [sock EXCEPT ![c].at = "early", ![c].out = o]
            BY <1>2, <2>5 DEF EventKind
        <3> HIDE DEF o
        <3> QED BY <1>0, <3>1 DEF Connection
    <2> QED BY <2>1, <2>2, <2>3, <2>4, <2>5
        DEF Startup, StartupHandshake, StartupReads, StartupEnds, StartupReady
<1>4. early' \in Seq(Clients)
    BY <1>0, AppendProperties DEF Startup, StartupHandshake, StartupReads, StartupEnds, StartupReady
<1>5. UNCHANGED <<mainVars, relay, backlog, queue, events, workVars>>
    BY DEF Startup, StartupHandshake, StartupReads, StartupEnds, StartupReady
<1> QED BY <1>3, <1>4, <1>5 DEF TypeOK, mainVars, workVars

LEMMA MainTypes ==
    ASSUME TypeOK, Main
    PROVE  TypeOK'
<1>0. sock \in [Clients -> Connection] /\ early \in Seq(Clients) /\ backlog \in Seq(Clients)
      /\ queue \in Seq(Message) /\ events \in Seq(WorkerEvent)
      /\ counts \in [cancels : Nat, aborteds : Nat] /\ drain \in Int
    BY DEF TypeOK
<1>1. CASE AcceptStartup
    <2>1. Head(backlog) \in Clients /\ backlog' \in Seq(Clients)
        BY <1>0, <1>1, HeadTailProperties DEF AcceptStartup
    <2>2. sock' \in [Clients -> Connection]
        BY <1>0, <1>1, <2>1 DEF AcceptStartup, Connection
    <2> QED BY <1>1, <2>1, <2>2 DEF TypeOK, AcceptStartup, mainVars, workVars
<1>2. CASE HandoverDone
    BY <1>2 DEF TypeOK, HandoverDone, workVars
<1>3. CASE ServeEarly
    <2>1. Head(early) \in Clients /\ early' \in Seq(Clients)
        BY <1>0, <1>3, HeadTailProperties DEF ServeEarly
    <2>2. sock' \in [Clients -> Connection]
        BY <1>0, <1>3, <2>1 DEF ServeEarly, Connection
    <2>3. cur' \in Clients /\ cur' # Nobody /\ counts' \in [cancels : Nat, aborteds : Nat]
        BY <1>3, <2>1, ClientsAssumption DEF ServeEarly, Serving
    <2> QED BY <1>3, <2>1, <2>2, <2>3 DEF TypeOK, ServeEarly, workVars
<1>4. CASE Accept
    <2>1. Head(backlog) \in Clients /\ backlog' \in Seq(Clients)
        BY <1>0, <1>4, HeadTailProperties DEF Accept
    <2>2. sock' \in [Clients -> Connection]
        BY <1>0, <1>4, <2>1 DEF Accept, Connection
    <2>3. cur' \in Clients /\ cur' # Nobody /\ counts' \in [cancels : Nat, aborteds : Nat]
        BY <1>4, <2>1, ClientsAssumption DEF Accept, Serving
    <2> QED BY <1>4, <2>1, <2>2, <2>3 DEF TypeOK, Accept, workVars
<1>5. CASE ServeHandshake
    <2>1. cur \in Clients /\ sock[cur] \in Connection
        BY <1>0, <1>5 DEF TypeOK, ServeHandshake
    <2>2. sock' \in [Clients -> Connection]
        <3>1. CASE Refused(cur) \/ Ended(cur)
            BY <2>1, <3>1, EndedTypes
        <3>2. CASE /\ Greets(cur)
                   /\ sock' = [sock EXCEPT ![cur].in = Tail(@),
                                  ![cur].out = @ \o <<Event("Hello", <<>>), Event("Ready", <<>>)>>]
            <4> DEFINE i == Tail(sock[cur].in)
                       two == <<Event("Hello", <<>>), Event("Ready", <<>>)>>
                       o == sock[cur].out \o two
            <4>1. i \in Seq(Frames)
                BY <2>1, <3>2, HeadTailProperties DEF Greets, HasFrame, Connection
            <4>2. two \in Seq(ToldEvent)
                BY Typed DEF EventKind
            <4>3. o \in Seq(ToldEvent)
                BY <2>1, <4>2, ConcatProperties DEF Connection
            <4>4. sock' = [sock EXCEPT ![cur].in = i, ![cur].out = o]
                BY <3>2
            <4> HIDE DEF i, o
            <4> QED BY <1>0, <2>1, <4>1, <4>3, <4>4 DEF Connection
        <3> QED BY <1>5, <3>1, <3>2 DEF ServeHandshake
    <2>3. phase' \in {"forward", "join"} /\ relay' \in BOOLEAN
        BY <1>5 DEF TypeOK, ServeHandshake
    <2> QED BY <1>5, <2>1, <2>2, <2>3 DEF TypeOK, ServeHandshake, workVars
<1>6. CASE Forward
    <2>1. cur \in Clients /\ sock[cur].in \in Seq(Frames) /\ sock[cur].in # <<>>
        BY <1>0, <1>6 DEF TypeOK, Forward, HasFrame, Connection
    <2> DEFINE f == Head(sock[cur].in)
               i == Tail(sock[cur].in)
    <2>2. f \in Frames /\ i \in Seq(Frames)
        BY <2>1, HeadTailProperties
    <2>3. sock' = [sock EXCEPT ![cur].in = i]
        BY <1>6 DEF Forward
    <2>4. queue' = queue \/ queue' = Append(queue, [from |-> cur, frame |-> f])
        BY <1>6 DEF Forward
    <2>5. phase' \in {"forward", "join"} /\ counts' \in [cancels : Nat, aborteds : Nat]
        BY <1>0, <1>6 DEF Forward
    <2>6. UNCHANGED <<cur, drain, relay, backlog, early, events, workVars>> /\ phase = "forward"
        BY <1>6 DEF Forward
    <2> HIDE DEF f, i
    <2>7. sock' \in [Clients -> Connection]
        BY <1>0, <2>1, <2>2, <2>3 DEF Connection
    <2>8. [from |-> cur, frame |-> f] \in Message
        BY <2>1, <2>2 DEF Message
    <2>9. queue' \in Seq(Message)
        <3> DEFINE m == [from |-> cur, frame |-> f]
        <3>1. m \in Message /\ (queue' = queue \/ queue' = Append(queue, m))
            BY <2>4, <2>8
        <3> HIDE DEF m
        <3>2. Append(queue, m) \in Seq(Message)
            BY <1>0, <3>1, AppendProperties
        <3> QED BY <1>0, <3>1, <3>2
    <2> QED BY <2>1, <2>5, <2>6, <2>7, <2>9 DEF TypeOK, workVars
<1>7. CASE ForwardEnds
    BY <1>7 DEF TypeOK, ForwardEnds, workVars
<1>8. CASE BeginReset
    <2>1. [from |-> Nobody, frame |-> ResetFrame] \in Message
        BY DEF Message
    <2>2. queue' \in Seq(Message)
        BY <1>0, <1>8, <2>1, AppendProperties DEF BeginReset
    <2>3. drain' \in Int
        BY <1>0, <1>8 DEF BeginReset
    <2> QED BY <1>8, <2>2, <2>3 DEF TypeOK, BeginReset, workVars
<1>9. CASE ResetDrains
    <2>1. cur \in Clients
        BY <1>9 DEF TypeOK, ResetDrains
    <2>2. events' \in Seq(WorkerEvent)
        BY <1>0, <1>9, HeadTailProperties DEF ResetDrains
    <2>3. drain' \in Int
        BY <1>0, <1>9 DEF ResetDrains
    <2>4. sock' \in [Clients -> Connection]
        BY <1>0, <1>9, <2>1, EndedTypes DEF ResetDrains
    <2> QED BY <1>9, <2>2, <2>3, <2>4 DEF TypeOK, ResetDrains, workVars
<1> QED BY <1>1, <1>2, <1>3, <1>4, <1>5, <1>6, <1>7, <1>8, <1>9 DEF Main

LEMMA RelayTypes ==
    ASSUME TypeOK, Relay
    PROVE  TypeOK'
<1>0. sock \in [Clients -> Connection] /\ events \in Seq(WorkerEvent)
      /\ counts \in [cancels : Nat, aborteds : Nat]
    BY DEF TypeOK
<1>1. CASE RelayEvent
    <2>1. cur \in Clients /\ sock[cur] \in Connection
        BY <1>0, <1>1 DEF TypeOK, RelayEvent
    <2>2. Head(events) \in WorkerEvent /\ events' \in Seq(WorkerEvent)
        BY <1>0, <1>1, HeadTailProperties DEF RelayEvent
    <2>3. counts' \in [cancels : Nat, aborteds : Nat]
        BY <1>0, <1>1 DEF RelayEvent
    <2> DEFINE o == Append(sock[cur].out, Event(Head(events).event, Head(events).text))
    <2>4. Event(Head(events).event, Head(events).text) \in ToldEvent
        BY <2>2 DEF WorkerEvent, ToldEvent, Event
    <2>5. o \in Seq(ToldEvent)
        BY <2>1, <2>4, AppendProperties DEF Connection
    <2>6. sock' = [sock EXCEPT ![cur].out = o] \/ sock' = sock
        BY <1>1 DEF RelayEvent
    <2>7. sock' \in [Clients -> Connection]
        <3> HIDE DEF o
        <3>1. CASE sock' = sock
            BY <1>0, <3>1
        <3>2. CASE sock' = [sock EXCEPT ![cur].out = o]
            BY <1>0, <2>1, <2>5, <3>2 DEF Connection
        <3> QED BY <2>6, <3>1, <3>2
    <2>8. relay' \in BOOLEAN /\ (relay' => relay)
        BY <1>1 DEF RelayEvent, TypeOK
    <2>9. UNCHANGED <<phase, cur, drain, backlog, early, queue, workVars>>
        BY <1>1 DEF RelayEvent
    <2> QED BY <2>2, <2>3, <2>7, <2>8, <2>9 DEF TypeOK, workVars
<1>2. CASE RelayEnds
    BY <1>2 DEF TypeOK, RelayEnds, mainVars, workVars
<1> QED BY <1>1, <1>2 DEF Relay

\* Only a client's message is a chunk: its piece has an owner.
LEMMA WorkerTypes ==
    ASSUME TypeOK, Worker
    PROVE  TypeOK'
<1>0. queue \in Seq(Message) /\ events \in Seq(WorkerEvent) /\ worker \in Session
      /\ history \in Seq(Seq(Piece)) /\ queue # <<>>
    BY DEF TypeOK, Worker, WorkerStart, WorkerChunk, WorkerCancel, WorkerFlush, WorkerPolishes,
           WorkerRecords, WorkerAnswers, Works, Flushing
<1>1. Head(queue) \in Message /\ Tail(queue) \in Seq(Message)
    BY <1>0, HeadTailProperties
<1>2. Head(queue).from \in Clients \cup {Nobody}
    BY <1>1 DEF Message
<1>3. queue' \in Seq(Message)
    BY <1>0, <1>1 DEF Worker, WorkerStart, WorkerChunk, WorkerCancel, WorkerFlush, WorkerPolishes,
           WorkerRecords, WorkerAnswers, Works
<1>4. UNCHANGED <<mainVars, relay, backlog, early, sock>>
    BY DEF Worker, WorkerStart, WorkerChunk, WorkerCancel, WorkerFlush, WorkerPolishes,
           WorkerRecords, WorkerAnswers, Works
<1>5. ASSUME NEW e \in EventKind, NEW text \in Seq(Piece), Emits(e, text)
      PROVE  events' \in Seq(WorkerEvent)
    <2>1. [for |-> Head(queue).from, event |-> e, text |-> text] \in WorkerEvent
        BY <1>2 DEF WorkerEvent
    <2> QED BY <1>0, <1>5, <2>1, AppendProperties DEF Emits
<1>6. Rest \in Session /\ EmptySession \in Session
    BY <1>0, Typed DEF Rest, Session
<1>7. CASE WorkerStart
    BY <1>0, <1>3, <1>4, <1>6, <1>7 DEF TypeOK, WorkerStart, Session, mainVars
<1>8. CASE WorkerChunk
    <2> DEFINE piece == <<Head(queue).from, Head(queue).frame.k>>
    <2>1. piece \in Piece
        BY <1>1, <1>8 DEF Message, Frames, ResetFrame, Piece, WorkerChunk, Works
    <2>2. <<piece>> \in Seq(Piece) /\ Append(worker.parts, piece) \in Seq(Piece)
        BY <1>0, <2>1, AppendProperties DEF Session
    <2>3. events' \in Seq(WorkerEvent)
        BY <1>0, <1>5, <1>8, <2>2 DEF WorkerChunk, EventKind
    <2>4. worker' \in Session
        <3> DEFINE p == Append(worker.parts, piece)
        <3>1. worker' = [worker EXCEPT !.parts = p] \/ worker' = [worker EXCEPT !.failed = TRUE]
            BY <1>8 DEF WorkerChunk
        <3> HIDE DEF p
        <3>2. p \in Seq(Piece)
            BY <2>2 DEF p
        <3> QED BY <1>0, <3>1, <3>2 DEF Session
    <2> QED BY <1>0, <1>3, <1>4, <1>8, <2>3, <2>4 DEF TypeOK, WorkerChunk, mainVars
<1>9. CASE WorkerFlush \/ WorkerAnswers \/ WorkerCancel
    <2>1. worker.parts \in Seq(Piece) /\ <<>> \in Seq(Piece)
        BY <1>0, Typed DEF Session
    <2>2. events' \in Seq(WorkerEvent)
        BY <1>5, <1>9, <2>1 DEF WorkerFlush, WorkerAnswers, WorkerCancel, EventKind
    <2>3. worker' \in Session /\ history' = history
        BY <1>6, <1>9 DEF WorkerFlush, WorkerAnswers, WorkerCancel
    <2> QED BY <1>0, <1>3, <1>4, <2>2, <2>3 DEF TypeOK, mainVars
<1>10. CASE WorkerPolishes \/ WorkerRecords
    <2>1. worker.parts \in Seq(Piece) /\ <<>> \in Seq(Piece)
        BY <1>0, Typed DEF Session
    <2>2. events' \in Seq(WorkerEvent)
        BY <1>0, <1>5, <1>10, <2>1 DEF WorkerPolishes, WorkerRecords, EventKind
    <2>3. worker' \in Session
        BY <1>0, <1>10 DEF WorkerPolishes, WorkerRecords, Session
    <2>4. history' \in Seq(Seq(Piece))
        <3>1. history' = history \/ history' = Append(history, worker.parts)
            BY <1>10 DEF WorkerPolishes, WorkerRecords
        <3>2. Append(history, worker.parts) \in Seq(Seq(Piece))
            BY <1>0, <2>1, AppendProperties
        <3> QED BY <1>0, <3>1, <3>2
    <2> QED BY <1>0, <1>3, <1>4, <2>2, <2>3, <2>4 DEF TypeOK, mainVars
<1> QED BY <1>7, <1>8, <1>9, <1>10 DEF Worker

LEMMA ExitTypes ==
    ASSUME TypeOK, Loaded \/ Terminate \/ ResetTimesOut \/ IdleExit
    PROVE  TypeOK'
<1>1. CASE Loaded
    BY <1>1 DEF TypeOK, Loaded, workVars
<1>2. CASE Terminate \/ ResetTimesOut \/ IdleExit
    BY <1>2 DEF TypeOK, Terminate, ResetTimesOut, IdleExit, Exits, workVars
<1> QED BY <1>1, <1>2

LEMMA TypesKept ==
    ASSUME TypeOK, Next
    PROVE  TypeOK'
<1>1. ASSUME NEW c \in Clients, Connect(c) \/ Leave(c) \/ \E cmd \in ClientMsg : Submit(c, cmd)
      PROVE  TypeOK'
    BY <1>1, ClientTypes DEF ClientMsg
<1> QED BY <1>1, StartupTypes, MainTypes, RelayTypes, WorkerTypes, ExitTypes DEF Next, Client

LEMMA WorkerLeaves ==
    ASSUME Worker
    PROVE  phase # "exited" /\ UNCHANGED <<mainVars, relay, backlog, early, sock>>
BY DEF Worker, WorkerStart, WorkerChunk, WorkerCancel, WorkerFlush, WorkerPolishes,
       WorkerRecords, WorkerAnswers, Works, Flushing

-----------------------------------------------------------------------------
(* Every connection keeps its place *)


LEMMA PlacedSame ==
    ASSUME TypeOK, Placed, UNCHANGED <<backlog, early, cur>>,
           \/ phase' \notin {"greet", "forward", "join", "reset"}
           \/ phase' = phase
           \/ phase \in {"greet", "forward", "join"} /\ phase' \in {"join", "reset"}
           \/ phase = "greet" /\ phase' = "forward",
           \A d \in Clients : sock'[d].at = sock[d].at /\ (sock[d].at = "out" => sock'[d] = sock[d])
    PROVE  Placed'
<1>1. (\A i \in 1..Len(backlog) : backlog[i] \in Clients) /\ (\A i \in 1..Len(early) : early[i] \in Clients)
    BY ElementOfSeq DEF TypeOK
<1> QED BY <1>1 DEF Placed, TypeOK

LEMMA ClientPlaced ==
    ASSUME TypeOK, Placed, NEW c \in Clients, NEW cmd \in ClientMsg,
           Connect(c) \/ Leave(c) \/ Submit(c, cmd)
    PROVE  Placed'
<1>0. sock \in [Clients -> Connection] /\ backlog \in Seq(Clients)
    BY DEF TypeOK
<1>1. CASE Connect(c)
    <2>1. /\ Len(backlog) \in Nat /\ Len(backlog') = Len(backlog) + 1 /\ backlog'[Len(backlog) + 1] = c
          /\ \A i \in 1..Len(backlog) : backlog'[i] = backlog[i]
        BY <1>0, <1>1, AppendProperties, LenProperties DEF Connect
    <2>2. \A i \in 1..Len(backlog) : backlog[i] \in Clients /\ backlog[i] # c
        BY <1>0, <1>1, ElementOfSeq DEF Placed, Connect
    <2>3. \A i \in 1..Len(early) : early[i] \in Clients /\ early[i] # c
        BY <1>1, ElementOfSeq DEF Placed, TypeOK, Connect
    <2>4. sock'[c].at = "backlog" /\ \A d \in Clients : d # c => sock'[d] = sock[d]
        BY <1>0, <1>1 DEF Connect, Connection
    <2>5. UNCHANGED <<cur, phase, early>> /\ sock[c].at = "out"
        BY <1>1 DEF Connect, mainVars
    <2>6. \A i \in 1..Len(backlog') : sock'[backlog'[i]].at = "backlog"
        <3> SUFFICES ASSUME NEW i \in 1..Len(backlog') PROVE sock'[backlog'[i]].at = "backlog"
            OBVIOUS
        <3>1. CASE i = Len(backlog) + 1
            BY <2>1, <2>4, <3>1
        <3>2. CASE i \in 1..Len(backlog)
            BY <2>1, <2>2, <2>4, <3>2 DEF Placed
        <3> QED BY <2>1, <3>1, <3>2
    <2>7. \A i \in 1..Len(early') : sock'[early'[i]].at = "early"
        BY <2>3, <2>4, <2>5 DEF Placed
    <2>8. \A i, j \in 1..Len(backlog') : backlog'[i] = backlog'[j] => i = j
        BY <2>1, <2>2 DEF Placed
    <2>9. \A d \in Clients : /\ sock'[d].at = "served" => d = cur
                             /\ sock'[d].at = "out" => ~sock'[d].peer /\ sock'[d].in = <<>> /\ sock'[d].out = <<>>
        BY <2>4 DEF Placed
    <2>10. phase \in {"greet", "forward", "join", "reset"} => sock'[cur] = sock[cur]
        BY <2>4, <2>5 DEF Placed, TypeOK
    <2>11. \A i, j \in 1..Len(early') : early'[i] = early'[j] => i = j
        BY <2>5 DEF Placed
    <2> QED BY <2>5, <2>6, <2>7, <2>8, <2>9, <2>10, <2>11 DEF Placed
<1>2. CASE Leave(c) \/ Submit(c, cmd)
    <2>1. sock[c].peer
        BY <1>2 DEF Leave, Submit
    <2>2. sock[c].at # "out"
        BY <2>1 DEF Placed
    <2>3. \A d \in Clients : sock'[d].at = sock[d].at /\ (sock[d].at = "out" => sock'[d] = sock[d])
        BY <1>0, <1>2, <2>2 DEF Leave, Submit, Connection
    <2>4. UNCHANGED <<mainVars, backlog, early>>
        BY <1>2 DEF Leave, Submit
    <2> QED BY <2>3, <2>4, PlacedSame DEF mainVars
<1> QED BY <1>1, <1>2

\* Client c moves on, out of the queue it was the first of if it was in one.
Moves(c) ==
    /\ sock[c].at # "out"
    /\ sock'[c].at \notin {"out", "backlog", "early"}
    /\ \A d \in Clients : d # c => sock'[d] = sock[d]
    /\ sock'[c].at = "served" => cur' = c
    /\ \A d \in Clients : d # c => (sock[d].at = "served" => d = cur')
    /\ \/ sock[c].at # "backlog" /\ backlog' = backlog
       \/ backlog # <<>> /\ c = Head(backlog) /\ backlog' = Tail(backlog)
    /\ \/ sock[c].at # "early" /\ early' = early
       \/ early # <<>> /\ c = Head(early) /\ early' = Tail(early)
    /\ phase' \in {"greet", "forward"} => sock'[cur'].at = "served"
    /\ phase' \in {"join", "reset"} => sock'[cur'].at \in {"served", "ended"}

LEMMA PlacedMoved ==
    ASSUME TypeOK, Placed, NEW c \in Clients, Moves(c)
    PROVE  Placed'
<1>0. backlog \in Seq(Clients) /\ early \in Seq(Clients)
    BY DEF TypeOK
<1>1. /\ \A i \in 1..Len(backlog') : backlog'[i] \in Clients /\ backlog'[i] # c /\ sock'[backlog'[i]].at = "backlog"
      /\ \A i, j \in 1..Len(backlog') : backlog'[i] = backlog'[j] => i = j
    <2>1. CASE backlog' = backlog /\ sock[c].at # "backlog"
        BY <1>0, <2>1, ElementOfSeq DEF Placed, Moves
    <2>2. CASE backlog # <<>> /\ c = Head(backlog) /\ backlog' = Tail(backlog)
        <3>1. /\ 1 \in 1..Len(backlog) /\ backlog[1] = c
              /\ \A i \in 1..Len(backlog') : /\ i + 1 \in 1..Len(backlog) /\ i + 1 # 1
                                           /\ backlog'[i] = backlog[i + 1] /\ backlog'[i] \in Clients
            BY <1>0, <2>2, Tails
        <3>2. \A i, j \in 1..Len(backlog) : backlog[i] = backlog[j] => i = j
            BY DEF Placed
        <3>3. \A i \in 1..Len(backlog') : backlog'[i] # c
            BY <3>1, <3>2
        <3>4. \A i \in 1..Len(backlog') : sock'[backlog'[i]].at = "backlog"
            BY <3>1, <3>3 DEF Placed, Moves
        <3>5. \A i, j \in 1..Len(backlog') : backlog'[i] = backlog'[j] => i = j
            <4> SUFFICES ASSUME NEW i \in 1..Len(backlog'), NEW j \in 1..Len(backlog'), backlog'[i] = backlog'[j]
                         PROVE  i = j
                OBVIOUS
            <4>1. i + 1 = j + 1
                BY <3>1, <3>2
            <4> QED BY <4>1
        <3> QED BY <3>1, <3>3, <3>4, <3>5
    <2> QED BY <2>1, <2>2 DEF Moves
<1>2. /\ \A i \in 1..Len(early') : early'[i] \in Clients /\ early'[i] # c /\ sock'[early'[i]].at = "early"
      /\ \A i, j \in 1..Len(early') : early'[i] = early'[j] => i = j
    <2>1. CASE early' = early /\ sock[c].at # "early"
        BY <1>0, <2>1, ElementOfSeq DEF Placed, Moves
    <2>2. CASE early # <<>> /\ c = Head(early) /\ early' = Tail(early)
        <3>1. /\ 1 \in 1..Len(early) /\ early[1] = c
              /\ \A i \in 1..Len(early') : /\ i + 1 \in 1..Len(early) /\ i + 1 # 1
                                           /\ early'[i] = early[i + 1] /\ early'[i] \in Clients
            BY <1>0, <2>2, Tails
        <3>2. \A i, j \in 1..Len(early) : early[i] = early[j] => i = j
            BY DEF Placed
        <3>3. \A i \in 1..Len(early') : early'[i] # c
            BY <3>1, <3>2
        <3>4. \A i \in 1..Len(early') : sock'[early'[i]].at = "early"
            BY <3>1, <3>3 DEF Placed, Moves
        <3>5. \A i, j \in 1..Len(early') : early'[i] = early'[j] => i = j
            <4> SUFFICES ASSUME NEW i \in 1..Len(early'), NEW j \in 1..Len(early'), early'[i] = early'[j]
                         PROVE  i = j
                OBVIOUS
            <4>1. i + 1 = j + 1
                BY <3>1, <3>2
            <4> QED BY <4>1
        <3> QED BY <3>1, <3>3, <3>4, <3>5
    <2> QED BY <2>1, <2>2 DEF Moves
<1>3. \A d \in Clients : /\ sock'[d].at = "served" => d = cur'
                         /\ sock'[d].at = "out" => ~sock'[d].peer /\ sock'[d].in = <<>> /\ sock'[d].out = <<>>
    BY DEF Placed, Moves
<1> QED BY <1>1, <1>2, <1>3 DEF Placed, Moves

LEMMA EndedMoves ==
    ASSUME TypeOK, NEW c \in Clients, Ended(c) \/ Refused(c)
    PROVE  sock'[c].at = "ended" /\ \A d \in Clients : d # c => sock'[d] = sock[d]
BY DEF Ended, Refused, TypeOK, Connection

LEMMA StartupPlaced ==
    ASSUME TypeOK, Placed, NEW c \in Clients, Startup(c)
    PROVE  Placed'
<1>0. sock \in [Clients -> Connection] /\ early \in Seq(Clients)
    BY DEF TypeOK
<1>1. UNCHANGED <<phase, cur, backlog>> /\ sock[c].at \in {"greeting", "startup"}
    BY DEF Startup, StartupHandshake, StartupReads, StartupEnds, StartupReady, mainVars
<1>2. \A d \in Clients : d # c => sock'[d] = sock[d]
    BY <1>0 DEF Startup, StartupHandshake, StartupReads, StartupEnds, StartupReady, Ended, Refused
<1>3. sock'[c].at \in {"greeting", "startup", "ended"} \/ (sock'[c].at = "early" /\ early' = Append(early, c))
    <2>1. CASE Ended(c) \/ Refused(c)
        <3>1. sock'[c].at = "ended"
            BY <2>1, EndedMoves
        <3> QED BY <3>1
    <2>2. CASE ~Ended(c) /\ ~Refused(c)
        <3>1. sock[c].at \in {"greeting", "startup"} /\ sock[c] \in Connection
            BY <1>0, <1>1
        <3>2. CASE StartupHandshake(c)
            BY <1>0, <2>2, <3>2 DEF StartupHandshake, Connection
        <3>3. CASE StartupReads(c)
            BY <1>0, <2>2, <3>1, <3>3 DEF StartupReads, Connection
        <3>4. CASE StartupReady(c)
            BY <1>0, <2>2, <3>4 DEF StartupReady, Connection
        <3> QED BY <2>2, <3>2, <3>3, <3>4 DEF Startup, StartupEnds
    <2> QED BY <2>1, <2>2
<1>4. phase \in {"greet", "forward", "join", "reset"} => cur \in Clients /\ cur # c
    BY <1>1 DEF Placed, TypeOK
<1>5. CASE sock'[c].at \in {"greeting", "startup", "ended"}
    <2>1. early' = early
        <3>1. CASE StartupReady(c)
            BY <1>0, <1>5, <3>1 DEF StartupReady, Connection
        <3>2. CASE ~StartupReady(c)
            BY <3>2 DEF Startup, StartupHandshake, StartupReads, StartupEnds
        <3> QED BY <3>1, <3>2
    <2>2. Moves(c)
        BY <1>1, <1>2, <1>4, <1>5, <2>1 DEF Placed, Moves
    <2> QED BY <2>2, PlacedMoved
<1>6. CASE sock'[c].at = "early" /\ early' = Append(early, c)
    <2>1. /\ Len(early) \in Nat /\ Len(early') = Len(early) + 1 /\ early'[Len(early) + 1] = c
          /\ \A i \in 1..Len(early) : early'[i] = early[i]
        BY <1>0, <1>6, AppendProperties, LenProperties
    <2>2. \A i \in 1..Len(early) : early[i] \in Clients /\ early[i] # c
        BY <1>0, <1>1, ElementOfSeq DEF Placed
    <2>3. \A i \in 1..Len(backlog) : backlog[i] \in Clients /\ backlog[i] # c
        BY <1>1, ElementOfSeq DEF Placed, TypeOK
    <2>4. \A i \in 1..Len(early') : sock'[early'[i]].at = "early"
        <3> SUFFICES ASSUME NEW i \in 1..Len(early') PROVE sock'[early'[i]].at = "early"
            OBVIOUS
        <3>1. CASE i = Len(early) + 1
            BY <1>6, <2>1, <3>1
        <3>2. CASE i \in 1..Len(early)
            BY <1>2, <2>1, <2>2, <3>2 DEF Placed
        <3> QED BY <2>1, <3>1, <3>2
    <2>5. \A i \in 1..Len(backlog') : sock'[backlog'[i]].at = "backlog"
        BY <1>1, <1>2, <2>3 DEF Placed
    <2>6. \A i, j \in 1..Len(early') : early'[i] = early'[j] => i = j
        BY <2>1, <2>2 DEF Placed
    <2>7. \A i, j \in 1..Len(backlog') : backlog'[i] = backlog'[j] => i = j
        BY <1>1 DEF Placed
    <2>8. \A d \in Clients : /\ sock'[d].at = "served" => d = cur
                             /\ sock'[d].at = "out" => ~sock'[d].peer /\ sock'[d].in = <<>> /\ sock'[d].out = <<>>
        BY <1>2, <1>6 DEF Placed
    <2>9. phase \in {"greet", "forward", "join", "reset"} => sock'[cur] = sock[cur]
        BY <1>2, <1>4
    <2> QED BY <1>1, <2>4, <2>5, <2>6, <2>7, <2>8, <2>9 DEF Placed
<1> QED BY <1>3, <1>5, <1>6

LEMMA MainPlaced ==
    ASSUME TypeOK, Placed, Main
    PROVE  Placed'
<1>0. sock \in [Clients -> Connection] /\ early \in Seq(Clients) /\ backlog \in Seq(Clients)
    BY DEF TypeOK
<1>1. CASE AcceptStartup
    <2> DEFINE c == Head(backlog)
    <2>1. c \in Clients /\ sock[c].at = "backlog"
        <3>1. c \in Clients /\ c = backlog[1] /\ 1 \in 1..Len(backlog)
            BY <1>0, <1>1, HeadTailProperties, EmptySeq DEF AcceptStartup
        <3> QED BY <3>1 DEF Placed
    <2>2. sock'[c].at = "greeting" /\ \A d \in Clients : d # c => sock'[d] = sock[d]
        BY <1>0, <1>1, <2>1 DEF AcceptStartup, Connection
    <2>3. UNCHANGED <<phase, cur, early>> /\ phase = "starting"
        BY <1>1 DEF AcceptStartup, mainVars
    <2>6. backlog # <<>> /\ backlog' = Tail(backlog) /\ c = Head(backlog)
        BY <1>1 DEF AcceptStartup
    <2> HIDE DEF c
    <2>4. \A d \in Clients : d # c => (sock[d].at = "served" => d = cur')
        BY <2>3 DEF Placed
    <2>5. Moves(c)
        BY <2>1, <2>2, <2>3, <2>4, <2>6 DEF Moves
    <2> QED BY <2>1, <2>5, PlacedMoved
<1>2. CASE HandoverDone
    BY <1>2, PlacedSame DEF HandoverDone
<1>3. CASE ServeEarly
    <2> DEFINE c == Head(early)
    <2>1. c \in Clients /\ sock[c].at = "early"
        <3>1. c \in Clients /\ c = early[1] /\ 1 \in 1..Len(early)
            BY <1>0, <1>3, HeadTailProperties, EmptySeq DEF ServeEarly
        <3> QED BY <3>1 DEF Placed
    <2>2. sock'[c].at = "served" /\ \A d \in Clients : d # c => sock'[d] = sock[d]
        BY <1>0, <1>3, <2>1 DEF ServeEarly, Connection
    <2>3. phase' = "forward" /\ cur' = c /\ backlog' = backlog /\ early # <<>> /\ early' = Tail(early)
          /\ cur = Nobody /\ c = Head(early)
        BY <1>3 DEF ServeEarly, Serving, TypeOK
    <2> HIDE DEF c
    <2>4. Moves(c)
        BY <2>1, <2>2, <2>3, ClientsAssumption DEF Placed, Moves
    <2> QED BY <2>1, <2>4, PlacedMoved
<1>4. CASE Accept
    <2> DEFINE c == Head(backlog)
    <2>1. c \in Clients /\ sock[c].at = "backlog"
        <3>1. c \in Clients /\ c = backlog[1] /\ 1 \in 1..Len(backlog)
            BY <1>0, <1>4, HeadTailProperties, EmptySeq DEF Accept
        <3> QED BY <3>1 DEF Placed
    <2>2. sock'[c].at = "served" /\ \A d \in Clients : d # c => sock'[d] = sock[d]
        BY <1>0, <1>4, <2>1 DEF Accept, Connection
    <2>3. phase' = "greet" /\ cur' = c /\ early' = early /\ backlog # <<>> /\ backlog' = Tail(backlog)
          /\ cur = Nobody /\ c = Head(backlog)
        BY <1>4 DEF Accept, Serving, TypeOK
    <2> HIDE DEF c
    <2>4. Moves(c)
        BY <2>1, <2>2, <2>3, ClientsAssumption DEF Placed, Moves
    <2> QED BY <2>1, <2>4, PlacedMoved
<1>5. CASE ServeHandshake
    <2>1. cur \in Clients /\ sock[cur].at = "served" /\ UNCHANGED <<cur, backlog, early>>
        BY <1>5 DEF TypeOK, ServeHandshake, Placed
    <2>2. CASE phase' = "join" /\ (Refused(cur) \/ Ended(cur))
        <3>1. Moves(cur)
            BY <2>1, <2>2, EndedMoves DEF Placed, Moves
        <3> QED BY <2>1, <3>1, PlacedMoved
    <2>3. CASE /\ phase' = "forward"
               /\ \A d \in Clients : sock'[d].at = sock[d].at /\ (sock[d].at = "out" => sock'[d] = sock[d])
        BY <1>5, <2>1, <2>3, PlacedSame DEF ServeHandshake
    <2>4. \/ phase' = "join" /\ (Refused(cur) \/ Ended(cur))
          \/ /\ phase' = "forward"
             /\ \A d \in Clients : sock'[d].at = sock[d].at /\ (sock[d].at = "out" => sock'[d] = sock[d])
        BY <1>0, <1>5, <2>1 DEF ServeHandshake, Connection
    <2> QED BY <2>2, <2>3, <2>4
<1>6. CASE Forward
    <2>1. cur \in Clients /\ sock[cur].at = "served" /\ UNCHANGED <<cur, backlog, early>>
          /\ phase' \in {"forward", "join"} /\ phase = "forward"
        BY <1>6 DEF TypeOK, Forward, Placed
    <2>2. \A d \in Clients : sock'[d].at = sock[d].at /\ (sock[d].at = "out" => sock'[d] = sock[d])
        BY <1>0, <1>6, <2>1 DEF Forward, Connection
    <2> QED BY <2>1, <2>2, PlacedSame
<1>7. CASE ForwardEnds
    BY <1>7, PlacedSame DEF ForwardEnds
<1>8. CASE BeginReset
    BY <1>8, PlacedSame DEF BeginReset
<1>9. CASE ResetDrains
    <2>1. cur \in Clients /\ sock[cur].at \in {"served", "ended"} /\ UNCHANGED <<backlog, early>>
        BY <1>9 DEF TypeOK, ResetDrains, Placed
    <2>2. CASE phase' = "next" /\ cur' = Nobody /\ Ended(cur)
        <3>1. Moves(cur)
            BY <2>1, <2>2, EndedMoves DEF Placed, Moves
        <3> QED BY <2>1, <3>1, PlacedMoved
    <2>3. CASE UNCHANGED <<phase, cur, sock>>
        BY <2>1, <2>3, PlacedSame
    <2> QED BY <1>9, <2>2, <2>3 DEF ResetDrains
<1> QED BY <1>1, <1>2, <1>3, <1>4, <1>5, <1>6, <1>7, <1>8, <1>9 DEF Main

LEMMA PlacedKept ==
    ASSUME TypeOK, Placed, Next
    PROVE  Placed'
<1>1. ASSUME NEW c \in Clients, Connect(c) \/ Leave(c) \/ \E cmd \in ClientMsg : Submit(c, cmd)
      PROVE  Placed'
    BY <1>1, ClientPlaced DEF ClientMsg
<1>2. CASE RelayEvent
    <2>1. cur \in Clients /\ phase \in {"forward", "join"} /\ UNCHANGED <<cur, phase, backlog, early>>
        BY <1>2 DEF TypeOK, RelayEvent
    <2>2. sock[cur].at \in {"served", "ended"}
        BY <2>1 DEF Placed
    <2>3. \A d \in Clients : sock'[d].at = sock[d].at /\ (sock[d].at = "out" => sock'[d] = sock[d])
        <3>1. sock \in [Clients -> Connection]
            BY DEF TypeOK
        <3>2. CASE sock' = sock
            BY <3>2
        <3>3. CASE sock' = [sock EXCEPT ![cur].out = Append(@, Event(Head(events).event, Head(events).text))]
            BY <2>1, <2>2, <3>1, <3>3 DEF Connection
        <3> QED BY <1>2, <3>2, <3>3 DEF RelayEvent
    <2> QED BY <2>1, <2>3, PlacedSame
<1>3. CASE RelayEnds \/ Worker
    <2>1. UNCHANGED <<cur, phase, backlog, early, sock>>
        BY <1>3 DEF RelayEnds, Worker, WorkerStart, WorkerChunk, WorkerCancel, WorkerFlush,
                    WorkerPolishes, WorkerRecords, WorkerAnswers, Works, mainVars
    <2> QED BY <2>1, PlacedSame
<1>4. CASE Loaded \/ Terminate \/ ResetTimesOut \/ IdleExit
    <2>1. UNCHANGED <<cur, backlog, early, sock>> /\ phase' \in {"handover", "exited"}
        BY <1>4 DEF Loaded, Terminate, ResetTimesOut, IdleExit, Exits
    <2> QED BY <2>1, PlacedSame
<1> QED BY <1>1, <1>2, <1>3, <1>4, StartupPlaced, MainPlaced DEF Next, Client, Relay

LEMMA RelayKept ==
    ASSUME TypeOK, Placed, RelayServes, Next
    PROVE  RelayServes'
<1>0. sock \in [Clients -> Connection]
    BY DEF TypeOK
<1>1. CASE ServeEarly
    <2>1. Head(early) \in Clients
        <3>1. early \in Seq(Clients) /\ early # <<>>
            BY <1>1 DEF TypeOK, ServeEarly
        <3> QED BY <3>1, Tails
    <2> QED BY <1>0, <1>1, <2>1 DEF ServeEarly, Serving, RelayServes, Connection
<1>2. CASE ServeHandshake
    <2>1. cur \in Clients /\ sock[cur].at = "served" /\ cur' = cur
        BY <1>2 DEF TypeOK, Placed, ServeHandshake
    <2>2. relay' => sock'[cur].at = "served"
        <3>1. ~relay
            BY <1>2 DEF ServeHandshake, TypeOK
        <3> DEFINE told == sock[cur].out \o <<Event("Hello", <<>>), Event("Ready", <<>>)>>
        <3>2. CASE sock' = [sock EXCEPT ![cur].in = Tail(@), ![cur].out = told]
            <4> HIDE DEF told
            <4> QED BY <1>0, <2>1, <3>2 DEF Connection
        <3> QED BY <1>2, <3>1, <3>2 DEF ServeHandshake
    <2> QED BY <2>1, <2>2 DEF RelayServes
<1>3. CASE /\ relay' => relay
           /\ cur' = cur
           /\ relay => sock'[cur].at = sock[cur].at
    BY <1>3 DEF RelayServes
<1>4. ASSUME NEW c \in Clients, Connect(c) \/ Leave(c) \/ \E cmd \in ClientMsg : Submit(c, cmd)
      PROVE  RelayServes'
    <2>1. relay' = relay /\ cur' = cur
        BY <1>4 DEF Connect, Leave, Submit, mainVars
    <2>2. relay => sock'[cur].at = sock[cur].at
        <3>1. relay => cur \in Clients /\ sock[cur].at = "served"
            BY DEF RelayServes
        <3>2. \A d \in Clients : sock[d].at # "out" => sock'[d].at = sock[d].at
            <4>1. CASE Connect(c) \/ Leave(c)
                BY <1>0, <4>1 DEF Connect, Leave, Connection
            <4>2. ASSUME NEW cmd \in ClientMsg, Submit(c, cmd)
                  PROVE  \A d \in Clients : sock'[d].at = sock[d].at
                BY <1>0, <4>2 DEF Submit, Connection
            <4> QED BY <1>4, <4>1, <4>2
        <3> QED BY <3>1, <3>2
    <2> QED BY <1>3, <2>1, <2>2
<1>5. ASSUME NEW c \in Clients, Startup(c)
      PROVE  RelayServes'
    <2>1. relay' = relay /\ cur' = cur /\ sock[c].at # "served"
        BY <1>5 DEF Startup, StartupHandshake, StartupReads, StartupEnds, StartupReady, mainVars
    <2>2. \A d \in Clients : d # c => sock'[d] = sock[d]
        BY <1>0, <1>5 DEF Startup, StartupHandshake, StartupReads, StartupEnds, StartupReady, Ended, Refused
    <2>3. relay => cur \in Clients /\ cur # c
        BY <2>1 DEF TypeOK, RelayServes
    <2> QED BY <1>3, <2>1, <2>2, <2>3
<1>6. CASE Forward \/ RelayEvent
    <2>1. (relay' => relay) /\ cur' = cur
        BY <1>6 DEF Forward, RelayEvent
    <2>2. cur \in Clients
        BY <1>6 DEF Forward, RelayEvent, TypeOK
    <2>3. sock'[cur].at = sock[cur].at
        <3>1. CASE sock' = sock
            BY <3>1
        <3>2. CASE sock' = [sock EXCEPT ![cur].in = Tail(@)]
            BY <1>0, <2>2, <3>2 DEF Connection
        <3>3. CASE sock' = [sock EXCEPT ![cur].out = Append(@, Event(Head(events).event, Head(events).text))]
            BY <1>0, <2>2, <3>3 DEF Connection
        <3> QED BY <1>6, <3>1, <3>2, <3>3 DEF Forward, RelayEvent
    <2> QED BY <1>3, <2>1, <2>3
<1>7. CASE AcceptStartup \/ HandoverDone \/ Accept \/ BeginReset \/ ResetDrains
    <2>1. ~relay /\ relay' = relay
        BY <1>7 DEF AcceptStartup, HandoverDone, Accept, BeginReset, ResetDrains, TypeOK, mainVars
    <2> QED BY <2>1 DEF RelayServes
<1>8. CASE ForwardEnds \/ RelayEnds \/ Worker \/ Loaded \/ Terminate \/ ResetTimesOut \/ IdleExit
    <2>1. (relay' => relay) /\ UNCHANGED <<cur, sock>>
        BY <1>8, WorkerLeaves DEF ForwardEnds, RelayEnds, Loaded, Terminate, ResetTimesOut,
           IdleExit, Exits, mainVars
    <2> QED BY <1>3, <2>1
<1> QED BY <1>1, <1>2, <1>4, <1>5, <1>6, <1>7, <1>8 DEF Next, Client, Main, Relay

-----------------------------------------------------------------------------
(* A Flush in progress stays at the head of the queue *)

LEMMA StagedKept ==
    ASSUME TypeOK, Staged, Next
    PROVE  Staged'
<1>0. queue \in Seq(Message) /\ worker \in Session
    BY DEF TypeOK
<1>1. CASE Worker
    <2>1. CASE WorkerStart \/ WorkerCancel
        <3>1. worker'.stage = "gather"
            <4>1. CASE WorkerStart
                <5>1. EmptySession.stage = "gather"
                    BY DEF EmptySession
                <5>2. \A q \in BOOLEAN : [EmptySession EXCEPT !.active = TRUE, !.quiet = q].stage = "gather"
                    BY <5>1 DEF EmptySession
                <5> QED BY <4>1, <5>2 DEF WorkerStart
            <4>2. CASE WorkerCancel
                BY <4>2 DEF WorkerCancel, EmptySession
            <4> QED BY <2>1, <4>1, <4>2
        <3> QED BY <3>1 DEF Staged
    <2>2. CASE WorkerChunk
        BY <1>0, <2>2 DEF WorkerChunk, Works, Staged, Session
    <2>3. CASE WorkerFlush \/ WorkerAnswers
        BY <1>0, <2>3 DEF WorkerFlush, WorkerAnswers, Rest, Staged, Session
    <2>4. CASE WorkerPolishes \/ WorkerRecords
        BY <1>0, <2>4 DEF WorkerPolishes, WorkerRecords, Flushing, Staged, Session
    <2> QED BY <1>1, <2>1, <2>2, <2>3, <2>4 DEF Worker
<1>2. CASE UNCHANGED <<worker, queue>>
    BY <1>2 DEF Staged
<1>3. CASE worker' = worker /\ \E m : queue' = Append(queue, m)
    <2>1. PICK m : queue' = Append(queue, m)
        BY <1>3
    <2>2. queue # <<>> => Head(queue') = Head(queue) /\ queue' # <<>>
        BY <1>0, <2>1, HeadTailAppend
    <2> QED BY <1>3, <2>2 DEF Staged
<1>4. CASE Main
    BY <1>2, <1>3, <1>4 DEF Main, AcceptStartup, HandoverDone, ServeEarly, Accept, ServeHandshake, Forward,
                ForwardEnds, BeginReset, ResetDrains, workVars
<1>5. CASE ~Main /\ ~Worker
    <2>1. UNCHANGED <<worker, queue>>
        BY <1>5 DEF Next, Client, Connect, Leave, Submit, Startup, StartupHandshake, StartupReads,
                StartupEnds, StartupReady, Relay, RelayEvent, RelayEnds, Loaded, Terminate,
                ResetTimesOut, IdleExit, Exits, workVars
    <2> QED BY <1>2, <2>1
<1> QED BY <1>1, <1>4, <1>5

-----------------------------------------------------------------------------
(* What the worker does, and what it leaves to be acknowledged *)

\* The message handled is popped, or is a Flush still being worked on. Only a
\* Cancel is answered by an Aborted, and it leaves the session empty.
LEMMA WorkerHandles ==
    ASSUME TypeOK, Worker
    PROVE  /\ queue # <<>> /\ Head(queue) \in Message
           /\ UNCHANGED <<mainVars, relay, backlog, early, sock>>
           /\ \/ queue' = Tail(queue)
              \/ queue' = queue /\ Head(queue).frame.cmd = "Flush"
<1>0. queue \in Seq(Message) /\ queue # <<>>
    BY DEF TypeOK, Worker, WorkerStart, WorkerChunk, WorkerCancel, WorkerFlush, WorkerPolishes,
           WorkerRecords, WorkerAnswers, Works, Flushing
<1>1. Head(queue) \in Message
    BY <1>0, Tails
<1>2. UNCHANGED <<mainVars, relay, backlog, early, sock>>
    BY DEF Worker, WorkerStart, WorkerChunk, WorkerCancel, WorkerFlush, WorkerPolishes,
           WorkerRecords, WorkerAnswers, Works
<1>3. queue' = Tail(queue) \/ (queue' = queue /\ Head(queue).frame.cmd = "Flush")
    BY DEF Worker, WorkerStart, WorkerChunk, WorkerCancel, WorkerFlush, WorkerPolishes,
           WorkerRecords, WorkerAnswers, Works, Flushing
<1> QED BY <1>0, <1>1, <1>2, <1>3

LEMMA WorkerSays ==
    ASSUME TypeOK, Worker
    PROVE  \/ Head(queue).frame.cmd # "Cancel" /\ events' = events
           \/ /\ Head(queue).frame.cmd # "Cancel"
              /\ \E e \in WorkerEvent : /\ events' = Append(events, e)
                                        /\ e.for = Head(queue).from /\ e.event # "Aborted"
           \/ /\ Head(queue).frame.cmd = "Cancel" /\ queue' = Tail(queue) /\ worker' = EmptySession
              /\ events' = Append(events, [for |-> Head(queue).from, event |-> "Aborted", text |-> <<>>])
<1>0. worker.parts \in Seq(Piece) /\ Head(queue).from \in Clients \cup {Nobody}
    BY WorkerHandles DEF TypeOK, Message, Session
<1>1. ASSUME NEW e \in EventKind, NEW text \in Seq(Piece), Emits(e, text), e # "Aborted"
      PROVE  \E v \in WorkerEvent : /\ events' = Append(events, v)
                                    /\ v.for = Head(queue).from /\ v.event # "Aborted"
    <2> DEFINE v == [for |-> Head(queue).from, event |-> e, text |-> text]
    <2>1. v \in WorkerEvent /\ v.for = Head(queue).from /\ v.event # "Aborted" /\ events' = Append(events, v)
        BY <1>0, <1>1 DEF WorkerEvent, Emits
    <2> HIDE DEF v
    <2> QED BY <2>1
<1>2. CASE WorkerStart \/ WorkerRecords
    BY <1>2 DEF WorkerStart, WorkerRecords, Works, Flushing
<1>3. CASE WorkerCancel
    BY <1>3 DEF WorkerCancel, Works, Emits
<1>4. CASE WorkerChunk
    <2>1. Head(queue).frame.cmd = "Chunk"
        BY <1>4 DEF WorkerChunk, Works
    <2>2. CASE events' = events
        BY <2>1, <2>2
    <2>3. CASE Emits("Partial", <<<<Head(queue).from, Head(queue).frame.k>>>>)
        <3>1. Head(queue).frame.k \in 1..MaxFrames /\ Head(queue).from \in Clients
            BY <2>1, WorkerHandles DEF Message, Frames, ResetFrame
        <3>2. <<<<Head(queue).from, Head(queue).frame.k>>>> \in Seq(Piece)
            BY <3>1 DEF Piece
        <3>3. "Partial" \in EventKind
            BY DEF EventKind
        <3> DEFINE text == <<<<Head(queue).from, Head(queue).frame.k>>>>
        <3>4. text \in Seq(Piece) /\ Emits("Partial", text)
            BY <2>3, <3>2
        <3> HIDE DEF text
        <3> QED BY <1>1, <2>1, <3>3, <3>4
    <2> QED BY <1>4, <2>2, <2>3 DEF WorkerChunk
<1>5. CASE WorkerFlush \/ WorkerAnswers \/ WorkerPolishes
    <2>1. Head(queue).frame.cmd = "Flush" /\ <<>> \in Seq(Piece)
        BY <1>5, Typed DEF WorkerFlush, WorkerAnswers, WorkerPolishes, Works, Flushing
    <2>2. \E e \in {"Error", "Final", "Polishing"} : \E text \in Seq(Piece) : Emits(e, text)
        BY <1>0, <1>5, <2>1 DEF WorkerFlush, WorkerAnswers, WorkerPolishes
    <2> QED BY <1>1, <2>1, <2>2 DEF EventKind
<1> QED BY <1>2, <1>3, <1>4, <1>5 DEF Worker

\* The worker owes as many Aborteds after a step as before it.
LEMMA WorkerOwesTheSame ==
    ASSUME TypeOK, Worker
    PROVE  Due' = Due
<1>0. queue \in Seq(Message) /\ events \in Seq(WorkerEvent) /\ queue # <<>> /\ Head(queue) \in Message
    BY WorkerHandles DEF TypeOK
<1>1. Head(queue) \in Cancels <=> Head(queue).frame.cmd = "Cancel"
    BY <1>0 DEF Cancels
<1>2. Among(queue, Cancels) = Among(Tail(queue), Cancels) + (IF Head(queue) \in Cancels THEN 1 ELSE 0)
    BY <1>0, AmongTail
<1>3. Among(Tail(queue), Cancels) \in Nat /\ Among(events, Aborteds) \in Nat
    BY <1>0, Tails, AmongFinite
<1>4. Head(queue).frame.cmd # "Cancel" => Among(queue', Cancels) = Among(queue, Cancels)
    <2>1. queue' = queue \/ queue' = Tail(queue)
        BY WorkerHandles
    <2>2. Head(queue).frame.cmd # "Cancel" => Among(queue, Cancels) = Among(Tail(queue), Cancels)
        BY <1>1, <1>2, <1>3
    <2> QED BY <2>1, <2>2
<1>5. CASE Head(queue).frame.cmd # "Cancel" /\ events' = events
    BY <1>4, <1>5 DEF Due
<1>6. CASE /\ Head(queue).frame.cmd # "Cancel"
           /\ \E e \in WorkerEvent : events' = Append(events, e) /\ e.event # "Aborted"
    <2>1. PICK e \in WorkerEvent : events' = Append(events, e) /\ e.event # "Aborted"
        BY <1>6
    <2>2. Among(events', Aborteds) = Among(events, Aborteds) + 0
        BY <1>0, <2>1, AmongAppend DEF Aborteds
    <2> QED BY <1>3, <1>4, <1>6, <2>2 DEF Due
<1>7. CASE /\ Head(queue).frame.cmd = "Cancel" /\ queue' = Tail(queue)
           /\ events' = Append(events, [for |-> Head(queue).from, event |-> "Aborted", text |-> <<>>])
    <2> DEFINE e == [for |-> Head(queue).from, event |-> "Aborted", text |-> <<>>]
    <2>1. e \in Aborteds /\ e \in WorkerEvent
        BY <1>0, Typed DEF Aborteds, WorkerEvent, EventKind, Message
    <2>2. events' = Append(events, e)
        BY <1>7
    <2> HIDE DEF e
    <2>3. Among(events', Aborteds) = Among(events, Aborteds) + 1
        BY <1>0, <2>1, <2>2, AmongAppend
    <2>4. Among(queue, Cancels) = Among(queue', Cancels) + 1
        BY <1>1, <1>2, <1>7
    <2> QED BY <1>3, <1>7, <2>3, <2>4 DEF Due
<1> QED BY <1>5, <1>6, <1>7, WorkerSays

-----------------------------------------------------------------------------
(* The counting is exact *)

LEMMA CountsKept ==
    ASSUME TypeOK, TypeOK', Owned, FreshCounts, UnackedAreCounted, Next
    PROVE  FreshCounts' /\ UnackedAreCounted'
<1>0. queue \in Seq(Message) /\ events \in Seq(WorkerEvent) /\ drain \in Int
      /\ counts.cancels \in Nat /\ counts.aborteds \in Nat
    BY DEF TypeOK
<1>1. Unacked = Due /\ Unacked' = Due'
    BY UnackedIsDue
<1>2. Among(queue, Cancels) \in Nat /\ Among(events, Aborteds) \in Nat
    BY DueTypes
<1>3. CASE UNCHANGED <<phase, counts, drain>> /\ Due' = Due
    BY <1>1, <1>3 DEF FreshCounts, UnackedAreCounted
<1>4. CASE phase' \in {"starting", "handover", "next", "exited"}
    BY <1>4 DEF FreshCounts, UnackedAreCounted
\* A connection starts with nothing counted and nothing to come.
<1>5. CASE Accept
    BY <1>5 DEF Accept, Serving, FreshCounts, UnackedAreCounted
<1>6. CASE ServeEarly
    <2>1. Due' = 0
        BY <1>6, AmongNone DEF ServeEarly, Owned, Clean, Due
    <2> QED BY <1>1, <1>6, <2>1 DEF ServeEarly, Serving, FreshCounts, UnackedAreCounted
<1>7. CASE ServeHandshake
    <2>1. Due' = 0
        BY <1>7, AmongNone DEF ServeHandshake, Owned, Clean, Due
    <2>2. counts' = counts /\ counts.cancels = counts.aborteds /\ phase' \in {"forward", "join"}
        BY <1>7 DEF ServeHandshake, FreshCounts
    <2> QED BY <1>0, <1>1, <2>1, <2>2 DEF FreshCounts, UnackedAreCounted
<1>8. CASE Forward
    <2>1. phase = "forward" /\ events' = events /\ counts.cancels - counts.aborteds = Due
        BY <1>1, <1>8 DEF Forward, UnackedAreCounted
    <2> DEFINE f == Head(sock[cur].in)
               m == [from |-> cur, frame |-> f]
    <2>2. CASE f.cmd = "Hello"
        <3>1. queue' = queue /\ counts' = counts /\ phase' = "join"
            BY <1>8, <2>2 DEF Forward
        <3> QED BY <1>1, <2>1, <3>1 DEF Due, FreshCounts, UnackedAreCounted
    <2>3. CASE f.cmd # "Hello"
        <3>1. /\ queue' = Append(queue, m) /\ phase' = "forward"
              /\ counts' = IF f.cmd = "Cancel" THEN [counts EXCEPT !.cancels = @ + 1] ELSE counts
            BY <1>8, <2>1, <2>3 DEF Forward
        <3>2. m \in Message
            <4>1. cur \in Clients /\ sock[cur].in \in Seq(Frames) /\ sock[cur].in # <<>>
                BY <1>8 DEF TypeOK, Forward, HasFrame, Connection
            <4>2. f \in Frames
                BY <4>1, Tails
            <4> QED BY <4>1, <4>2 DEF Message
        <3>3. m \in Cancels <=> f.cmd = "Cancel"
            BY <3>2 DEF Cancels
        <3> HIDE DEF m
        <3>4. Among(queue', Cancels) = Among(queue, Cancels) + (IF m \in Cancels THEN 1 ELSE 0)
            BY <1>0, <3>1, <3>2, AmongAppend
        <3>5. counts'.aborteds = counts.aborteds
              /\ counts'.cancels = counts.cancels + (IF m \in Cancels THEN 1 ELSE 0)
            <4>1. counts \in [cancels : Nat, aborteds : Nat]
                BY DEF TypeOK
            <4>2. CASE f.cmd = "Cancel"
                <5>1. counts' = [counts EXCEPT !.cancels = counts.cancels + 1] /\ m \in Cancels
                    BY <3>1, <3>3, <4>2
                <5> QED BY <4>1, <5>1
            <4>3. CASE f.cmd # "Cancel"
                BY <1>0, <3>1, <3>3, <4>3
            <4> QED BY <4>2, <4>3
        <3>6. Due' = Due + (IF m \in Cancels THEN 1 ELSE 0) /\ Due \in Int
            BY <1>2, <2>1, <3>4 DEF Due
        <3>7. counts'.cancels - counts'.aborteds = Due'
            BY <1>0, <2>1, <3>5, <3>6
        <3> QED BY <1>1, <3>1, <3>7 DEF FreshCounts, UnackedAreCounted
    <2> QED BY <2>2, <2>3
<1>9. CASE ForwardEnds
    <2>1. Due' = Due /\ counts' = counts /\ phase = "forward" /\ phase' = "join"
        BY <1>9 DEF ForwardEnds, Due
    <2> QED BY <1>1, <2>1 DEF FreshCounts, UnackedAreCounted
\* The reset's own Cancel is one more to come.
<1>10. CASE BeginReset
    <2>1. Barrier \in Message /\ Barrier \in Cancels
        BY DEF Barrier, Message, Cancels, ResetFrame
    <2>2. queue' = Append(queue, Barrier) /\ events' = events /\ phase = "join" /\ phase' = "reset"
          /\ drain' = counts.cancels - counts.aborteds + 1
        BY <1>10 DEF BeginReset, Barrier
    <2>3. Among(queue', Cancels) = Among(queue, Cancels) + 1
        BY <1>0, <2>1, <2>2, AmongAppend
    <2>4. counts.cancels - counts.aborteds = Due
        BY <1>1, <2>2 DEF UnackedAreCounted
    <2> QED BY <1>0, <1>1, <1>2, <2>2, <2>3, <2>4 DEF Due, FreshCounts, UnackedAreCounted
<1>11. ASSUME events # <<>>, events' = Tail(events), queue' = queue
       PROVE  Due = Due' + (IF Head(events).event = "Aborted" THEN 1 ELSE 0)
    <2>1. Head(events) \in Aborteds <=> Head(events).event = "Aborted"
        BY <1>0, <1>11, Tails DEF Aborteds
    <2>2. Among(events, Aborteds) = Among(events', Aborteds) + (IF Head(events) \in Aborteds THEN 1 ELSE 0)
        BY <1>0, <1>11, AmongTail
    <2>3. Among(events', Aborteds) \in Nat
        BY <1>0, <1>11, Tails, AmongFinite
    <2> QED BY <1>2, <1>11, <2>1, <2>2, <2>3 DEF Due
<1>12. CASE ResetDrains
    <2>1. /\ events # <<>> /\ events' = Tail(events) /\ queue' = queue /\ phase = "reset"
          /\ drain' = IF Head(events).event = "Aborted" THEN drain - 1 ELSE drain
          /\ phase' \in {"next", "reset"}
        BY <1>12 DEF ResetDrains
    <2>2. drain = Due /\ Due = Due' + (IF Head(events).event = "Aborted" THEN 1 ELSE 0)
        BY <1>1, <1>11, <2>1 DEF UnackedAreCounted
    <2>3. Due' \in Int
        <3>1. Among(queue', Cancels) \in Nat /\ Among(events', Aborteds) \in Nat
            <4>1. queue' \in Seq(Message) /\ events' \in Seq(WorkerEvent)
                BY DEF TypeOK
            <4> QED BY <4>1, AmongFinite
        <3> QED BY <3>1 DEF Due
    <2>4. drain' = Due'
        <3> DEFINE d == Due'
        <3>1. d \in Int /\ drain = d + (IF Head(events).event = "Aborted" THEN 1 ELSE 0)
            BY <2>2, <2>3
        <3> HIDE DEF d
        <3>2. drain' = d
            BY <2>1, <3>1
        <3> QED BY <3>2 DEF d
    <2> QED BY <1>1, <2>1, <2>4 DEF FreshCounts, UnackedAreCounted
\* An Aborted is counted when it is taken from the channel, written or not.
<1>13. CASE RelayEvent
    <2>1. /\ events # <<>> /\ events' = Tail(events) /\ queue' = queue /\ phase' = phase
          /\ phase \in {"forward", "join"} /\ counts'.cancels = counts.cancels
          /\ counts'.aborteds = counts.aborteds + (IF Head(events).event = "Aborted" THEN 1 ELSE 0)
        BY <1>13 DEF RelayEvent, TypeOK
    <2>2. /\ counts.cancels - counts.aborteds = Due
          /\ Due = Due' + (IF Head(events).event = "Aborted" THEN 1 ELSE 0)
        BY <1>1, <1>11, <2>1 DEF UnackedAreCounted
    <2>3. Due \in Int /\ Due' \in Int
        BY <1>0, <1>1, <1>2, <2>2 DEF Due
    <2> QED BY <1>0, <1>1, <2>1, <2>2, <2>3 DEF FreshCounts, UnackedAreCounted
<1>14. CASE Worker
    BY <1>3, <1>14, WorkerOwesTheSame, WorkerHandles DEF mainVars
<1>15. CASE AcceptStartup \/ HandoverDone \/ RelayEnds \/ Loaded \/ Terminate \/ ResetTimesOut \/ IdleExit
    <2>1. (UNCHANGED <<phase, counts, drain>> /\ Due' = Due) \/ phase' \in {"handover", "next", "exited"}
        BY <1>15 DEF AcceptStartup, HandoverDone, RelayEnds, Loaded, Terminate, ResetTimesOut, IdleExit,
                     Exits, Due, mainVars
    <2> QED BY <1>3, <1>4, <2>1
<1>16. CASE Client \/ \E c \in Clients : Startup(c)
    <2>1. UNCHANGED <<phase, counts, drain>> /\ Due' = Due
        BY <1>16 DEF Client, Connect, Leave, Submit, Startup, StartupHandshake, StartupReads,
                     StartupEnds, StartupReady, Due, mainVars
    <2> QED BY <1>3, <2>1
<1> QED BY <1>5, <1>6, <1>7, <1>8, <1>9, <1>10, <1>12, <1>13, <1>14, <1>15, <1>16 DEF Next, Main, Relay

-----------------------------------------------------------------------------
(* The queue and the events are the served client's *)

\* A head that is the current client's, and what is left behind it.
LEMMA OursTail ==
    ASSUME NEW q \in Seq(Message), q # <<>>, Ours(q)
    PROVE  Head(q).from = cur /\ Tail(q) \in Seq(Message) /\ Ours(Tail(q))
BY Tails DEF Ours

LEMMA OursAppend ==
    ASSUME NEW q \in Seq(Message), Ours(q), NEW m \in Message, m.from = cur
    PROVE  Append(q, m) \in Seq(Message) /\ Ours(Append(q, m))
<1>1. \A i \in 1..Len(Append(q, m)) :
         (i \in 1..Len(q) /\ Append(q, m)[i] = q[i]) \/ Append(q, m)[i] = m
    BY Appends
<1> QED BY <1>1, Appends DEF Ours

LEMMA SaidTail ==
    ASSUME NEW es \in Seq(WorkerEvent), es # <<>>, Said(es)
    PROVE  Head(es).for = cur /\ Tail(es) \in Seq(WorkerEvent) /\ Said(Tail(es))
BY Tails DEF Said

LEMMA SaidAppend ==
    ASSUME NEW es \in Seq(WorkerEvent), Said(es), NEW e \in WorkerEvent, e.for = cur
    PROVE  Append(es, e) \in Seq(WorkerEvent) /\ Said(Append(es, e))
<1>1. \A i \in 1..Len(Append(es, e)) :
         (i \in 1..Len(es) /\ Append(es, e)[i] = es[i]) \/ Append(es, e)[i] = e
    BY Appends
<1> QED BY <1>1, Appends DEF Said

LEMMA NothingOurs ==
    Ours(<<>>) /\ Said(<<>>)
BY DEF Ours, Said

\* What the worker says to a head of its own client.
LEMMA WorkerSaysOurs ==
    ASSUME TypeOK, Worker, Head(queue).from = cur, Said(events)
    PROVE  Said(events')
<1>0. events \in Seq(WorkerEvent) /\ queue \in Seq(Message) /\ Head(queue) \in Message
    BY WorkerHandles DEF TypeOK
<1>1. ASSUME NEW e \in WorkerEvent, events' = Append(events, e), e.for = Head(queue).from
      PROVE  Said(events')
    BY <1>0, <1>1, SaidAppend
<1>2. CASE events' = Append(events, [for |-> Head(queue).from, event |-> "Aborted", text |-> <<>>])
    <2> DEFINE e == [for |-> Head(queue).from, event |-> "Aborted", text |-> <<>>]
    <2>1. e \in WorkerEvent /\ e.for = Head(queue).from /\ events' = Append(events, e)
        BY <1>0, <1>2, Typed DEF WorkerEvent, EventKind, Message
    <2> HIDE DEF e
    <2> QED BY <1>1, <2>1
<1> QED BY <1>1, <1>2, WorkerSays

\* Only the reset's own messages are left: the reset is over once its Aborted is
\* the last one due.
LEMMA ResetSees ==
    ASSUME TypeOK, Owned, UnackedAreCounted, phase = "reset", events # <<>>, Unacked = Due
    PROVE  /\ \/ \E q \in Seq(Message) : queue = Append(q, Barrier) /\ Ours(q) /\ Said(events)
              \/ /\ queue = <<>> /\ worker = EmptySession
                 /\ \E es \in Seq(WorkerEvent) : events = Append(es, Acked) /\ Said(es)
           /\ drain \in Nat
           /\ queue # <<>> => drain >= 1 /\ (Head(events).event = "Aborted" => drain >= 2)
           /\ queue = <<>> => drain >= 1
           /\ queue = <<>> /\ Head(events).event = "Aborted" /\ Tail(events) # <<>> => drain >= 2
<1>0. queue \in Seq(Message) /\ events \in Seq(WorkerEvent)
    BY DEF TypeOK
<1>1. drain = Among(queue, Cancels) + Among(events, Aborteds)
      /\ Among(queue, Cancels) \in Nat /\ Among(events, Aborteds) \in Nat
    BY DueTypes DEF UnackedAreCounted, Due
<1>2. Head(events).event = "Aborted" => Among(events, Aborteds) = Among(Tail(events), Aborteds) + 1
    <2>1. Head(events) \in WorkerEvent
        BY <1>0, Tails
    <2> QED BY <1>0, <2>1, AmongTail DEF Aborteds
<1>3. Among(Tail(events), Aborteds) \in Nat
    BY <1>0, Tails, AmongFinite
<1>4. CASE \E q \in Seq(Message) : queue = Append(q, Barrier) /\ Ours(q) /\ Said(events)
    <2>1. PICK q \in Seq(Message) : queue = Append(q, Barrier)
        BY <1>4
    <2>2. Barrier \in Message /\ Barrier \in Cancels
        BY DEF Barrier, Message, Cancels, ResetFrame
    <2>3. Among(queue, Cancels) = Among(q, Cancels) + 1 /\ Among(q, Cancels) \in Nat /\ queue # <<>>
        <3>1. Among(Append(q, Barrier), Cancels) = Among(q, Cancels) + 1
            BY <2>2, AmongAppend
        <3>2. Among(q, Cancels) \in Nat /\ Append(q, Barrier) # <<>>
            BY <2>2, AmongFinite, Appends
        <3> QED BY <2>1, <3>1, <3>2
    <2> QED BY <1>1, <1>2, <1>3, <1>4, <2>3
<1>5. CASE /\ queue = <<>> /\ worker = EmptySession
           /\ \E es \in Seq(WorkerEvent) : events = Append(es, Acked) /\ Said(es)
    <2>1. PICK es \in Seq(WorkerEvent) : events = Append(es, Acked)
        BY <1>5
    <2>2. Acked \in WorkerEvent /\ Acked \in Aborteds
        BY Typed DEF Acked, WorkerEvent, EventKind, Aborteds
    <2>3. Among(events, Aborteds) = Among(es, Aborteds) + 1 /\ Among(es, Aborteds) \in Nat
        BY <2>1, <2>2, AmongAppend, AmongFinite
    <2>4. ASSUME Tail(events) # <<>>
          PROVE  Among(Tail(events), Aborteds) >= 1
        <3>1. es # <<>> /\ Tail(events) = Append(Tail(es), Acked)
            BY <2>1, <2>4, HeadTailAppend
        <3>2. Tail(es) \in Seq(WorkerEvent)
            BY <3>1, Tails
        <3>3. Among(Tail(events), Aborteds) = Among(Tail(es), Aborteds) + 1
            BY <2>2, <3>1, <3>2, AmongAppend
        <3>4. Among(Tail(es), Aborteds) \in Nat
            BY <3>2, AmongFinite
        <3> QED BY <3>3, <3>4
    <2>5. drain >= 1
        BY <1>1, <2>3
    <2>6. Head(events).event = "Aborted" /\ Tail(events) # <<>> => drain >= 2
        BY <1>1, <1>2, <1>3, <2>4
    <2> QED BY <1>1, <1>5, <2>5, <2>6
<1> QED BY <1>4, <1>5 DEF Owned

LEMMA ResetOwned ==
    ASSUME TypeOK, TypeOK', Owned, UnackedAreCounted, ResetDrains
    PROVE  Owned' /\ (phase' = "next" => Clean')
<1>0. /\ queue \in Seq(Message) /\ events \in Seq(WorkerEvent) /\ Unacked = Due
      /\ phase = "reset" /\ events # <<>> /\ events' = Tail(events)
      /\ queue' = queue /\ worker' = worker
      /\ drain' = IF Head(events).event = "Aborted" THEN drain - 1 ELSE drain
      /\ \/ drain' = 0 /\ phase' = "next"
         \/ drain' # 0 /\ phase' = "reset" /\ cur' = cur
    BY UnackedIsDue DEF ResetDrains, TypeOK, workVars
<1>1. CASE \E q \in Seq(Message) : queue = Append(q, Barrier) /\ Ours(q) /\ Said(events)
    <2>1. PICK q \in Seq(Message) : queue = Append(q, Barrier) /\ Ours(q) /\ Said(events)
        BY <1>1
    <2>2. Barrier \in Message
        BY DEF Barrier, Message
    <2>3. queue # <<>>
        BY <2>1, <2>2, Appends
    <2>4. drain' # 0
        BY <1>0, <2>3, ResetSees
    <2>5. Said(events')
        BY <1>0, <2>1, SaidTail
    <2>6. Ours(q)' /\ Said(events)'
        BY <1>0, <2>1, <2>4, <2>5 DEF Ours, Said
    <2>7. queue' = Append(q, Barrier)
        BY <1>0, <2>1
    <2> QED BY <1>0, <2>4, <2>6, <2>7 DEF Owned, Barrier
<1>2. CASE /\ queue = <<>> /\ worker = EmptySession
           /\ \E es \in Seq(WorkerEvent) : events = Append(es, Acked) /\ Said(es)
    <2>1. PICK es \in Seq(WorkerEvent) : events = Append(es, Acked) /\ Said(es)
        BY <1>2
    <2>2. CASE es = <<>>
        <3>1. events' = <<>> /\ Head(events) = Acked
            BY <1>0, <2>1, <2>2, HeadTailAppend
        <3>2. Clean'
            BY <1>0, <1>2, <3>1 DEF Clean
        <3>3. drain' = 0
            <4>1. Among(queue, Cancels) = 0
                BY <1>2, AmongNone
            <4>2. Acked \in Aborteds
                BY Typed DEF Acked, WorkerEvent, EventKind, Aborteds
            <4>3. Among(events, Aborteds) = 0 + 1
                BY <1>0, <3>1, <4>2, AmongTail, AmongNone
            <4>4. drain = 1
                BY <1>0, <4>1, <4>3 DEF UnackedAreCounted, Due
            <4> QED BY <1>0, <3>1, <4>4 DEF Acked
        <3> QED BY <1>0, <3>2, <3>3 DEF Owned
    <2>3. CASE es # <<>>
        <3>1. Tail(events) = Append(Tail(es), Acked) /\ Tail(events) # <<>>
            <4>1. Acked \in WorkerEvent
                BY Typed DEF Acked, WorkerEvent, EventKind
            <4> QED BY <2>1, <2>3, <4>1, HeadTailAppend, Tails, Appends
        <3>2. drain' # 0
            BY <1>0, <1>2, <3>1, ResetSees
        <3>3. Tail(es) \in Seq(WorkerEvent) /\ Said(Tail(es))
            BY <2>1, <2>3, SaidTail
        <3>4. cur' = cur /\ phase' = "reset" /\ queue' = <<>> /\ worker' = EmptySession
            BY <1>0, <1>2, <3>2
        <3>5. Said(Tail(es))'
            BY <3>3, <3>4 DEF Said
        <3> QED BY <1>0, <3>1, <3>3, <3>4, <3>5 DEF Owned, Acked
    <2> QED BY <2>2, <2>3
<1> QED BY <1>0, <1>1, <1>2 DEF Owned

LEMMA WorkerOwned ==
    ASSUME TypeOK, TypeOK', Owned, Worker, phase # "exited"
    PROVE  Owned'
<1>0. /\ queue \in Seq(Message) /\ events \in Seq(WorkerEvent) /\ queue # <<>>
      /\ UNCHANGED <<phase, cur>>
    BY WorkerHandles DEF TypeOK, mainVars
<1>1. CASE phase \in {"starting", "handover", "next", "greet"}
    BY <1>0, <1>1 DEF Owned, Clean
<1>2. CASE phase \in {"forward", "join"}
    <2>1. Ours(queue) /\ Said(events)
        BY <1>2 DEF Owned
    <2>2. Head(queue).from = cur /\ Ours(Tail(queue))
        BY <1>0, <2>1, OursTail
    <2>3. Ours(queue')
        BY <2>1, <2>2, WorkerHandles
    <2>4. Said(events')
        BY <2>1, <2>2, WorkerSaysOurs
    <2>5. Ours(queue)' /\ Said(events)'
        BY <1>0, <2>3, <2>4 DEF Ours, Said
    <2> QED BY <1>0, <1>2, <2>5 DEF Owned
<1>3. CASE phase = "reset"
    <2>1. PICK q \in Seq(Message) : queue = Append(q, Barrier) /\ Ours(q) /\ Said(events)
        BY <1>0, <1>3 DEF Owned
    <2>2. CASE q = <<>>
        <3>1. Head(queue) = Barrier /\ Tail(queue) = <<>>
            BY <2>1, <2>2, HeadTailAppend
        <3>2. queue' = <<>> /\ worker' = EmptySession /\ events' = Append(events, Acked)
            <4>1. Head(queue).frame.cmd = "Cancel" /\ Head(queue).from = Nobody
                BY <3>1 DEF Barrier, ResetFrame
            <4> QED BY <3>1, <4>1, WorkerSays DEF Acked
        <3>3. Said(events) /\ events \in Seq(WorkerEvent) /\ cur' = cur
            BY <1>0, <2>1
        <3>4. PICK es \in Seq(WorkerEvent) : events' = Append(es, Acked) /\ Said(es) /\ cur' = cur
            BY <3>2, <3>3
        <3>5. Said(es)'
            BY <3>4 DEF Said
        <3> QED BY <1>0, <1>3, <3>2, <3>4, <3>5 DEF Owned, Acked
    <2>3. CASE q # <<>>
        <3>1. Head(queue) = Head(q) /\ Tail(queue) = Append(Tail(q), Barrier)
            BY <2>1, <2>3, HeadTailAppend
        <3>2. Head(q).from = cur /\ Tail(q) \in Seq(Message) /\ Ours(Tail(q))
            BY <2>1, <2>3, OursTail
        <3>3. Said(events')
            BY <2>1, <3>1, <3>2, WorkerSaysOurs
        <3>4. \E r \in Seq(Message) : queue' = Append(r, Barrier) /\ Ours(r)
            BY <2>1, <3>1, <3>2, WorkerHandles
        <3>5. PICK r \in Seq(Message) : queue' = Append(r, Barrier) /\ Ours(r)
            BY <3>4
        <3>6. Said(events)' /\ Ours(r)'
            BY <1>0, <3>3, <3>5 DEF Said, Ours
        <3> QED BY <1>0, <1>3, <3>5, <3>6 DEF Owned, Barrier
    <2> QED BY <2>2, <2>3
<1> QED BY <1>1, <1>2, <1>3 DEF TypeOK

LEMMA OwnedKept ==
    ASSUME TypeOK, TypeOK', Owned, UnackedAreCounted, Next
    PROVE  Owned'
<1>0. /\ queue \in Seq(Message) /\ events \in Seq(WorkerEvent)
    BY DEF TypeOK
\* Nothing moves between clients: the worker has nothing to do.
<1>1. ASSUME Clean, UNCHANGED <<queue, events, worker>>, phase' # "reset"
      PROVE  Owned'
    BY <1>1, NothingOurs DEF Owned, Clean, Ours, Said
<1>2. CASE Worker
    BY <1>2, WorkerOwned DEF Worker, WorkerStart, WorkerChunk, WorkerCancel, WorkerFlush, WorkerPolishes,
           WorkerRecords, WorkerAnswers, Works, Flushing
<1>3. CASE ResetDrains
    BY <1>3, ResetOwned
<1>4. CASE HandoverDone \/ ServeEarly \/ Accept \/ ServeHandshake \/ Loaded \/ AcceptStartup
    <2>1. UNCHANGED <<queue, events, worker>> /\ phase' # "reset"
          /\ phase \in {"starting", "handover", "next", "greet"}
        BY <1>4 DEF HandoverDone, ServeEarly, Accept, ServeHandshake, Loaded, AcceptStartup, workVars, mainVars
    <2> QED BY <1>1, <2>1 DEF Owned
<1>5. CASE Terminate \/ ResetTimesOut \/ IdleExit
    BY <1>5 DEF Terminate, ResetTimesOut, IdleExit, Exits, Owned
<1>6. CASE UNCHANGED <<phase, cur, queue, events, worker>>
    <2>1. (\A q : Ours(q)' <=> Ours(q)) /\ (\A es : Said(es)' <=> Said(es))
        BY <1>6 DEF Ours, Said
    <2> QED BY <1>6 DEF Owned, Clean, Ours, Said, Barrier, Acked
<1>7. CASE Client \/ \E c \in Clients : Startup(c)
    <2>1. UNCHANGED <<phase, cur, queue, events, worker>>
        BY <1>7 DEF Client, Connect, Leave, Submit, Startup, StartupHandshake, StartupReads,
                     StartupEnds, StartupReady, mainVars, workVars
    <2> QED BY <1>6, <2>1
<1>8. CASE ForwardEnds \/ RelayEnds
    <2>1. UNCHANGED <<cur, queue, events, worker>> /\ phase \in {"forward", "join"}
          /\ phase' \in {"forward", "join"}
        BY <1>8 DEF ForwardEnds, RelayEnds, mainVars, workVars
    <2> QED BY <2>1 DEF Owned, Ours, Said
<1>9. CASE Forward
    <2>1. /\ phase = "forward" /\ phase' \in {"forward", "join"} /\ UNCHANGED <<cur, events, worker>>
          /\ queue' = queue \/ queue' = Append(queue, [from |-> cur, frame |-> Head(sock[cur].in)])
        BY <1>9 DEF Forward, workVars
    <2>2. Ours(queue) /\ Said(events)
        BY <2>1 DEF Owned
    <2>3. Ours(queue')
        <3>1. cur \in Clients /\ sock[cur].in \in Seq(Frames) /\ sock[cur].in # <<>>
            BY <1>9 DEF TypeOK, Forward, HasFrame, Connection
        <3>2. Head(sock[cur].in) \in Frames
            BY <3>1, Tails
        <3> DEFINE m == [from |-> cur, frame |-> Head(sock[cur].in)]
        <3>3. m \in Message /\ m.from = cur /\ (queue' = queue \/ queue' = Append(queue, m))
            BY <2>1, <3>1, <3>2 DEF Message
        <3> HIDE DEF m
        <3> QED BY <1>0, <2>2, <3>3, OursAppend
    <2>4. Ours(queue)' /\ Said(events)'
        BY <2>1, <2>2, <2>3 DEF Ours, Said
    <2> QED BY <2>1, <2>4 DEF Owned
<1>10. CASE BeginReset
    <2>1. /\ phase = "join" /\ phase' = "reset" /\ UNCHANGED <<cur, events, worker>>
          /\ queue' = Append(queue, Barrier)
        BY <1>10 DEF BeginReset, workVars, Barrier
    <2>2. PICK q \in Seq(Message) : queue' = Append(q, Barrier) /\ Ours(q) /\ Said(events)
        BY <1>0, <2>1 DEF Owned
    <2>3. Ours(q)' /\ Said(events)'
        BY <2>1, <2>2 DEF Ours, Said
    <2> QED BY <2>1, <2>2, <2>3 DEF Owned, Barrier
<1>11. CASE RelayEvent
    <2>1. /\ phase \in {"forward", "join"} /\ UNCHANGED <<phase, cur, queue, worker>>
          /\ events # <<>> /\ events' = Tail(events)
        BY <1>11 DEF RelayEvent, TypeOK, workVars
    <2>2. Ours(queue) /\ Said(events')
        BY <1>0, <2>1, SaidTail DEF Owned
    <2>3. Ours(queue)' /\ Said(events)'
        BY <2>1, <2>2 DEF Ours, Said
    <2> QED BY <2>1, <2>3 DEF Owned
<1> QED BY <1>2, <1>3, <1>4, <1>5, <1>7, <1>8, <1>9, <1>10, <1>11 DEF Next, Main, Relay

-----------------------------------------------------------------------------
(* Frames keep their order from the socket to the history *)

\* What a step may do to the frames a client sent, and to its place.
Reads(c) ==
    /\ \/ sock'[c].in = sock[c].in /\ sock'[c].sent = sock[c].sent
       \/ sock'[c].in = <<>> /\ sock'[c].sent = sock[c].sent
       \/ sock[c].in # <<>> /\ sock'[c].in = Tail(sock[c].in) /\ sock'[c].sent = sock[c].sent
       \/ /\ sock'[c].sent = sock[c].sent + 1
          /\ \E f \in Frames : f.k = sock[c].sent + 1 /\ sock'[c].in = Append(sock[c].in, f)
    /\ sock[c].at \in {"served", "ended"} => sock'[c].at \in {"served", "ended"}

LEMMA FramesMove ==
    ASSUME TypeOK, Placed, Next, NEW d \in Clients
    PROVE  Reads(d)
<1>0. sock \in [Clients -> Connection] /\ sock[d] \in Connection
    BY DEF TypeOK
<1>1. CASE sock'[d] = sock[d]
    BY <1>1 DEF Reads
<1>2. ASSUME NEW c \in Clients, Ended(c) \/ Refused(c)
      PROVE  Reads(d)
    <2>1. CASE c = d
        <3>1. sock'[d].in = <<>> /\ sock'[d].sent = sock[d].sent /\ sock'[d].at = "ended"
            BY <1>0, <1>2, <2>1 DEF Ended, Refused, Connection
        <3> QED BY <3>1 DEF Reads
    <2>2. CASE c # d
        <3>1. sock'[d] = sock[d]
            BY <1>2, <2>2, EndedMoves
        <3> QED BY <1>1, <3>1
    <2> QED BY <2>1, <2>2
<1>3. ASSUME NEW c \in Clients, Connect(c) \/ Leave(c)
      PROVE  Reads(d)
    <2>1. CASE c # d
        BY <1>0, <1>1, <1>3, <2>1 DEF Connect, Leave
    <2>2. CASE c = d
        <3>1. sock'[d].in = sock[d].in /\ sock'[d].sent = sock[d].sent
              /\ (sock'[d].at = sock[d].at \/ sock[d].at = "out")
            BY <1>0, <1>3, <2>2 DEF Connect, Leave, Connection
        <3> QED BY <3>1 DEF Reads
    <2> QED BY <2>1, <2>2
<1>4. ASSUME NEW c \in Clients, NEW cmd \in ClientMsg, Submit(c, cmd)
      PROVE  Reads(d)
    <2>1. CASE c # d
        BY <1>0, <1>1, <1>4, <2>1 DEF Submit
    <2>2. CASE c = d
        <3> DEFINE f == [cmd |-> cmd, k |-> sock[c].sent + 1]
        <3>1. sock[c].sent \in Nat /\ sock[c].sent + 1 \in 1..MaxFrames
            BY <1>0, <1>4, ClientsAssumption DEF Submit, FrameBound, Connection
        <3>2. f \in Frames /\ f.k = sock[c].sent + 1
            BY <1>4, <3>1 DEF Submit, Frames
        <3>3. sock' = [sock EXCEPT ![c].sent = @ + 1, ![c].in = Append(@, f)]
            BY <1>4 DEF Submit
        <3> HIDE DEF f
        <3>4. sock'[c].sent = sock[c].sent + 1 /\ sock'[c].in = Append(sock[c].in, f)
              /\ sock'[c].at = sock[c].at
            BY <1>0, <3>3 DEF Connection
        <3> QED BY <2>2, <3>2, <3>4 DEF Reads
    <2> QED BY <2>1, <2>2
<1>5. ASSUME NEW c \in Clients, Startup(c)
      PROVE  Reads(d)
    <2>1. CASE Ended(c) \/ Refused(c)
        BY <1>2, <2>1
    <2>2. CASE ~Ended(c) /\ ~Refused(c)
        <3>1. sock[c].at \notin {"served", "ended"}
            BY <1>5 DEF Startup, StartupHandshake, StartupReads, StartupEnds, StartupReady
        <3>2. CASE StartupHandshake(c)
            <4>1. /\ sock[c].in # <<>>
                  /\ sock' = [sock EXCEPT ![c].at = "startup", ![c].in = Tail(@),
                                          ![c].out = Append(@, Event("Hello", <<>>))]
                BY <2>2, <3>2 DEF StartupHandshake, Greets, HasFrame
            <4>2. CASE c = d
                <5>1. sock'[d].in = Tail(sock[d].in) /\ sock'[d].sent = sock[d].sent
                    BY <1>0, <4>1, <4>2 DEF Connection
                <5> QED BY <3>1, <4>1, <4>2, <5>1 DEF Reads
            <4>3. CASE c # d
                BY <1>0, <1>1, <4>1, <4>3
            <4> QED BY <4>2, <4>3
        <3>3. CASE StartupReads(c)
            <4>1. /\ sock[c].in # <<>>
                  /\ \/ sock' = [sock EXCEPT ![c].in = Tail(@)]
                     \/ sock' = [sock EXCEPT ![c].in = Tail(@), ![c].out = Append(@, Event("Error", <<>>))]
                BY <2>2, <3>3 DEF StartupReads, HasFrame
            <4>2. CASE c = d
                <5>1. sock'[d].in = Tail(sock[d].in) /\ sock'[d].sent = sock[d].sent
                    BY <1>0, <4>1, <4>2 DEF Connection
                <5> QED BY <3>1, <4>1, <4>2, <5>1 DEF Reads
            <4>3. CASE c # d
                BY <1>0, <1>1, <4>1, <4>3
            <4> QED BY <4>2, <4>3
        <3>4. CASE StartupReady(c)
            <4>1. sock' = [sock EXCEPT ![c].at = "early", ![c].out = Append(@, Event("Ready", <<>>))]
                BY <2>2, <3>4 DEF StartupReady
            <4>2. CASE c = d
                <5>1. sock'[d].in = sock[d].in /\ sock'[d].sent = sock[d].sent
                    BY <1>0, <4>1, <4>2 DEF Connection
                <5> QED BY <3>1, <4>2, <5>1 DEF Reads
            <4>3. CASE c # d
                BY <1>0, <1>1, <4>1, <4>3
            <4> QED BY <4>2, <4>3
        <3> QED BY <1>5, <2>2, <3>2, <3>3, <3>4 DEF Startup, StartupEnds
    <2> QED BY <2>1, <2>2
<1>6. CASE AcceptStartup \/ ServeEarly \/ Accept
    <2>1. CASE AcceptStartup
        <3>1. Head(backlog) \in Clients /\ sock[Head(backlog)].at = "backlog"
            BY <2>1, Tails DEF AcceptStartup, TypeOK, Placed
        <3> QED BY <1>0, <2>1, <3>1 DEF AcceptStartup, Reads, Connection
    <2>2. CASE ServeEarly
        <3>1. Head(early) \in Clients
            BY <2>2, Tails DEF ServeEarly, TypeOK
        <3> QED BY <1>0, <2>2, <3>1 DEF ServeEarly, Reads, Connection
    <2>3. CASE Accept
        <3>1. Head(backlog) \in Clients
            BY <2>3, Tails DEF Accept, TypeOK
        <3> QED BY <1>0, <2>3, <3>1 DEF Accept, Reads, Connection
    <2> QED BY <1>6, <2>1, <2>2, <2>3
<1>7. CASE ServeHandshake
    <2>1. cur \in Clients
        BY <1>7 DEF ServeHandshake, TypeOK
    <2>2. CASE Ended(cur) \/ Refused(cur)
        BY <1>2, <2>1, <2>2
    <2>3. CASE ~Ended(cur) /\ ~Refused(cur)
        <3>1. /\ sock[cur].in # <<>>
              /\ sock' = [sock EXCEPT ![cur].in = Tail(@),
                                  ![cur].out = @ \o <<Event("Hello", <<>>), Event("Ready", <<>>)>>]
            BY <1>7, <2>3 DEF ServeHandshake, Greets, HasFrame
        <3>2. CASE cur = d
            <4>1. sock'[d].in = Tail(sock[d].in) /\ sock'[d].sent = sock[d].sent /\ sock'[d].at = sock[d].at
                BY <1>0, <3>1, <3>2 DEF Connection
            <4> QED BY <3>1, <3>2, <4>1 DEF Reads
        <3>3. CASE cur # d
            BY <1>0, <1>1, <3>1, <3>3
        <3> QED BY <3>2, <3>3
    <2> QED BY <2>2, <2>3
<1>8. CASE Forward
    <2>1. cur \in Clients
        BY <1>8 DEF Forward, TypeOK
    <2> QED BY <1>0, <1>8, <2>1 DEF Forward, HasFrame, Reads, Connection
<1>9. CASE ResetDrains
    <2>1. cur \in Clients
        BY <1>9 DEF ResetDrains, TypeOK
    <2> QED BY <1>1, <1>2, <1>9, <2>1 DEF ResetDrains
<1>10. CASE RelayEvent
    <2>1. cur \in Clients
        BY <1>10 DEF RelayEvent, TypeOK
    <2>2. CASE sock' = sock
        BY <1>1, <2>2
    <2>3. CASE sock' = [sock EXCEPT ![cur].out = Append(@, Event(Head(events).event, Head(events).text))]
        BY <1>0, <2>1, <2>3 DEF Reads, Connection
    <2> QED BY <1>10, <2>2, <2>3 DEF RelayEvent
<1>11. CASE HandoverDone \/ ForwardEnds \/ BeginReset \/ RelayEnds \/ Worker \/ Loaded \/ Terminate
            \/ ResetTimesOut \/ IdleExit
    BY <1>1, <1>11, WorkerHandles DEF HandoverDone, ForwardEnds, BeginReset, RelayEnds, Loaded, Terminate,
                  ResetTimesOut, IdleExit, Exits
<1> QED BY <1>3, <1>4, <1>5, <1>6, <1>7, <1>8, <1>9, <1>10, <1>11 DEF Next, Client, Main, Relay

LEMMA SocketsKept ==
    ASSUME TypeOK, Placed, SocketsOrdered, Next
    PROVE  SocketsOrdered'
<1> SUFFICES ASSUME NEW c \in Clients
             PROVE  (/\ \A i \in 1..Len(sock[c].in) : sock[c].in[i].k <= sock[c].sent
                     /\ Increasing(sock[c].in))'
    BY DEF SocketsOrdered
<1> DEFINE s == sock[c].in
           n == sock[c].sent
<1>0. s \in Seq(Frames) /\ n \in Int /\ Reads(c)
    BY FramesMove DEF TypeOK, Connection
<1>1. (\A i \in 1..Len(s) : s[i].k <= n) /\ Increasing(s)
    BY DEF SocketsOrdered
<1>2. CASE s' = s /\ n' = n
    BY <1>1, <1>2 DEF Increasing
<1>3. CASE s' = <<>> /\ n' = n
    BY <1>3 DEF Increasing
<1>4. CASE s # <<>> /\ s' = Tail(s) /\ n' = n
    <2>1. \A i \in 1..Len(s') : i + 1 \in 1..Len(s) /\ s'[i] = s[i + 1]
        BY <1>0, <1>4, Tails
    <2>2. \A i \in 1..Len(s') : s'[i].k <= n'
        BY <1>1, <1>4, <2>1
    <2>3. \A i, j \in 1..Len(s') : i < j => s'[i].k < s'[j].k
        <3> SUFFICES ASSUME NEW i \in 1..Len(s'), NEW j \in 1..Len(s'), i < j
                     PROVE  s'[i].k < s'[j].k
            OBVIOUS
        <3>1. i + 1 < j + 1 /\ s[i + 1].k < s[j + 1].k
            BY <1>1, <2>1 DEF Increasing
        <3> QED BY <2>1, <3>1
    <2> QED BY <2>2, <2>3 DEF Increasing
<1>5. CASE /\ n' = n + 1
           /\ \E f \in Frames : f.k = n + 1 /\ s' = Append(s, f)
    <2>1. PICK f \in Frames : f.k = n + 1 /\ s' = Append(s, f)
        BY <1>5
    <2>2. \A i \in 1..Len(s') : (i \in 1..Len(s) /\ s'[i] = s[i]) \/ (i = Len(s) + 1 /\ s'[i] = f)
        BY <1>0, <2>1, Appends
    <2>3. \A i \in 1..Len(s) : s[i].k \in Int
        <3>1. \A i \in 1..Len(s) : s[i] \in Frames
            BY <1>0, ElementOfSeq
        <3>2. \A g \in Frames : g.k \in Int
            BY DEF Frames
        <3> QED BY <3>1, <3>2
    <2>4. \A i \in 1..Len(s') : s'[i].k <= n'
        <3> SUFFICES ASSUME NEW i \in 1..Len(s') PROVE s'[i].k <= n + 1
            BY <1>5
        <3>1. CASE i \in 1..Len(s) /\ s'[i] = s[i]
            <4>1. s[i].k <= n /\ s[i].k \in Int
                BY <1>1, <2>3, <3>1
            <4> QED BY <1>0, <3>1, <4>1
        <3>2. CASE s'[i] = f
            BY <1>0, <2>1, <3>2
        <3> QED BY <2>2, <3>1, <3>2
    <2>5. \A i, j \in 1..Len(s') : i < j => s'[i].k < s'[j].k
        <3> SUFFICES ASSUME NEW i \in 1..Len(s'), NEW j \in 1..Len(s'), i < j
                     PROVE  s'[i].k < s'[j].k
            OBVIOUS
        <3>1. CASE j \in 1..Len(s) /\ s'[j] = s[j]
            <4>1. i \in 1..Len(s) /\ s'[i] = s[i]
                BY <1>0, <2>2, <3>1, LenProperties
            <4> QED BY <1>1, <3>1, <4>1 DEF Increasing
        <3>2. CASE j = Len(s) + 1 /\ s'[j] = f
            <4>1. i \in 1..Len(s) /\ s'[i] = s[i]
                BY <1>0, <2>2, <3>2, LenProperties
            <4> QED BY <1>0, <1>1, <2>1, <2>3, <3>2, <4>1
        <3> QED BY <2>2, <3>1, <3>2
    <2> QED BY <2>4, <2>5 DEF Increasing
<1> QED BY <1>0, <1>2, <1>3, <1>4, <1>5 DEF Reads

LEMMA PassedKept ==
    ASSUME TypeOK, Placed, Next, NEW c \in Clients, NEW k \in Int, Passed(sock[c], k)
    PROVE  Passed(sock'[c], k)
<1> DEFINE s == sock[c].in
           n == sock[c].sent
<1>0. s \in Seq(Frames) /\ n \in Int /\ Reads(c)
    BY FramesMove DEF TypeOK, Connection
<1>1. k <= n /\ \A j \in 1..Len(s) : k < s[j].k
    BY DEF Passed
<1>2. CASE s' = s /\ n' = n
    BY <1>1, <1>2 DEF Passed
<1>3. CASE s' = <<>> /\ n' = n
    BY <1>1, <1>3 DEF Passed
<1>4. CASE s # <<>> /\ s' = Tail(s) /\ n' = n
    <2>1. \A i \in 1..Len(s') : i + 1 \in 1..Len(s) /\ s'[i] = s[i + 1]
        BY <1>0, <1>4, Tails
    <2> QED BY <1>1, <1>4, <2>1 DEF Passed
<1>5. CASE /\ n' = n + 1
           /\ \E f \in Frames : f.k = n + 1 /\ s' = Append(s, f)
    <2>1. PICK f \in Frames : f.k = n + 1 /\ s' = Append(s, f)
        BY <1>5
    <2>2. \A i \in 1..Len(s') : (i \in 1..Len(s) /\ s'[i] = s[i]) \/ s'[i] = f
        BY <1>0, <2>1, Appends
    <2>3. \A i \in 1..Len(s') : k < s'[i].k
        BY <1>0, <1>1, <2>1, <2>2
    <2> QED BY <1>0, <1>1, <1>5, <2>3 DEF Passed
<1> QED BY <1>0, <1>2, <1>3, <1>4, <1>5 DEF Reads

\* What a step may do to the queue.
Forwarded == [from |-> cur, frame |-> Head(sock[cur].in)]
LEMMA QueueMoves ==
    ASSUME TypeOK, Next
    PROVE  \/ queue' = queue
           \/ queue # <<>> /\ queue' = Tail(queue)
           \/ queue' = Append(queue, Barrier)
           \/ /\ phase = "forward" /\ cur \in Clients /\ sock[cur].in # <<>> /\ Forwarded \in Message
              /\ queue' = Append(queue, Forwarded)
              /\ sock'[cur].in = Tail(sock[cur].in) /\ sock'[cur].sent = sock[cur].sent
              /\ UNCHANGED <<cur, worker, history>>
<1>1. CASE Worker
    BY <1>1, WorkerHandles
<1>2. CASE Forward
    <2>1. cur \in Clients /\ sock[cur].in # <<>> /\ sock[cur] \in Connection /\ phase = "forward"
          /\ UNCHANGED <<cur, worker, history>> /\ sock \in [Clients -> Connection]
        BY <1>2 DEF Forward, HasFrame, TypeOK, workVars
    <2>2. Head(sock[cur].in) \in Frames
        BY <2>1, Tails DEF Connection
    <2>3. Forwarded \in Message
        BY <2>1, <2>2 DEF Forwarded, Message
    <2>4. queue' = queue \/ queue' = Append(queue, Forwarded)
        BY <1>2 DEF Forward, Forwarded
    <2>5. sock'[cur].in = Tail(sock[cur].in) /\ sock'[cur].sent = sock[cur].sent
        BY <1>2, <2>1 DEF Forward, Connection
    <2> QED BY <2>1, <2>3, <2>4, <2>5
<1>3. CASE BeginReset
    BY <1>3 DEF BeginReset, Barrier
<1>4. CASE ~Worker /\ ~Forward /\ ~BeginReset
    BY <1>4 DEF Next, Client, Connect, Leave, Submit, Startup, StartupHandshake, StartupReads, StartupEnds,
           StartupReady, Main, AcceptStartup, HandoverDone, ServeEarly, Accept, ServeHandshake, ForwardEnds,
           ResetDrains, Relay, RelayEvent, RelayEnds, Loaded, Terminate, ResetTimesOut, IdleExit, Exits
<1> QED BY <1>1, <1>2, <1>3, <1>4

LEMMA QueueOrderKept ==
    ASSUME TypeOK, TypeOK', Placed, Owned, SocketsOrdered, QueueOrdered, Next
    PROVE  QueueOrdered'
<1>0. queue \in Seq(Message) /\ sock \in [Clients -> Connection]
      /\ \A i \in 1..Len(queue) : queue[i].from # Nobody => queue[i].from \in Clients /\ queue[i].frame.k \in Int
    <2>1. \A i \in 1..Len(queue) : queue[i] \in Message
        BY ElementOfSeq DEF TypeOK
    <2> QED BY <2>1 DEF TypeOK, Message, Frames
<1>1. \A i \in 1..Len(queue) : queue[i].from # Nobody =>
         /\ Passed(sock'[queue[i].from], queue[i].frame.k)
         /\ \A j \in 1..Len(queue) : i < j /\ queue[j].from # Nobody => queue[i].frame.k < queue[j].frame.k
    BY <1>0, PassedKept DEF QueueOrdered
<1>2. CASE queue' = queue
    BY <1>1, <1>2 DEF QueueOrdered
<1>3. CASE queue # <<>> /\ queue' = Tail(queue)
    <2>1. Len(queue) \in Nat
          /\ \A i \in 1..Len(queue') : i + 1 \in 1..Len(queue) /\ queue'[i] = queue[i + 1]
        BY <1>0, <1>3, Tails
    <2> SUFFICES ASSUME NEW i \in 1..Len(queue'), queue'[i].from # Nobody
                 PROVE  /\ Passed(sock'[queue'[i].from], queue'[i].frame.k)
                        /\ \A j \in 1..Len(queue') : i < j /\ queue'[j].from # Nobody =>
                              queue'[i].frame.k < queue'[j].frame.k
        BY DEF QueueOrdered
    <2>2. i + 1 \in 1..Len(queue) /\ queue'[i] = queue[i + 1] /\ Passed(sock'[queue[i + 1].from], queue[i + 1].frame.k)
        BY <1>1, <2>1
    <2>3. ASSUME NEW j \in 1..Len(queue'), i < j, queue'[j].from # Nobody
          PROVE  queue'[i].frame.k < queue'[j].frame.k
        <3>1. j + 1 \in 1..Len(queue) /\ queue'[j] = queue[j + 1] /\ i + 1 < j + 1
            BY <2>1, <2>3
        <3> QED BY <1>1, <2>2, <2>3, <3>1
    <2> QED BY <2>2, <2>3
<1>4. ASSUME NEW m \in Message, queue' = Append(queue, m),
             m.from # Nobody => /\ Passed(sock'[m.from], m.frame.k)
                                /\ \A i \in 1..Len(queue) : queue[i].from # Nobody => queue[i].frame.k < m.frame.k
      PROVE  QueueOrdered'
    <2>1. Len(queue) \in Nat /\ Len(queue') = Len(queue) + 1
          /\ \A i \in 1..Len(queue') :
                (i \in 1..Len(queue) /\ queue'[i] = queue[i]) \/ (i = Len(queue) + 1 /\ queue'[i] = m)
        BY <1>0, <1>4, Appends
    <2> SUFFICES ASSUME NEW i \in 1..Len(queue'), queue'[i].from # Nobody
                 PROVE  /\ Passed(sock'[queue'[i].from], queue'[i].frame.k)
                        /\ \A j \in 1..Len(queue') : i < j /\ queue'[j].from # Nobody =>
                              queue'[i].frame.k < queue'[j].frame.k
        BY DEF QueueOrdered
    <2>2. Passed(sock'[queue'[i].from], queue'[i].frame.k)
        BY <1>1, <1>4, <2>1
    <2>3. ASSUME NEW j \in 1..Len(queue'), i < j, queue'[j].from # Nobody
          PROVE  queue'[i].frame.k < queue'[j].frame.k
        <3>1. i \in 1..Len(queue) /\ queue'[i] = queue[i]
            BY <2>1, <2>3
        <3>2. CASE j \in 1..Len(queue) /\ queue'[j] = queue[j]
            BY <1>1, <2>3, <3>1, <3>2
        <3>3. CASE queue'[j] = m
            BY <1>4, <2>3, <3>1, <3>3
        <3> QED BY <2>1, <3>2, <3>3
    <2> QED BY <2>2, <2>3
<1>5. CASE queue' = Append(queue, Barrier)
    <2>1. Barrier \in Message /\ Barrier.from = Nobody
        BY DEF Barrier, Message
    <2> QED BY <1>4, <1>5, <2>1
\* The frame forwarded was the first in its socket, and behind all in the queue.
<1>6. CASE /\ phase = "forward" /\ cur \in Clients /\ sock[cur].in # <<>> /\ Forwarded \in Message
           /\ queue' = Append(queue, Forwarded)
           /\ sock'[cur].in = Tail(sock[cur].in) /\ sock'[cur].sent = sock[cur].sent
    <2>0. sock[cur].in \in Seq(Frames) /\ sock[cur].sent \in Int
        BY <1>0, <1>6 DEF Connection
    <2>1. /\ 1 \in 1..Len(sock[cur].in) /\ Head(sock[cur].in) = sock[cur].in[1]
          /\ \A j \in 1..Len(Tail(sock[cur].in)) : /\ j + 1 \in 1..Len(sock[cur].in) /\ 1 < j + 1
                                                  /\ Tail(sock[cur].in)[j] = sock[cur].in[j + 1]
        BY <1>6, <2>0, Tails
    <2>2. Head(sock[cur].in).k <= sock[cur].sent
          /\ \A j \in 1..Len(Tail(sock[cur].in)) : Head(sock[cur].in).k < Tail(sock[cur].in)[j].k
        BY <1>6, <2>1 DEF SocketsOrdered, Increasing
    <2>3. Passed(sock'[cur], Head(sock[cur].in).k)
        BY <1>6, <2>2 DEF Passed
    <2>4. Forwarded.from = cur /\ Forwarded.frame = Head(sock[cur].in)
        BY DEF Forwarded
    <2>5. \A i \in 1..Len(queue) : queue[i].from # Nobody => queue[i].frame.k < Head(sock[cur].in).k
        <3>1. \A i \in 1..Len(queue) : queue[i].from = cur
            BY <1>6 DEF Owned, Ours
        <3> QED BY <2>1, <3>1 DEF QueueOrdered, Passed
    <2> QED BY <1>4, <1>6, <2>3, <2>4, <2>5
<1> QED BY <1>2, <1>3, <1>5, <1>6, QueueMoves

\* A chunk that has reached the worker stays behind all its client still sends.
LEMMA BehindKept ==
    ASSUME TypeOK, Placed, SocketsOrdered, Next, NEW c \in Clients, NEW k \in Int, Behind(sock[c], queue, c, k)
    PROVE  Behind(sock'[c], queue', c, k)
<1>0. queue \in Seq(Message)
    BY DEF TypeOK
<1>1. sock'[c].at \in {"served", "ended"} /\ Passed(sock'[c], k)
    <2>1. sock[c].at \in {"served", "ended"} /\ Passed(sock[c], k)
        BY DEF Behind
    <2>2. sock'[c].at \in {"served", "ended"}
        BY <2>1, FramesMove DEF Reads
    <2> QED BY <2>1, <2>2, PassedKept
<1>2. \A i \in 1..Len(queue) : queue[i].from = c => k < queue[i].frame.k
    BY DEF Behind
<1>3. CASE queue' = queue
    BY <1>1, <1>2, <1>3 DEF Behind
<1>4. CASE queue # <<>> /\ queue' = Tail(queue)
    <2>1. \A i \in 1..Len(queue') : i + 1 \in 1..Len(queue) /\ queue'[i] = queue[i + 1]
        BY <1>0, <1>4, Tails
    <2>2. \A i \in 1..Len(queue') : queue'[i].from = c => k < queue'[i].frame.k
        BY <1>2, <2>1
    <2> QED BY <1>1, <2>2 DEF Behind
<1>5. ASSUME NEW m \in Message, queue' = Append(queue, m), m.from = c => k < m.frame.k
      PROVE  Behind(sock'[c], queue', c, k)
    <2>1. \A i \in 1..Len(queue') : (i \in 1..Len(queue) /\ queue'[i] = queue[i]) \/ queue'[i] = m
        BY <1>0, <1>5, Appends
    <2>2. \A i \in 1..Len(queue') : queue'[i].from = c => k < queue'[i].frame.k
        BY <1>2, <1>5, <2>1
    <2> QED BY <1>1, <2>2 DEF Behind
<1>6. CASE queue' = Append(queue, Barrier)
    <2>1. Barrier \in Message /\ Barrier.from # c
        BY ClientsAssumption DEF Barrier, Message
    <2> QED BY <1>5, <1>6, <2>1
<1>7. CASE cur \in Clients /\ sock[cur].in # <<>> /\ Forwarded \in Message /\ queue' = Append(queue, Forwarded)
    <2>1. sock[cur].in \in Seq(Frames)
        BY <1>7 DEF TypeOK, Connection
    <2>2. 1 \in 1..Len(sock[cur].in) /\ Head(sock[cur].in) = sock[cur].in[1]
        BY <1>7, <2>1, Tails
    <2>3. Forwarded.from = c => k < Forwarded.frame.k
        BY <2>2 DEF Behind, Passed, Forwarded
    <2> QED BY <1>5, <1>7, <2>3
<1> QED BY <1>3, <1>4, <1>6, <1>7, QueueMoves

\* Every piece of the text and of the history has an owner and a number.
LEMMA PieceTypes ==
    ASSUME TypeOK
    PROVE  /\ worker.parts \in Seq(Piece)
           /\ \A a \in 1..Len(worker.parts) : worker.parts[a][1] \in Clients /\ worker.parts[a][2] \in Int
           /\ \A i \in 1..Len(history) : /\ history[i] \in Seq(Piece)
                                         /\ \A a \in 1..Len(history[i]) :
                                               history[i][a][1] \in Clients /\ history[i][a][2] \in Int
<1>1. worker.parts \in Seq(Piece) /\ history \in Seq(Seq(Piece))
    BY DEF TypeOK, Session
<1>2. \A p \in Piece : p[1] \in Clients /\ p[2] \in Int
    BY DEF Piece
<1>3. \A i \in 1..Len(history) : history[i] \in Seq(Piece)
    BY <1>1, ElementOfSeq
<1>4. \A s \in Seq(Piece) : \A a \in 1..Len(s) : s[a] \in Piece
    BY ElementOfSeq
<1> QED BY <1>1, <1>2, <1>3, <1>4

\* The history keeps its order with a text that stays, grows by what comes next
\* or is emptied.
LEMMA PastKept ==
    ASSUME TypeOK, Placed, SocketsOrdered, PastOrdered, Next, history' = history,
           \A b \in 1..Len(worker'.parts) : worker'.stage # "recorded" =>
              \/ worker.stage # "recorded" /\ b \in 1..Len(worker.parts) /\ worker'.parts[b] = worker.parts[b]
              \/ \A i \in 1..Len(history) : \A a \in 1..Len(history[i]) :
                    worker'.parts[b][1] = history[i][a][1] => history[i][a][2] < worker'.parts[b][2]
    PROVE  PastOrdered'
<1> SUFFICES ASSUME NEW i \in 1..Len(history), NEW a \in 1..Len(history[i])
             PROVE  /\ Behind(sock'[history[i][a][1]], queue', history[i][a][1], history[i][a][2])
                    /\ worker'.stage # "recorded" => \A b \in 1..Len(worker'.parts) :
                          worker'.parts[b][1] = history[i][a][1] => history[i][a][2] < worker'.parts[b][2]
    BY DEF PastOrdered
<1>1. history[i][a][1] \in Clients /\ history[i][a][2] \in Int
    BY PieceTypes
<1>2. Behind(sock[history[i][a][1]], queue, history[i][a][1], history[i][a][2])
    BY DEF PastOrdered
<1>3. Behind(sock'[history[i][a][1]], queue', history[i][a][1], history[i][a][2])
    BY <1>1, <1>2, BehindKept
<1>4. ASSUME worker'.stage # "recorded", NEW b \in 1..Len(worker'.parts),
             worker'.parts[b][1] = history[i][a][1]
      PROVE  history[i][a][2] < worker'.parts[b][2]
    <2>1. CASE worker.stage # "recorded" /\ b \in 1..Len(worker.parts) /\ worker'.parts[b] = worker.parts[b]
        <3>1. worker.parts[b][1] = history[i][a][1] => history[i][a][2] < worker.parts[b][2]
            BY <2>1 DEF PastOrdered
        <3> QED BY <1>4, <2>1, <3>1
    <2>2. CASE ~(worker.stage # "recorded" /\ b \in 1..Len(worker.parts) /\ worker'.parts[b] = worker.parts[b])
        BY <1>4, <2>2
    <2> QED BY <2>1, <2>2
<1> QED BY <1>3, <1>4

LEMMA TextKept ==
    ASSUME TypeOK, Placed, SocketsOrdered, TextOrdered, Next,
           \/ worker'.parts = <<>>
           \/ worker'.parts = worker.parts /\ cur' = cur
    PROVE  TextOrdered'
<1>1. CASE worker'.parts = <<>>
    BY <1>1 DEF TextOrdered
<1>2. CASE worker'.parts = worker.parts /\ cur' = cur
    <2> SUFFICES ASSUME NEW a \in 1..Len(worker.parts)
                 PROVE  /\ worker.parts[a][1] = cur
                        /\ Behind(sock'[cur], queue', cur, worker.parts[a][2])
                        /\ \A b \in 1..Len(worker.parts) : a < b => worker.parts[a][2] < worker.parts[b][2]
        BY <1>2 DEF TextOrdered
    <2>1. worker.parts[a][1] \in Clients /\ worker.parts[a][2] \in Int /\ worker.parts[a][1] = cur
          /\ Behind(sock[cur], queue, cur, worker.parts[a][2])
        BY PieceTypes DEF TextOrdered
    <2>2. Behind(sock'[cur], queue', cur, worker.parts[a][2])
        BY <2>1, BehindKept
    <2> QED BY <2>1, <2>2 DEF TextOrdered
<1> QED BY <1>1, <1>2

\* A session never holds text while no client is served.
LEMMA NewClientNoText ==
    ASSUME TypeOK, TypeOK', Owned, UnackedAreCounted, Next, ~Worker
    PROVE  (cur' = cur /\ UNCHANGED workVars) \/ (worker'.parts = <<>> /\ UNCHANGED workVars)
<1>1. CASE ServeEarly \/ Accept
    BY <1>1 DEF ServeEarly, Accept, Owned, Clean, EmptySession, workVars
<1>2. CASE ResetDrains
    <2>1. CASE phase' = "next"
        BY <1>2, <2>1, ResetOwned DEF Clean, EmptySession, ResetDrains
    <2>2. CASE phase' # "next"
        BY <1>2, <2>2 DEF ResetDrains
    <2> QED BY <2>1, <2>2
<1>3. CASE ~ServeEarly /\ ~Accept /\ ~ResetDrains
    BY <1>3 DEF Next, Client, Connect, Leave, Submit, Startup, StartupHandshake, StartupReads, StartupEnds,
           StartupReady, Main, AcceptStartup, HandoverDone, ServeHandshake, Forward, ForwardEnds, BeginReset,
           Relay, RelayEvent, RelayEnds, Loaded, Terminate, ResetTimesOut, IdleExit, Exits, mainVars
<1> QED BY <1>1, <1>2, <1>3

\* The head of the queue is the served client's, or the reset's barrier.
LEMMA HeadIsOurs ==
    ASSUME TypeOK, Owned, queue # <<>>, phase # "exited", Head(queue).frame.cmd # "Cancel"
    PROVE  Head(queue).from = cur /\ cur \in Clients /\ phase \in InService
<1>0. queue \in Seq(Message)
    BY DEF TypeOK
<1>1. phase \in InService
    BY DEF TypeOK, Owned, Clean, InService
<1>2. CASE Ours(queue)
    BY <1>0, <1>1, <1>2, OursTail DEF TypeOK, InService
<1>3. CASE \E q \in Seq(Message) : queue = Append(q, Barrier) /\ Ours(q)
    <2>1. PICK q \in Seq(Message) : queue = Append(q, Barrier) /\ Ours(q)
        BY <1>3
    <2>2. q # <<>>
        BY <2>1, HeadTailAppend DEF Barrier, ResetFrame
    <2>3. Head(queue) = Head(q) /\ Head(q).from = cur
        BY <2>1, <2>2, HeadTailAppend, OursTail
    <2> QED BY <1>1, <2>3 DEF TypeOK, InService
<1> QED BY <1>1, <1>2, <1>3 DEF Owned, InService

\* The chunk handled is in its place behind the text and the history.
LEMMA ChunkOrdered ==
    ASSUME TypeOK, Placed, Owned, Staged, SocketsOrdered, QueueOrdered, TextOrdered, PastOrdered,
           Next, WorkerChunk
    PROVE  TextOrdered' /\ PastOrdered'
<1>0. /\ queue \in Seq(Message) /\ queue # <<>> /\ queue' = Tail(queue) /\ worker.parts \in Seq(Piece)
      /\ Head(queue).frame.cmd = "Chunk" /\ phase # "exited" /\ worker \in Session
      /\ UNCHANGED <<cur, sock, history>>
    BY PieceTypes DEF WorkerChunk, Works, mainVars, TypeOK
<1> DEFINE k == Head(queue).frame.k
           piece == <<cur, k>>
<1>1. Head(queue).from = cur /\ cur \in Clients /\ phase \in InService
    BY <1>0, HeadIsOurs
<1>2. Head(queue) \in Message /\ k \in 1..MaxFrames
    BY <1>0, Tails DEF Message, Frames, ResetFrame
<1>3. piece \in Piece
    BY <1>1, <1>2 DEF Piece
<1>4. worker.stage = "gather"
    BY <1>0 DEF Staged
<1>5. /\ worker'.stage = "gather"
      /\ worker'.parts = worker.parts \/ worker'.parts = Append(worker.parts, piece)
    <2>1. worker' = [worker EXCEPT !.parts = Append(@, piece)] \/ worker' = [worker EXCEPT !.failed = TRUE]
        BY <1>1 DEF WorkerChunk
    <2> QED BY <1>0, <1>4, <2>1 DEF Session
<1>6. 1 \in 1..Len(queue) /\ Head(queue) = queue[1] /\ Len(queue) \in Nat
      /\ \A i \in 1..Len(Tail(queue)) : /\ i + 1 \in 1..Len(queue) /\ 1 < i + 1
                                        /\ Tail(queue)[i] = queue[i + 1]
    BY <1>0, Tails
<1>7. ASSUME NEW x \in Int, Behind(sock[cur], queue, cur, x)
      PROVE  x < k
    BY <1>1, <1>6, <1>7 DEF Behind
<1>8. Behind(sock[cur], Tail(queue), cur, k)
    <2>1. Passed(sock[cur], k)
        BY <1>1, <1>6, ClientsAssumption DEF QueueOrdered
    <2>2. sock[cur].at \in {"served", "ended"}
        BY <1>1 DEF Placed, InService
    <2>3. \A i \in 1..Len(Tail(queue)) : Tail(queue)[i].from = cur => k < Tail(queue)[i].frame.k
        BY <1>1, <1>6, ClientsAssumption DEF QueueOrdered
    <2> QED BY <2>1, <2>2, <2>3 DEF Behind
<1>9. CASE worker'.parts = worker.parts
    <2>1. TextOrdered'
        BY <1>0, <1>9, TextKept
    <2>2. PastOrdered'
        BY <1>0, <1>4, <1>9, PastKept
    <2> QED BY <2>1, <2>2
<1>10. CASE worker'.parts = Append(worker.parts, piece)
    <2>1. /\ Len(worker.parts) \in Nat
          /\ \A b \in 1..Len(worker'.parts) :
                \/ b \in 1..Len(worker.parts) /\ worker'.parts[b] = worker.parts[b]
                \/ b = Len(worker.parts) + 1 /\ worker'.parts[b] = piece
        BY <1>0, <1>3, <1>10, Appends
    <2> HIDE DEF piece
    <2>2. piece[1] = cur /\ piece[2] = k
        BY DEF piece
    <2>3. \A b \in 1..Len(worker.parts) : /\ worker.parts[b][1] = cur /\ worker.parts[b][2] \in Int
                                          /\ Behind(sock[cur], queue, cur, worker.parts[b][2])
                                          /\ worker.parts[b][2] < k
        BY <1>7, PieceTypes DEF TextOrdered
    <2>4. \A b \in 1..Len(worker.parts) : Behind(sock[cur], Tail(queue), cur, worker.parts[b][2])
        BY <1>0, <1>1, <2>3, BehindKept
    <2>5. TextOrdered'
        <3> SUFFICES ASSUME NEW a \in 1..Len(worker'.parts)
                     PROVE  /\ worker'.parts[a][1] = cur
                            /\ Behind(sock[cur], Tail(queue), cur, worker'.parts[a][2])
                            /\ \A b \in 1..Len(worker'.parts) :
                                  a < b => worker'.parts[a][2] < worker'.parts[b][2]
            BY <1>0 DEF TextOrdered
        <3>1. worker'.parts[a][1] = cur /\ Behind(sock[cur], Tail(queue), cur, worker'.parts[a][2])
            BY <1>8, <2>1, <2>2, <2>3, <2>4
        <3>2. ASSUME NEW b \in 1..Len(worker'.parts), a < b
              PROVE  worker'.parts[a][2] < worker'.parts[b][2]
            <4>1. a \in 1..Len(worker.parts) /\ worker'.parts[a] = worker.parts[a]
                BY <2>1, <3>2
            <4>2. CASE b \in 1..Len(worker.parts) /\ worker'.parts[b] = worker.parts[b]
                BY <3>2, <4>1, <4>2 DEF TextOrdered
            <4>3. CASE worker'.parts[b] = piece
                BY <2>2, <2>3, <4>1, <4>3
            <4> QED BY <2>1, <4>2, <4>3
        <3> QED BY <3>1, <3>2
    <2>6. PastOrdered'
        <3>1. \A i \in 1..Len(history) : \A a \in 1..Len(history[i]) :
                 piece[1] = history[i][a][1] => history[i][a][2] < piece[2]
            BY <1>7, <2>2, PieceTypes DEF PastOrdered
        <3>2. \A b \in 1..Len(worker'.parts) :
                 \/ b \in 1..Len(worker.parts) /\ worker'.parts[b] = worker.parts[b]
                 \/ \A i \in 1..Len(history) : \A a \in 1..Len(history[i]) :
                       worker'.parts[b][1] = history[i][a][1] => history[i][a][2] < worker'.parts[b][2]
            BY <2>1, <3>1
        <3> QED BY <1>0, <1>4, <3>2, PastKept
    <2> QED BY <2>5, <2>6
<1> QED BY <1>5, <1>9, <1>10

\* The entry recorded is one client's, in order, and after all it has said before.
LEMMA RecordOrdered ==
    ASSUME TypeOK, Placed, Owned, SocketsOrdered, TextOrdered, PastOrdered, HistoryIsOneClients,
           Next, WorkerRecords
    PROVE  PastOrdered' /\ HistoryIsOneClients'
<1>0. /\ history \in Seq(Seq(Piece)) /\ worker.parts \in Seq(Piece) /\ worker \in Session
      /\ UNCHANGED <<cur, sock, queue>> /\ worker.stage # "recorded" /\ worker.parts # <<>>
      /\ worker'.stage = "recorded" /\ worker'.parts = worker.parts
      /\ history' = history \/ history' = Append(history, worker.parts)
    BY PieceTypes DEF WorkerRecords, Flushing, mainVars, TypeOK, Session
<1>1. CASE history' = history
    <2>1. PastOrdered'
        BY <1>0, <1>1, PastKept
    <2>2. HistoryIsOneClients'
        BY <1>1 DEF HistoryIsOneClients
    <2> QED BY <2>1, <2>2
<1>2. CASE history' = Append(history, worker.parts)
    <2> DEFINE n == Len(history) + 1
    <2>1. /\ Len(history) \in Nat
          /\ \A i \in 1..Len(history') : \/ i \in 1..Len(history) /\ history'[i] = history[i]
                                         \/ i = n /\ history'[i] = worker.parts
        BY <1>0, <1>2, Appends
    <2>2. history' \in Seq(Seq(Piece)) /\ DOMAIN history' = 1..Len(history') /\ DOMAIN history = 1..Len(history)
        BY <1>0, <1>2, Appends, LenProperties
    <2>3. DOMAIN worker.parts = 1..Len(worker.parts)
          /\ \A i \in 1..Len(history) : DOMAIN history[i] = 1..Len(history[i])
        BY <1>0, PieceTypes, LenProperties
    <2>4. PastOrdered'
        <3> SUFFICES ASSUME NEW i \in 1..Len(history'), NEW a \in 1..Len(history'[i])
                     PROVE  Behind(sock[history'[i][a][1]], queue, history'[i][a][1], history'[i][a][2])
            BY <1>0 DEF PastOrdered
        <3>1. CASE i \in 1..Len(history) /\ history'[i] = history[i]
            BY <3>1 DEF PastOrdered
        <3>2. CASE history'[i] = worker.parts
            BY <3>2 DEF TextOrdered
        <3> QED BY <2>1, <3>1, <3>2
    <2>5. ASSUME NEW i \in 1..Len(history'), NEW a \in DOMAIN history'[i], NEW b \in DOMAIN history'[i]
          PROVE  history'[i][a][1] = history'[i][b][1]
                 /\ (a < b => history'[i][a][2] < history'[i][b][2])
        <3>1. CASE i \in 1..Len(history) /\ history'[i] = history[i]
            BY <2>2, <3>1 DEF HistoryIsOneClients
        <3>2. CASE history'[i] = worker.parts
            BY <2>3, <3>2 DEF TextOrdered
        <3> QED BY <2>1, <3>1, <3>2
    <2>6. ASSUME NEW i \in 1..Len(history'), NEW j \in 1..Len(history'), i < j,
                 NEW a \in DOMAIN history'[i], NEW b \in DOMAIN history'[j]
          PROVE  history'[i][a] # history'[j][b]
        <3>1. i \in 1..Len(history) /\ history'[i] = history[i]
            <4>1. Len(history') = n
                BY <1>0, <1>2, Appends
            <4>2. i # n
                BY <2>1, <2>6, <4>1
            <4> QED BY <2>1, <4>2
        <3>2. CASE j \in 1..Len(history) /\ history'[j] = history[j]
            <4>1. i \in DOMAIN history /\ j \in DOMAIN history
                  /\ a \in DOMAIN history[i] /\ b \in DOMAIN history[j]
                BY <2>2, <3>1, <3>2
            <4>2. history[i][a] # history[j][b]
                BY <2>6, <4>1 DEF HistoryIsOneClients
            <4> QED BY <3>1, <3>2, <4>2
        <3>3. CASE history'[j] = worker.parts
            <4>1. a \in 1..Len(history[i]) /\ b \in 1..Len(worker.parts)
                BY <2>3, <3>1, <3>3
            <4>2. worker.parts[b][1] = history[i][a][1] => history[i][a][2] < worker.parts[b][2]
                BY <1>0, <3>1, <4>1 DEF PastOrdered
            <4>3. history[i][a][2] \in Int /\ worker.parts[b][2] \in Int
                BY <3>1, <4>1, PieceTypes
            <4> QED BY <3>1, <3>3, <4>2, <4>3
        <3> QED BY <2>1, <3>2, <3>3
    <2> QED BY <2>2, <2>4, <2>5, <2>6 DEF HistoryIsOneClients
<1> QED BY <1>0, <1>1, <1>2

LEMMA OrderKept ==
    ASSUME TypeOK, TypeOK', Placed, Owned, Staged, UnackedAreCounted, Ordered, HistoryIsOneClients, Next
    PROVE  Ordered' /\ HistoryIsOneClients'
<1>0. SocketsOrdered /\ QueueOrdered /\ TextOrdered /\ PastOrdered /\ SocketsOrdered' /\ QueueOrdered'
    BY SocketsKept, QueueOrderKept DEF Ordered
<1>1. ASSUME history' = history
      PROVE  HistoryIsOneClients'
    BY <1>1 DEF HistoryIsOneClients
<1>2. ASSUME worker'.parts = <<>>, history' = history
      PROVE  TextOrdered' /\ PastOrdered'
    <2>1. \A b \in 1..Len(worker'.parts) : FALSE
        BY <1>2
    <2> QED BY <1>0, <1>2, <2>1, TextKept, PastKept
<1>3. ASSUME worker'.parts = worker.parts, worker'.stage = worker.stage \/ worker.stage # "recorded",
             cur' = cur, history' = history
      PROVE  TextOrdered' /\ PastOrdered'
    <2>1. TextOrdered'
        BY <1>0, <1>3, TextKept
    <2>2. PastOrdered'
        BY <1>0, <1>3, PastKept
    <2> QED BY <2>1, <2>2
<1>4. CASE ~Worker
    <2>1. history' = history
        BY <1>4, NewClientNoText DEF workVars
    <2>2. TextOrdered' /\ PastOrdered'
        BY <1>2, <1>3, <1>4, <2>1, NewClientNoText DEF workVars
    <2> QED BY <1>0, <1>1, <2>1, <2>2 DEF Ordered
<1>5. CASE WorkerStart \/ WorkerCancel \/ WorkerFlush \/ WorkerAnswers
    <2>1. history' = history
        BY <1>5 DEF WorkerStart, WorkerCancel, WorkerFlush, WorkerAnswers
    <2>2. worker'.parts = <<>>
        <3>1. CASE WorkerStart \/ WorkerCancel
            <4>1. \A q \in BOOLEAN : [EmptySession EXCEPT !.active = TRUE, !.quiet = q].parts = <<>>
                BY DEF EmptySession
            <4>2. EmptySession.parts = <<>>
                BY DEF EmptySession
            <4> QED BY <3>1, <4>1, <4>2 DEF WorkerStart, WorkerCancel
        <3>2. CASE WorkerFlush \/ WorkerAnswers
            BY <3>2 DEF WorkerFlush, WorkerAnswers, Rest, TypeOK, Session
        <3> QED BY <1>5, <3>1, <3>2
    <2> QED BY <1>0, <1>1, <1>2, <2>1, <2>2 DEF Ordered
<1>6. CASE WorkerChunk
    <2>1. TextOrdered' /\ PastOrdered'
        BY <1>0, <1>6, ChunkOrdered
    <2>2. history' = history
        BY <1>6 DEF WorkerChunk
    <2> QED BY <1>0, <1>1, <2>1, <2>2 DEF Ordered
<1>7. CASE WorkerPolishes
    <2>1. worker'.parts = worker.parts /\ worker.stage # "recorded" /\ cur' = cur /\ history' = history
        BY <1>7 DEF WorkerPolishes, Flushing, mainVars, TypeOK, Session
    <2> QED BY <1>0, <1>1, <1>3, <2>1 DEF Ordered
<1>8. CASE WorkerRecords
    <2>1. worker'.parts = worker.parts /\ cur' = cur
        BY <1>8 DEF WorkerRecords, mainVars, TypeOK, Session
    <2>2. TextOrdered'
        BY <1>0, <2>1, TextKept
    <2> QED BY <1>0, <1>8, <2>2, RecordOrdered DEF Ordered
<1> QED BY <1>4, <1>5, <1>6, <1>7, <1>8 DEF Worker

-----------------------------------------------------------------------------
(* The inductive invariant, and what it says *)

LEMMA IInvKept ==
    IInv /\ [Next]_vars => IInv'
<1> SUFFICES ASSUME IInv, [Next]_vars PROVE IInv'
    OBVIOUS
<1>1. CASE Next
    <2>1. TypeOK'
        BY <1>1, TypesKept DEF IInv
    <2>2. Placed' /\ RelayServes'
        BY <1>1, PlacedKept, RelayKept DEF IInv
    <2>3. Owned'
        BY <1>1, <2>1, OwnedKept DEF IInv
    <2>4. Staged'
        BY <1>1, StagedKept DEF IInv
    <2>5. FreshCounts' /\ UnackedAreCounted'
        BY <1>1, <2>1, CountsKept DEF IInv
    <2>6. Ordered' /\ HistoryIsOneClients'
        BY <1>1, <2>1, OrderKept DEF IInv
    <2> QED BY <2>1, <2>2, <2>3, <2>4, <2>5, <2>6 DEF IInv
<1>2. CASE UNCHANGED vars
    <2>1. TypeOK' /\ Placed' /\ RelayServes'
        BY <1>2 DEF IInv, TypeOK, Placed, RelayServes, vars, mainVars, workVars
    <2>2. Owned' /\ Staged' /\ FreshCounts'
        BY <1>2 DEF IInv, Owned, Clean, Ours, Said, Staged, FreshCounts, vars, mainVars, workVars
    <2>3. UnackedAreCounted'
        BY <1>2 DEF IInv, UnackedAreCounted, Unacked, Count, IsCancel, IsAborted, vars, mainVars, workVars
    <2>4. Ordered'
        BY <1>2 DEF IInv, Ordered, SocketsOrdered, QueueOrdered, TextOrdered, PastOrdered, vars, mainVars, workVars
    <2>5. HistoryIsOneClients'
        BY <1>2 DEF IInv, HistoryIsOneClients, vars, workVars
    <2> QED BY <2>1, <2>2, <2>3, <2>4, <2>5 DEF IInv
<1> QED BY <1>1, <1>2

\* What holds in every reachable state, for any clients and numbers of frames.
THEOREM Invariance ==
    Spec => []IInv
BY InitIInv, IInvKept, PTL DEF Spec

\* The subtraction of daemon.rs reset_worker is exact: the counts of a connection
\* always say how many Aborteds are on their way, whatever the client sent and
\* wherever the relay ended.
THEOREM CountingIsExact ==
    Spec => []UnackedAreCounted
BY Invariance, PTL DEF IInv

\* No client ever meets anything of the one before it (daemon.rs reset_worker).
THEOREM EveryStartIsClean ==
    Spec => []CleanStart
<1>1. IInv => CleanStart
    BY DEF IInv, Owned, Clean, CleanStart
<1> QED BY <1>1, Invariance, PTL

\* No history entry mixes clients or orders, and no chunk is recorded twice
\* (inference.rs Flush).
THEOREM HistoryHasOneOwner ==
    Spec => []HistoryIsOneClients
BY Invariance, PTL DEF IInv

-----------------------------------------------------------------------------
(* What each client sees: the steps of SessionService, client by client *)

Same(c)   == UNCHANGED <<Link(c), Up(c), Down(c), Held(c), Failed(c)>>
Others(c) == \A d \in Clients : d # c => Same(d)
ServiceStep == [Service!Next]_(Service!vars)

LEMMA AsStutter ==
    ASSUME \A d \in Clients : Same(d)
    PROVE  ServiceStep
BY DEF ServiceStep, Same, Service!vars

LEMMA AsConnect ==
    ASSUME NEW c \in Clients, Others(c), Link(c) = "out", Link(c)' = "open",
           UNCHANGED <<Up(c), Down(c), Held(c), Failed(c)>>
    PROVE  ServiceStep
<1>1. Service!Connect(c)
    BY DEF Others, Same, Service!Connect
<1> QED BY <1>1 DEF ServiceStep, Service!Next

LEMMA AsSubmit ==
    ASSUME NEW c \in Clients, NEW f \in Frames, Others(c), Link(c) = "open", Up(c)' = Append(Up(c), f),
           UNCHANGED <<Link(c), Down(c), Held(c), Failed(c)>>
    PROVE  ServiceStep
<1>1. Service!Submit(c, f)
    BY DEF Others, Same, Service!Submit
<1> QED BY <1>1 DEF ServiceStep, Service!Next

LEMMA AsTurn ==
    ASSUME NEW c \in Clients, NEW es \in Service!Reply, Others(c), Link(c) = "open", Up(c) # <<>>,
           Up(c)' = Tail(Up(c)), Down(c)' = Down(c) \o es, UNCHANGED <<Link(c), Held(c), Failed(c)>>
    PROVE  ServiceStep
<1>1. Service!Turn(c, es)
    BY DEF Others, Same, Service!Turn, Service!Says
<1> QED BY <1>1 DEF ServiceStep, Service!Next

LEMMA AsReady ==
    ASSUME NEW c \in Clients, Others(c), Link(c) = "open",
           Down(c)' = Down(c) \o <<Event("Ready", <<>>)>>, UNCHANGED <<Link(c), Up(c), Held(c), Failed(c)>>
    PROVE  ServiceStep
<1>1. Service!BecomeReady(c)
    BY DEF Others, Same, Service!BecomeReady, Service!Says, Service!Event, Event
<1> QED BY <1>1 DEF ServiceStep, Service!Next

LEMMA AsProgress ==
    ASSUME NEW c \in Clients, Others(c), Up(c) # <<>>, Head(Up(c)).cmd = "Flush", Held(c) # <<>>, ~Failed(c),
           Down(c)' = Down(c) \o <<Event("Polishing", <<>>)>>, UNCHANGED <<Link(c), Up(c), Held(c), Failed(c)>>
    PROVE  ServiceStep
<1>1. Service!Progress(c)
    BY DEF Others, Same, Service!Progress, Service!Says, Service!Event, Event
<1> QED BY <1>1 DEF ServiceStep, Service!Next

LEMMA AsShut ==
    ASSUME NEW c \in Clients, Others(c), Link(c) = "open", Link(c)' = "shut",
           Up(c)' \in Service!Prefixes(Up(c)), UNCHANGED <<Down(c), Held(c), Failed(c)>>
    PROVE  ServiceStep
<1>1. Service!Shut(c)
    BY DEF Others, Same, Service!Shut
<1> QED BY <1>1 DEF ServiceStep, Service!Next

LEMMA AsClose ==
    ASSUME NEW c \in Clients, Others(c), Link(c) # "closed", Link(c)' = "closed", Up(c)' = <<>>,
           \/ Down(c)' \in Service!Prefixes(Down(c))
           \/ Down(c)' = Append(Down(c), Event("Error", <<>>)),
           Held(c)' = <<>>, Failed(c)' = FALSE
    PROVE  ServiceStep
<1>1. Service!Close(c)
    BY DEF Others, Same, Service!Close, Service!Holds, Service!Event, Event
<1> QED BY <1>1 DEF ServiceStep, Service!Next

LEMMA AsExit ==
    ASSUME \A c \in Clients : /\ Link(c)' = "closed" /\ Up(c)' = <<>> /\ Held(c)' = <<>> /\ Failed(c)' = FALSE
                              /\ Down(c)' \in Service!Prefixes(Down(c))
    PROVE  ServiceStep
<1>1. Service!Exit
    BY DEF Service!Exit
<1> QED BY <1>1 DEF ServiceStep, Service!Next

\* A frame handled, whatever it is: the head of what the client sent.
Handled(c, cmds) ==
    /\ Others(c)
    /\ Link(c) \in {"open", "shut"} /\ UNCHANGED Link(c)
    /\ Up(c) # <<>> /\ Head(Up(c)).cmd \in cmds
    /\ Up(c)' = Tail(Up(c))

LEMMA AsStart ==
    ASSUME NEW c \in Clients, Handled(c, {"Start", "QuietStart"}),
           Held(c)' = <<>>, Failed(c)' = FALSE, UNCHANGED Down(c)
    PROVE  ServiceStep
<1>1. Service!Handle(c)
    BY DEF Handled, Others, Same, Service!Handle, Service!HandleStart, Service!Holds
<1> QED BY <1>1 DEF ServiceStep, Service!Next

LEMMA AsChunk ==
    ASSUME NEW c \in Clients, Handled(c, {"Chunk"}), NEW piece, piece = <<c, Head(Up(c)).k>>,
           \/ Held(c)' = Held(c) /\ Failed(c)' = TRUE /\ UNCHANGED Down(c)
           \/ /\ Held(c)' = Append(Held(c), piece) /\ Failed(c)' = Failed(c)
              /\ Down(c)' = Down(c) \o <<Event("Partial", <<piece>>)>>
    PROVE  ServiceStep
<1>1. Service!HandleChunk(c, Head(Up(c)))
    <2>1. CASE Held(c)' = Held(c) /\ Failed(c)' = TRUE /\ UNCHANGED Down(c)
        BY <2>1 DEF Handled, Others, Same, Service!HandleChunk, Service!Holds
    <2>2. CASE /\ Held(c)' = Append(Held(c), piece) /\ Failed(c)' = Failed(c)
               /\ Down(c)' = Down(c) \o <<Event("Partial", <<piece>>)>>
        BY <2>2 DEF Handled, Others, Same, Service!HandleChunk, Service!Holds, Service!Says,
                    Service!Event, Event
    <2> QED BY <2>1, <2>2
<1>2. Service!Handle(c)
    BY <1>1 DEF Handled, Others, Same, Service!Handle
<1> QED BY <1>2 DEF ServiceStep, Service!Next

LEMMA AsFlush ==
    ASSUME NEW c \in Clients, Handled(c, {"Flush"}), Held(c)' = <<>>, Failed(c)' = FALSE,
           NEW text \in {Held(c), <<>>},
           IF Failed(c) THEN Down(c)' = Down(c) \o <<Event("Error", <<>>)>>
           ELSE Down(c)' = Down(c) \o <<Event("Final", text)>>
    PROVE  ServiceStep
<1>1. Service!HandleFlush(c)
    <2>1. CASE Failed(c)
        BY <2>1 DEF Handled, Others, Same, Service!HandleFlush, Service!Holds, Service!Says,
                    Service!Event, Event
    <2>2. CASE ~Failed(c)
        <3>1. Service!Holds(c, <<>>, FALSE)
            BY DEF Handled, Others, Same, Service!Holds
        <3>2. Service!Says(c, <<Event("Final", text)>>)
            BY <2>2 DEF Handled, Others, Same, Service!Says
        <3> QED BY <2>2, <3>1, <3>2 DEF Service!HandleFlush, Service!Event, Event
    <2> QED BY <2>1, <2>2
<1>2. Service!Handle(c)
    BY <1>1 DEF Handled, Others, Same, Service!Handle
<1> QED BY <1>2 DEF ServiceStep, Service!Next

LEMMA AsCancel ==
    ASSUME NEW c \in Clients, Handled(c, {"Cancel"}), Held(c)' = <<>>, Failed(c)' = FALSE,
           Down(c)' = Down(c) \o <<Event("Aborted", <<>>)>>
    PROVE  ServiceStep
<1>1. Service!HandleCancel(c)
    BY DEF Handled, Others, Same, Service!HandleCancel, Service!Holds, Service!Says, Service!Event, Event
<1>2. Service!Handle(c)
    BY <1>1 DEF Handled, Others, Same, Service!Handle
<1> QED BY <1>2 DEF ServiceStep, Service!Next

-----------------------------------------------------------------------------
(* How the variables of SessionService look, for each place a client can be *)

\* Its connection alone decides, unless the worker is at work for it.
Gone(r) == r.at = "ended" \/ (r.at # "out" /\ ~r.peer)
Away(c) == phase # "exited" /\ (c # cur \/ (~relay /\ phase \notin InService))
AtWork(c) == phase \in {"forward", "join"} /\ c = cur /\ relay /\ sock[c].at = "served" /\ sock[c].peer

Sees(c) ==
    /\ Link(c) = IF Gone(sock[c]) THEN "closed" ELSE IF sock[c].at = "out" THEN "out" ELSE "open"
    /\ Up(c) = IF Gone(sock[c]) THEN <<>> ELSE sock[c].in
    /\ Down(c) = sock[c].out /\ Held(c) = <<>> /\ Failed(c) = FALSE
Shuttered(c) ==
    Link(c) = "closed" /\ Up(c) = <<>> /\ Down(c) = sock[c].out /\ Held(c) = <<>> /\ Failed(c) = FALSE
Worked(c) ==
    /\ Link(c) = IF phase = "join" THEN "shut" ELSE "open"
    /\ Up(c) = IF phase = "join" THEN FramesIn(queue) ELSE FramesIn(queue) \o sock[c].in
    /\ Down(c) = sock[c].out \o EventsIn(events)
    /\ Held(c) = worker.parts /\ Failed(c) = worker.failed

LEMMA AwaySees ==
    ASSUME NEW c \in Clients
    PROVE  (Away(c) => Sees(c)) /\ (Away(c)' => Sees(c)')
<1>1. Away(c) => Sees(c)
    BY DEF Away, Sees, Gone, InService, Link, Up, Down, Held, Failed, Closed, Served, ShutOff
<1>2. Away(c)' => Sees(c)'
    BY DEF Away, Sees, Gone, InService, Link, Up, Down, Held, Failed, Closed, Served, ShutOff
<1> QED BY <1>1, <1>2

LEMMA ClosedIsShuttered ==
    ASSUME NEW c \in Clients
    PROVE  /\ (Closed(c) => Shuttered(c)) /\ (Closed(c)' => Shuttered(c)')
           /\ (Link(c) = "closed" => Closed(c))
<1>1. Closed(c) => Shuttered(c)
    BY DEF Shuttered, Link, Up, Down, Held, Failed, Served
<1>2. Closed(c)' => Shuttered(c)'
    BY DEF Shuttered, Link, Up, Down, Held, Failed, Served
<1>3. Link(c) = "closed" => Closed(c)
    BY DEF Link
<1> QED BY <1>1, <1>2, <1>3

LEMMA AtWorkIsWorked ==
    ASSUME TypeOK, TypeOK', NEW c \in Clients
    PROVE  /\ (AtWork(c) => Worked(c)) /\ (AtWork(c)' => Worked(c)')
           /\ (AtWork(c) => ~Closed(c))
<1>1. AtWork(c) => Worked(c)
    BY DEF AtWork, Worked, Link, Up, Down, Held, Failed, Closed, Served, ShutOff, TypeOK, Session
<1>2. AtWork(c)' => Worked(c)'
    BY DEF AtWork, Worked, Link, Up, Down, Held, Failed, Closed, Served, ShutOff, TypeOK, Session
<1>3. AtWork(c) => ~Closed(c)
    BY DEF AtWork, Closed
<1> QED BY <1>1, <1>2, <1>3

LEMMA StaysClosed ==
    ASSUME NEW c \in Clients, Closed(c), Closed(c)', sock'[c].out = sock[c].out
    PROVE  Same(c)
BY ClosedIsShuttered DEF Shuttered, Same

LEMMA StaysAway ==
    ASSUME NEW c \in Clients, Away(c), Away(c)', sock'[c].out = sock[c].out,
           \/ Gone(sock[c]) /\ Gone(sock'[c])
           \/ /\ Gone(sock[c]) <=> Gone(sock'[c])
              /\ sock'[c].at = "out" <=> sock[c].at = "out"
              /\ sock'[c].in = sock[c].in
    PROVE  Same(c)
BY AwaySees DEF Sees, Same

\* Nobody else notices a step of one client and the main thread.
LEMMA OthersAway ==
    ASSUME NEW c, phase # "exited", phase' # "exited",
           \A d \in Clients : d # c => d # cur /\ d # cur' /\ sock'[d] = sock[d]
    PROVE  Others(c)
<1> SUFFICES ASSUME NEW d \in Clients, d # c PROVE Same(d)
    BY DEF Others
<1>1. Away(d) /\ Away(d)'
    BY DEF Away
<1>2. sock'[d] = sock[d]
    OBVIOUS
<1>3. Gone(sock[d]) <=> Gone(sock'[d])
    BY <1>2
<1> QED BY <1>1, <1>2, <1>3, StaysAway

\* The client of the main thread has done what it noticed: nothing else did.
LEMMA Unnoticed ==
    ASSUME NEW c \in Clients, Others(c), Same(c)
    PROVE  ServiceStep
BY AsStutter DEF Others

-----------------------------------------------------------------------------
(* Sequences *)

LEMMA WholeIsPrefix ==
    ASSUME NEW S, NEW s \in Seq(S)
    PROVE  s \in Service!Prefixes(s)
<1>1. Len(s) \in Nat /\ SubSeq(s, 1, Len(s)) = s
    BY LenProperties, SubSeqFull
<1>2. Len(s) \in 0..Len(s)
    BY <1>1
<1> QED BY <1>1, <1>2 DEF Service!Prefixes

LEMMA PartIsPrefix ==
    ASSUME NEW S, NEW s \in Seq(S), NEW t \in Seq(S)
    PROVE  s \in Service!Prefixes(s \o t)
<1>1. s \o t \in Seq(S) /\ Len(s) \in Nat /\ Len(t) \in Nat /\ Len(s \o t) = Len(s) + Len(t)
    BY LenProperties, ConcatProperties
<1>2. CASE Len(s) = 0
    <2>1. s = <<>>
        BY <1>2, EmptySeq
    <2>2. SubSeq(s \o t, 1, 0) = <<>>
        BY SubSeqEmpty
    <2> QED BY <1>1, <2>1, <2>2 DEF Service!Prefixes
<1>3. CASE Len(s) # 0
    <2>1. 1 \in 1..Len(s) /\ Len(s) \in 1..Len(s)
        BY <1>1, <1>3
    <2>2. SubSeq(s \o t, 1, Len(s)) = SubSeq(s, 1, Len(s))
        BY <2>1, SubSeqOfConcat1
    <2>3. SubSeq(s \o t, 1, Len(s)) = s
        BY <2>2, SubSeqFull
    <2>4. Len(s) \in 0..Len(s \o t)
        BY <1>1
    <2> QED BY <1>1, <1>3, <2>3, <2>4 DEF Service!Prefixes
<1> QED BY <1>2, <1>3

Sent == Frames \cup {ResetFrame}

LEMMA FramesSeq ==
    ASSUME NEW q \in Seq(Message)
    PROVE  /\ FramesIn(q) \in Seq(Sent) /\ Len(FramesIn(q)) = Len(q)
           /\ \A i \in 1..Len(q) : FramesIn(q)[i] = q[i].frame
<1>1. DOMAIN q = 1..Len(q) /\ Len(q) \in Nat /\ \A i \in 1..Len(q) : q[i].frame \in Sent
    BY LenProperties, ElementOfSeq DEF Message, Sent
<1>2. FramesIn(q) = [i \in 1..Len(q) |-> q[i].frame]
    BY <1>1 DEF FramesIn
<1>3. FramesIn(q) \in [1..Len(q) -> Sent]
    BY <1>1, <1>2
<1> QED BY <1>1, <1>2, <1>3, SeqDef, LenProperties

LEMMA FramesAppend ==
    ASSUME NEW q \in Seq(Message), NEW m \in Message
    PROVE  FramesIn(Append(q, m)) = Append(FramesIn(q), m.frame)
<1>0. m.frame \in Sent
    BY DEF Message, Sent
<1>1. /\ Append(q, m) \in Seq(Message) /\ Len(Append(q, m)) = Len(q) + 1 /\ Len(q) \in Nat
      /\ \A i \in 1..Len(q) + 1 : Append(q, m)[i] = IF i = Len(q) + 1 THEN m ELSE q[i]
    BY AppendProperties, LenProperties
<1>2. /\ FramesIn(q) \in Seq(Sent) /\ Len(FramesIn(q)) = Len(q)
      /\ \A i \in 1..Len(q) : FramesIn(q)[i] = q[i].frame
    BY FramesSeq
<1>3. /\ Append(FramesIn(q), m.frame) \in Seq(Sent) /\ Len(Append(FramesIn(q), m.frame)) = Len(q) + 1
      /\ \A i \in 1..Len(q) + 1 : Append(FramesIn(q), m.frame)[i] = IF i = Len(q) + 1 THEN m.frame ELSE q[i].frame
    BY <1>0, <1>1, <1>2, AppendProperties
<1>4. /\ FramesIn(Append(q, m)) \in Seq(Sent) /\ Len(FramesIn(Append(q, m))) = Len(q) + 1
      /\ \A i \in 1..Len(q) + 1 : FramesIn(Append(q, m))[i] = Append(q, m)[i].frame
    BY <1>1, FramesSeq
<1>5. \A i \in 1..Len(q) + 1 : FramesIn(Append(q, m))[i] = Append(FramesIn(q), m.frame)[i]
    BY <1>1, <1>3, <1>4
<1> QED BY <1>3, <1>4, <1>5, SeqEqual

LEMMA FramesTail ==
    ASSUME NEW q \in Seq(Message), q # <<>>
    PROVE  /\ FramesIn(q) \in Seq(Sent) /\ FramesIn(q) # <<>> /\ Head(FramesIn(q)) = Head(q).frame
           /\ FramesIn(Tail(q)) = Tail(FramesIn(q))
<1>1. /\ Len(q) \in Nat \ {0} /\ Tail(q) \in Seq(Message) /\ Len(Tail(q)) = Len(q) - 1
      /\ \A i \in 1..Len(Tail(q)) : Tail(q)[i] = q[i + 1]
      /\ Head(q) = q[1] /\ 1 \in 1..Len(q)
    BY Tails
<1>2. /\ FramesIn(q) \in Seq(Sent) /\ Len(FramesIn(q)) = Len(q)
      /\ \A i \in 1..Len(q) : FramesIn(q)[i] = q[i].frame
    BY FramesSeq
<1>3. FramesIn(q) # <<>>
    BY <1>1, <1>2, EmptySeq
<1>4. /\ Tail(FramesIn(q)) \in Seq(Sent) /\ Len(Tail(FramesIn(q))) = Len(q) - 1 /\ Head(FramesIn(q)) = FramesIn(q)[1]
      /\ \A i \in 1..Len(q) - 1 : Tail(FramesIn(q))[i] = FramesIn(q)[i + 1]
    BY <1>2, <1>3, Tails
<1>5. /\ FramesIn(Tail(q)) \in Seq(Sent) /\ Len(FramesIn(Tail(q))) = Len(q) - 1
      /\ \A i \in 1..Len(q) - 1 : FramesIn(Tail(q))[i] = Tail(q)[i].frame
    BY <1>1, FramesSeq
<1>6. \A i \in 1..Len(q) - 1 : FramesIn(Tail(q))[i] = Tail(FramesIn(q))[i]
    BY <1>1, <1>2, <1>4, <1>5
<1>7. FramesIn(Tail(q)) = Tail(FramesIn(q))
    BY <1>4, <1>5, <1>6, SeqEqual
<1> QED BY <1>1, <1>2, <1>3, <1>4, <1>7

LEMMA EventsSeq ==
    ASSUME NEW es \in Seq(WorkerEvent)
    PROVE  /\ EventsIn(es) \in Seq(ToldEvent) /\ Len(EventsIn(es)) = Len(es)
           /\ \A i \in 1..Len(es) : EventsIn(es)[i] = Event(es[i].event, es[i].text)
<1>0. DOMAIN es = 1..Len(es) /\ Len(es) \in Nat
    BY LenProperties
<1>1. \A i \in 1..Len(es) : Event(es[i].event, es[i].text) \in ToldEvent
    <2>1. \A e \in WorkerEvent : Event(e.event, e.text) \in ToldEvent
        BY DEF WorkerEvent, ToldEvent, Event
    <2> QED BY <2>1, ElementOfSeq
<1>2. EventsIn(es) = [i \in 1..Len(es) |-> Event(es[i].event, es[i].text)]
    BY <1>0 DEF EventsIn
<1>3. EventsIn(es) \in [1..Len(es) -> ToldEvent]
    BY <1>1, <1>2
<1> QED BY <1>0, <1>1, <1>2, <1>3, SeqDef, LenProperties

LEMMA EventsAppend ==
    ASSUME NEW es \in Seq(WorkerEvent), NEW e \in WorkerEvent
    PROVE  EventsIn(Append(es, e)) = Append(EventsIn(es), Event(e.event, e.text))
<1> DEFINE v == Event(e.event, e.text)
<1>0. v \in ToldEvent
    BY DEF WorkerEvent, ToldEvent, Event
<1>1. /\ Append(es, e) \in Seq(WorkerEvent) /\ Len(Append(es, e)) = Len(es) + 1 /\ Len(es) \in Nat
      /\ \A i \in 1..Len(es) + 1 : Append(es, e)[i] = IF i = Len(es) + 1 THEN e ELSE es[i]
    BY AppendProperties, LenProperties
<1>2. /\ EventsIn(es) \in Seq(ToldEvent) /\ Len(EventsIn(es)) = Len(es)
      /\ \A i \in 1..Len(es) : EventsIn(es)[i] = Event(es[i].event, es[i].text)
    BY EventsSeq
<1>4. /\ EventsIn(Append(es, e)) \in Seq(ToldEvent) /\ Len(EventsIn(Append(es, e))) = Len(es) + 1
      /\ \A i \in 1..Len(es) + 1 : EventsIn(Append(es, e))[i] = Event(Append(es, e)[i].event, Append(es, e)[i].text)
    BY <1>1, EventsSeq
<1>5. EventsIn(Append(es, e))[Len(es) + 1] = v
    BY <1>1, <1>4
<1> HIDE DEF v
<1>3. /\ Append(EventsIn(es), v) \in Seq(ToldEvent) /\ Len(Append(EventsIn(es), v)) = Len(es) + 1
      /\ \A i \in 1..Len(es) : Append(EventsIn(es), v)[i] = Event(es[i].event, es[i].text)
      /\ Append(EventsIn(es), v)[Len(es) + 1] = v
    BY <1>0, <1>1, <1>2, AppendProperties
<1>6. \A i \in 1..Len(es) + 1 : EventsIn(Append(es, e))[i] = Append(EventsIn(es), v)[i]
    BY <1>1, <1>3, <1>4, <1>5
<1>7. EventsIn(Append(es, e)) = Append(EventsIn(es), v)
    BY <1>3, <1>4, <1>6, SeqEqual
<1> QED BY <1>7 DEF v

LEMMA EventsTail ==
    ASSUME NEW es \in Seq(WorkerEvent), es # <<>>
    PROVE  /\ EventsIn(es) \in Seq(ToldEvent) /\ EventsIn(es) # <<>>
           /\ Head(EventsIn(es)) = Event(Head(es).event, Head(es).text)
           /\ EventsIn(Tail(es)) = Tail(EventsIn(es))
<1>1. /\ Len(es) \in Nat \ {0} /\ Tail(es) \in Seq(WorkerEvent) /\ Len(Tail(es)) = Len(es) - 1
      /\ \A i \in 1..Len(Tail(es)) : Tail(es)[i] = es[i + 1]
      /\ Head(es) = es[1] /\ 1 \in 1..Len(es)
    BY Tails
<1>2. /\ EventsIn(es) \in Seq(ToldEvent) /\ Len(EventsIn(es)) = Len(es)
      /\ \A i \in 1..Len(es) : EventsIn(es)[i] = Event(es[i].event, es[i].text)
    BY EventsSeq
<1>3. EventsIn(es) # <<>>
    BY <1>1, <1>2, EmptySeq
<1>4. /\ Tail(EventsIn(es)) \in Seq(ToldEvent) /\ Len(Tail(EventsIn(es))) = Len(es) - 1
      /\ Head(EventsIn(es)) = EventsIn(es)[1]
      /\ \A i \in 1..Len(es) - 1 : Tail(EventsIn(es))[i] = EventsIn(es)[i + 1]
    BY <1>2, <1>3, Tails
<1>5. /\ EventsIn(Tail(es)) \in Seq(ToldEvent) /\ Len(EventsIn(Tail(es))) = Len(es) - 1
      /\ \A i \in 1..Len(es) - 1 : EventsIn(Tail(es))[i] = Event(Tail(es)[i].event, Tail(es)[i].text)
    BY <1>1, EventsSeq
<1>6. \A i \in 1..Len(es) - 1 : EventsIn(Tail(es))[i] = Tail(EventsIn(es))[i]
    BY <1>1, <1>2, <1>4, <1>5
<1>7. EventsIn(Tail(es)) = Tail(EventsIn(es))
    BY <1>4, <1>5, <1>6, SeqEqual
<1> QED BY <1>1, <1>2, <1>3, <1>4, <1>7

\* Two sequences one behind the other.
HeadOfFirst(s, t)    == s \o t # <<>> /\ Head(s \o t) = Head(s) /\ Tail(s \o t) = Tail(s) \o t
LastOfSecond(s, t, e) == Append(s \o t, e) = s \o Append(t, e)
MovesOver(s, t)      == Append(s, Head(t)) \o Tail(t) = s \o t

LEMMA ConcatTail ==
    ASSUME NEW S, NEW s \in Seq(S), NEW t \in Seq(S), s # <<>>
    PROVE  HeadOfFirst(s, t)
<1>1. /\ Len(s) \in Nat \ {0} /\ Tail(s) \in Seq(S) /\ Len(Tail(s)) = Len(s) - 1 /\ Len(t) \in Nat
      /\ \A i \in 1..Len(Tail(s)) : Tail(s)[i] = s[i + 1]
      /\ Head(s) = s[1]
    BY Tails, LenProperties
<1>2. /\ s \o t \in Seq(S) /\ Len(s \o t) = Len(s) + Len(t)
      /\ \A i \in 1..Len(s) + Len(t) : (s \o t)[i] = IF i <= Len(s) THEN s[i] ELSE t[i - Len(s)]
    BY ConcatProperties
<1>3. s \o t # <<>>
    BY <1>1, <1>2, EmptySeq
<1>4. /\ Head(s \o t) = (s \o t)[1] /\ Tail(s \o t) \in Seq(S) /\ Len(Tail(s \o t)) = Len(s) + Len(t) - 1
      /\ \A i \in 1..Len(Tail(s \o t)) : Tail(s \o t)[i] = (s \o t)[i + 1]
    BY <1>2, <1>3, Tails
<1>5. /\ Tail(s) \o t \in Seq(S) /\ Len(Tail(s) \o t) = Len(s) - 1 + Len(t)
      /\ \A i \in 1..Len(Tail(s)) + Len(t) :
            (Tail(s) \o t)[i] = IF i <= Len(Tail(s)) THEN Tail(s)[i] ELSE t[i - Len(Tail(s))]
    BY <1>1, ConcatProperties
<1>6. Len(Tail(s \o t)) = Len(Tail(s) \o t)
    BY <1>1, <1>4, <1>5
<1>7. ASSUME NEW i \in 1..Len(Tail(s \o t))
      PROVE  Tail(s \o t)[i] = (Tail(s) \o t)[i]
    <2>1. i \in 1..Len(Tail(s)) + Len(t) /\ i + 1 \in 1..Len(s) + Len(t)
        BY <1>1, <1>4
    <2>2. Tail(s \o t)[i] = IF i + 1 <= Len(s) THEN s[i + 1] ELSE t[i + 1 - Len(s)]
        BY <1>2, <1>4, <2>1
    <2>3. CASE i + 1 <= Len(s)
        <3>1. i \in 1..Len(Tail(s)) /\ i <= Len(Tail(s))
            BY <1>1, <2>1, <2>3
        <3> QED BY <1>1, <1>5, <2>1, <2>2, <2>3, <3>1
    <2>4. CASE ~(i + 1 <= Len(s))
        <3>1. ~(i <= Len(Tail(s))) /\ i - Len(Tail(s)) = i + 1 - Len(s)
            BY <1>1, <2>1, <2>4
        <3> QED BY <1>5, <2>1, <2>2, <2>4, <3>1
    <2> QED BY <2>3, <2>4
<1>8. Tail(s \o t) = Tail(s) \o t
    BY <1>4, <1>5, <1>6, <1>7, SeqEqual
<1>9. Head(s \o t) = Head(s)
    BY <1>1, <1>2, <1>4
<1> QED BY <1>3, <1>8, <1>9 DEF HeadOfFirst

LEMMA ConcatAppend ==
    ASSUME NEW S, NEW s \in Seq(S), NEW t \in Seq(S), NEW e \in S
    PROVE  LastOfSecond(s, t, e)
<1>1. <<e>> \in Seq(S) /\ s \o t \in Seq(S)
    BY ConcatProperties
<1>2. Append(s \o t, e) = (s \o t) \o <<e>> /\ Append(t, e) = t \o <<e>>
    BY <1>1, AppendIsConcat
<1>3. (s \o t) \o <<e>> = s \o (t \o <<e>>)
    BY <1>1, ConcatAssociative
<1> QED BY <1>2, <1>3 DEF LastOfSecond

\* The head of one sequence moves to the end of the one before it.
LEMMA MoveOver ==
    ASSUME NEW S, NEW s \in Seq(S), NEW t \in Seq(S), t # <<>>
    PROVE  MovesOver(s, t)
<1>1. Head(t) \in S /\ Tail(t) \in Seq(S) /\ Len(t) \in Nat \ {0} /\ Len(Tail(t)) = Len(t) - 1
      /\ Head(t) = t[1] /\ \A i \in 1..Len(Tail(t)) : Tail(t)[i] = t[i + 1]
    BY Tails
<1>2. <<Head(t)>> \in Seq(S) /\ Len(<<Head(t)>>) = 1 /\ <<Head(t)>>[1] = Head(t)
    BY <1>1
<1> DEFINE u == <<Head(t)>> \o Tail(t)
<1> HIDE DEF u
<1>3. /\ u \in Seq(S) /\ Len(u) = Len(t)
      /\ \A i \in 1..Len(t) : u[i] = IF i <= 1 THEN <<Head(t)>>[i] ELSE Tail(t)[i - 1]
    <2>1. /\ u \in Seq(S) /\ Len(u) = Len(<<Head(t)>>) + Len(Tail(t))
          /\ \A i \in 1..Len(<<Head(t)>>) + Len(Tail(t)) :
                u[i] = IF i <= Len(<<Head(t)>>) THEN <<Head(t)>>[i] ELSE Tail(t)[i - Len(<<Head(t)>>)]
        BY <1>1, <1>2, ConcatProperties DEF u
    <2> QED BY <1>1, <1>2, <2>1
<1>4. \A i \in 1..Len(t) : u[i] = t[i]
    BY <1>1, <1>2, <1>3
<1>5. u = t
    BY <1>3, <1>4, SeqEqual
<1>6. Append(s, Head(t)) = s \o <<Head(t)>>
    BY <1>1, AppendIsConcat
<1>7. (s \o <<Head(t)>>) \o Tail(t) = s \o (<<Head(t)>> \o Tail(t))
    BY <1>1, <1>2, ConcatAssociative
<1> QED BY <1>5, <1>6, <1>7 DEF u, MovesOver

-----------------------------------------------------------------------------
(* The steps of clients *)

LEMMA Untouched ==
    ASSUME NEW d \in Clients, UNCHANGED <<phase, cur, relay, queue, events, worker>>, sock'[d] = sock[d]
    PROVE  Same(d)
<1>1. UNCHANGED <<FramesIn(queue), EventsIn(events)>>
    BY DEF FramesIn, EventsIn
<1>2. Closed(d)' = Closed(d)
    BY DEF Closed
<1>3. Served(d)' = Served(d)
    BY <1>2 DEF Served
<1>4. ShutOff(d)' = ShutOff(d)
    BY <1>3 DEF ShutOff
<1> QED BY <1>1, <1>2, <1>3, <1>4 DEF Same, Link, Up, Down, Held, Failed

LEMMA Trichotomy ==
    ASSUME IInv, NEW c \in Clients
    PROVE  Closed(c) \/ Away(c) \/ AtWork(c)
BY DEF IInv, TypeOK, RelayServes, Closed, Away, AtWork, InService

\* A client that is closed keeps what was written to it, at most.
LEMMA Closes ==
    ASSUME TypeOK, NEW c \in Clients, Others(c), Closed(c)',
           \/ sock'[c].out = sock[c].out
           \/ Away(c) /\ ~Closed(c) /\ sock'[c].out = Append(sock[c].out, Event("Error", <<>>))
    PROVE  ServiceStep
<1>0. sock[c].out \in Seq(ToldEvent) /\ EventsIn(events) \in Seq(ToldEvent)
    BY EventsSeq DEF TypeOK, Connection
<1>1. Shuttered(c)'
    BY ClosedIsShuttered
<1>2. CASE Closed(c) /\ sock'[c].out = sock[c].out
    BY <1>2, StaysClosed, Unnoticed
<1>3. CASE ~Closed(c) /\ sock'[c].out = sock[c].out
    <2>1. Down(c) = sock[c].out \/ Down(c) = sock[c].out \o EventsIn(events)
        BY DEF Down
    <2>2. Down(c)' \in Service!Prefixes(Down(c))
        BY <1>0, <1>1, <1>3, <2>1, WholeIsPrefix, PartIsPrefix DEF Shuttered
    <2> QED BY <1>1, <1>3, <2>2, ClosedIsShuttered, AsClose DEF Shuttered
<1>4. CASE Away(c) /\ ~Closed(c) /\ sock'[c].out = Append(sock[c].out, Event("Error", <<>>))
    <2>1. Down(c) = sock[c].out
        BY <1>4, AwaySees DEF Sees
    <2> QED BY <1>1, <1>4, <2>1, ClosedIsShuttered, AsClose DEF Shuttered
<1> QED BY <1>2, <1>3, <1>4

LEMMA ConnectRefines ==
    ASSUME IInv, IInv', NEW c \in Clients, Connect(c)
    PROVE  ServiceStep
<1>0. sock \in [Clients -> Connection]
    BY DEF IInv, TypeOK
<1>1. UNCHANGED <<phase, cur, relay, queue, events, worker>> /\ sock[c].at = "out" /\ phase # "exited"
    BY DEF Connect, mainVars, workVars
<1>2. sock'[c] = [sock[c] EXCEPT !.at = "backlog", !.peer = TRUE] /\ \A d \in Clients : d # c => sock'[d] = sock[d]
    BY <1>0 DEF Connect
<1>3. Others(c)
    BY <1>1, <1>2, Untouched DEF Others
<1>4. Away(c) /\ Away(c)'
    BY <1>1 DEF Away, IInv, Placed, TypeOK, InService
<1>5. sock'[c].at = "backlog" /\ sock'[c].peer /\ sock'[c].in = sock[c].in /\ sock'[c].out = sock[c].out
    BY <1>0, <1>2 DEF Connection
<1>6. Sees(c) /\ Sees(c)' /\ ~Gone(sock[c]) /\ ~Gone(sock'[c])
    BY <1>1, <1>4, <1>5, AwaySees DEF Gone
<1> QED BY <1>1, <1>3, <1>5, <1>6, AsConnect DEF Sees

LEMMA LeaveRefines ==
    ASSUME IInv, IInv', NEW c \in Clients, Leave(c)
    PROVE  ServiceStep
<1>0. sock \in [Clients -> Connection] /\ TypeOK
    BY DEF IInv, TypeOK
<1>1. UNCHANGED <<phase, cur, relay, queue, events, worker>> /\ sock[c].at # "out"
    BY DEF Leave, mainVars, workVars, IInv, Placed
<1>2. ~sock'[c].peer /\ sock'[c].at = sock[c].at /\ sock'[c].out = sock[c].out
      /\ \A d \in Clients : d # c => sock'[d] = sock[d]
    BY <1>0 DEF Leave, Connection
<1>3. Others(c)
    BY <1>1, <1>2, Untouched DEF Others
<1>4. Closed(c)'
    BY <1>1, <1>2 DEF Closed
<1> QED BY <1>0, <1>2, <1>3, <1>4, Closes

LEMMA SubmitRefines ==
    ASSUME IInv, IInv', NEW c \in Clients, NEW cmd, Submit(c, cmd)
    PROVE  ServiceStep
<1> DEFINE f == [cmd |-> cmd, k |-> sock[c].sent + 1]
<1>0. sock \in [Clients -> Connection] /\ TypeOK /\ TypeOK'
    BY DEF IInv, TypeOK
<1>1. UNCHANGED <<phase, cur, relay, queue, events, worker>> /\ sock[c].at # "out" /\ sock[c].at # "ended"
      /\ sock[c].peer /\ phase # "exited"
    BY DEF Submit, mainVars, workVars, IInv, Placed
<1>2. f \in Frames
    <2>1. cmd \in Greetings \cup Commands
        BY DEF Submit
    <2>2. sock[c].sent \in Nat /\ sock[c].sent < MaxFrames
        BY <1>0, ClientsAssumption DEF Submit, FrameBound, Connection
    <2> QED BY <2>1, <2>2, ClientsAssumption DEF Frames
<1>3. sock' = [sock EXCEPT ![c].sent = @ + 1, ![c].in = Append(@, f)]
    BY DEF Submit
<1> HIDE DEF f
<1>4. sock'[c].peer = sock[c].peer /\ sock'[c].at = sock[c].at /\ sock'[c].out = sock[c].out
      /\ sock'[c].in = Append(sock[c].in, f) /\ \A d \in Clients : d # c => sock'[d] = sock[d]
    BY <1>0, <1>3 DEF Connection
<1>5. Others(c)
    BY <1>1, <1>4, Untouched DEF Others
<1>6. CASE Closed(c)
    <2>1. Closed(c)'
        BY <1>1, <1>4, <1>6 DEF Closed
    <2> QED BY <1>0, <1>4, <1>5, <2>1, Closes
<1>7. CASE Away(c) /\ ~Closed(c)
    <2>1. Away(c)'
        BY <1>1, <1>7 DEF Away
    <2>2. ~Gone(sock[c]) /\ ~Gone(sock'[c])
        BY <1>1, <1>4 DEF Gone
    <2>3. Sees(c) /\ Sees(c)'
        BY <1>7, <2>1, AwaySees
    <2> QED BY <1>1, <1>2, <1>4, <1>5, <2>2, <2>3, AsSubmit DEF Sees
<1>8. CASE AtWork(c)
    <2>1. AtWork(c)' /\ UNCHANGED <<FramesIn(queue), EventsIn(events)>>
        BY <1>1, <1>4, <1>8 DEF AtWork, FramesIn, EventsIn
    <2>2. Worked(c) /\ Worked(c)'
        BY <1>0, <1>8, <2>1, AtWorkIsWorked
    <2>3. CASE phase = "join"
        BY <1>1, <1>4, <1>5, <2>1, <2>2, <2>3, Unnoticed DEF Worked, Same
    <2>4. CASE phase # "join"
        <3>1. sock[c].in \in Seq(Sent) /\ FramesIn(queue) \in Seq(Sent) /\ f \in Sent
            <4>1. sock[c].in \in Seq(Frames) /\ queue \in Seq(Message)
                BY <1>0 DEF TypeOK, Connection
            <4> QED BY <1>2, <4>1, SeqMonotonic, FramesSeq DEF Sent
        <3>2. Up(c)' = Append(Up(c), f)
            <4>3. phase' # "join" /\ FramesIn(queue)' = FramesIn(queue) /\ sock'[c].in = Append(sock[c].in, f)
                BY <1>1, <1>4, <2>1, <2>4
            <4>4. Up(c)' = FramesIn(queue)' \o sock'[c].in
                BY <2>2, <4>3 DEF Worked
            <4>1. Up(c) = FramesIn(queue) \o sock[c].in
                BY <2>2, <2>4 DEF Worked
            <4>2. LastOfSecond(FramesIn(queue), sock[c].in, f)
                BY <3>1, ConcatAppend
            <4> QED BY <4>1, <4>2, <4>3, <4>4 DEF LastOfSecond
        <3> QED BY <1>1, <1>2, <1>4, <1>5, <2>1, <2>2, <2>4, <3>2, AsSubmit DEF Worked
    <2> QED BY <2>3, <2>4
<1> QED BY <1>6, <1>7, <1>8, Trichotomy

-----------------------------------------------------------------------------
(* The steps of startup threads *)

Told(s, e) == Append(s, e) = s \o <<e>>

LEMMA Tells ==
    ASSUME NEW s \in Seq(ToldEvent), NEW e \in ToldEvent
    PROVE  Told(s, e)
BY AppendIsConcat DEF Told

\* The daemon answers a frame itself.
LEMMA Answers ==
    ASSUME IInv, NEW c \in Clients, Others(c), Away(c), Away(c)', NEW es \in Service!Reply,
           HasFrame(c), sock[c].peer, sock'[c].peer,
           sock[c].at \notin {"out", "ended"}, sock'[c].at \notin {"out", "ended"},
           sock'[c].in = Tail(sock[c].in), sock'[c].out = sock[c].out \o es
    PROVE  ServiceStep
<1>1. ~Gone(sock[c]) /\ ~Gone(sock'[c])
    BY DEF Gone
<1>2. Sees(c) /\ Sees(c)'
    BY AwaySees
<1> QED BY <1>1, <1>2, AsTurn DEF Sees, HasFrame

LEMMA StartupAway ==
    ASSUME IInv, NEW c \in Clients, Startup(c)
    PROVE  /\ UNCHANGED <<phase, cur, relay, queue, events, worker>> /\ Others(c)
           /\ Away(c) /\ Away(c)' /\ sock[c].at \in {"greeting", "startup"}
<1>0. sock \in [Clients -> Connection]
    BY DEF IInv, TypeOK
<1>1. UNCHANGED <<phase, cur, relay, queue, events, worker>> /\ phase # "exited"
      /\ sock[c].at \in {"greeting", "startup"}
    BY DEF Startup, StartupHandshake, StartupReads, StartupEnds, StartupReady, mainVars, workVars
<1>2. \A d \in Clients : d # c => sock'[d] = sock[d]
    BY <1>0 DEF Startup, StartupHandshake, StartupReads, StartupEnds, StartupReady, Ended, Refused
<1>3. Others(c)
    BY <1>1, <1>2, Untouched DEF Others
<1>4. c # cur \/ (~relay /\ phase \notin InService)
    BY <1>1 DEF IInv, TypeOK, Placed, RelayServes, InService
<1> QED BY <1>1, <1>3, <1>4 DEF Away

\* A connection ended, whether told why or not.
LEMMA EndsRefine ==
    ASSUME IInv, NEW c \in Clients, Others(c), Away(c),
           \/ Ended(c)
           \/ Refused(c) /\ sock[c].at \notin {"out", "ended"}
    PROVE  ServiceStep
<1>0. sock \in [Clients -> Connection] /\ TypeOK
    BY DEF IInv, TypeOK
<1>1. sock'[c].at = "ended"
    BY <1>0, EndedMoves
<1>2. Closed(c)'
    BY <1>1 DEF Closed
<1>3. CASE Ended(c)
    <2>1. sock'[c].out = sock[c].out
        BY <1>0, <1>3 DEF Ended, Connection
    <2> QED BY <1>0, <1>2, <2>1, Closes
<1>4. CASE Refused(c) /\ sock[c].at \notin {"out", "ended"}
    <2>1. CASE sock[c].peer
        <3> DEFINE e == Append(sock[c].out, Event("Error", <<>>))
        <3>1. sock' = [sock EXCEPT ![c].at = "ended", ![c].in = <<>>, ![c].out = e]
            BY <1>4, <2>1 DEF Refused
        <3>2. ~Closed(c)
            BY <1>4, <2>1, AwaySees, ClosedIsShuttered DEF Shuttered, Sees, Gone
        <3> HIDE DEF e
        <3>3. sock'[c].out = e
            BY <1>0, <3>1 DEF Connection
        <3> QED BY <1>0, <1>2, <3>2, <3>3, Closes DEF e
    <2>2. CASE ~sock[c].peer
        <3>1. sock'[c].out = sock[c].out
            BY <1>0, <1>4, <2>2 DEF Refused, Connection
        <3> QED BY <1>0, <1>2, <3>1, Closes
    <2> QED BY <2>1, <2>2
<1> QED BY <1>3, <1>4

LEMMA StartupRefines ==
    ASSUME IInv, NEW c \in Clients, Startup(c)
    PROVE  ServiceStep
<1>0. sock \in [Clients -> Connection] /\ TypeOK /\ sock[c].out \in Seq(ToldEvent)
    BY Typed DEF IInv, TypeOK, Connection
<1>1. /\ UNCHANGED <<phase, cur, relay, queue, events, worker>> /\ Others(c)
      /\ Away(c) /\ Away(c)' /\ sock[c].at \in {"greeting", "startup"}
    BY StartupAway
<1>2. CASE Ended(c) \/ Refused(c)
    BY <1>1, <1>2, EndsRefine
<1>3. Told(sock[c].out, Event("Hello", <<>>)) /\ Told(sock[c].out, Event("Error", <<>>))
      /\ Told(sock[c].out, Event("Ready", <<>>))
    BY <1>0, Typed, Tells DEF EventKind
<1>4. /\ <<>> \in Service!Reply /\ <<Event("Hello", <<>>)>> \in Service!Reply
      /\ <<Event("Error", <<>>)>> \in Service!Reply
    BY DEF Service!Reply, Service!Event, Event
<1>5. CASE StartupHandshake(c) /\ ~Ended(c) /\ ~Refused(c)
    <2>1. HasFrame(c) /\ sock[c].peer
          /\ sock' = [sock EXCEPT ![c].at = "startup", ![c].in = Tail(@), ![c].out = Append(@, Event("Hello", <<>>))]
        BY <1>5 DEF StartupHandshake, Greets
    <2>2. sock'[c].at = "startup" /\ sock'[c].peer /\ sock'[c].in = Tail(sock[c].in)
          /\ sock'[c].out = Append(sock[c].out, Event("Hello", <<>>))
        BY <1>0, <2>1 DEF Connection
    <2>3. sock'[c].out = sock[c].out \o <<Event("Hello", <<>>)>>
        BY <1>3, <2>2 DEF Told
    <2> QED BY <1>1, <1>4, <2>1, <2>2, <2>3, Answers
<1>6. CASE StartupReads(c) /\ ~Ended(c)
    <2>1. HasFrame(c)
        BY <1>6 DEF StartupReads
    <2>2. CASE sock' = [sock EXCEPT ![c].in = Tail(@)]
        <3>1. sock'[c].at = sock[c].at /\ sock'[c].peer = sock[c].peer /\ sock'[c].in = Tail(sock[c].in)
              /\ sock'[c].out = sock[c].out
            BY <1>0, <2>2 DEF Connection
        <3>2. sock[c].out \o <<>> = sock[c].out
            BY <1>0, ConcatEmptySeq
        <3>3. CASE sock[c].peer
            BY <1>1, <1>4, <2>1, <3>1, <3>2, <3>3, Answers
        <3>4. CASE ~sock[c].peer
            <4>1. Gone(sock[c]) /\ Gone(sock'[c])
                BY <1>1, <3>1, <3>4 DEF Gone
            <4> QED BY <1>1, <3>1, <4>1, StaysAway, Unnoticed
        <3> QED BY <3>3, <3>4
    <2>3. CASE sock[c].peer /\ sock' = [sock EXCEPT ![c].in = Tail(@), ![c].out = Append(@, Event("Error", <<>>))]
        <3>1. sock'[c].at = sock[c].at /\ sock'[c].peer /\ sock'[c].in = Tail(sock[c].in)
              /\ sock'[c].out = Append(sock[c].out, Event("Error", <<>>))
            BY <1>0, <2>3 DEF Connection
        <3>2. sock'[c].out = sock[c].out \o <<Event("Error", <<>>)>>
            BY <1>3, <3>1 DEF Told
        <3> QED BY <1>1, <1>4, <2>1, <2>3, <3>1, <3>2, Answers
    <2> QED BY <1>6, <2>2, <2>3 DEF StartupReads
<1>7. CASE StartupReady(c) /\ ~Ended(c)
    <2>1. sock[c].peer /\ sock' = [sock EXCEPT ![c].at = "early", ![c].out = Append(@, Event("Ready", <<>>))]
        BY <1>7 DEF StartupReady
    <2>2. sock'[c].at = "early" /\ sock'[c].peer /\ sock'[c].in = sock[c].in
          /\ sock'[c].out = Append(sock[c].out, Event("Ready", <<>>))
        BY <1>0, <2>1 DEF Connection
    <2>3. sock'[c].out = sock[c].out \o <<Event("Ready", <<>>)>>
        BY <1>3, <2>2 DEF Told
    <2>4. ~Gone(sock[c]) /\ ~Gone(sock'[c]) /\ Sees(c) /\ Sees(c)'
        BY <1>1, <2>1, <2>2, AwaySees DEF Gone
    <2> QED BY <1>1, <2>2, <2>3, <2>4, AsReady DEF Sees
<1> QED BY <1>2, <1>5, <1>6, <1>7 DEF Startup, StartupEnds

-----------------------------------------------------------------------------
(* The steps of the main thread and the relay *)

LEMMA NothingQueued ==
    ASSUME NEW S, NEW s \in Seq(S)
    PROVE  FramesIn(<<>>) \o s = s /\ s \o EventsIn(<<>>) = s /\ s \o FramesIn(<<>>) = s
<1>1. FramesIn(<<>>) = <<>> /\ EventsIn(<<>>) = <<>>
    BY DEF FramesIn, EventsIn
<1> QED BY <1>1, ConcatEmptySeq

\* The worker takes over a client whose connection alone was seen so far.
LEMMA TakesOver ==
    ASSUME IInv, IInv', NEW c \in Clients, Others(c), Away(c), Clean, Clean', AtWork(c)', phase' = "forward",
           sock[c].peer, sock[c].at \notin {"out", "ended"},
           \/ sock'[c].in = sock[c].in /\ sock'[c].out = sock[c].out
           \/ /\ HasFrame(c) /\ sock'[c].in = Tail(sock[c].in)
              /\ sock'[c].out = sock[c].out \o <<Event("Hello", <<>>), Event("Ready", <<>>)>>
    PROVE  ServiceStep
<1>0. TypeOK /\ TypeOK' /\ sock'[c].in \in Seq(Frames) /\ sock'[c].out \in Seq(ToldEvent)
    BY DEF IInv, TypeOK, Connection
<1>1. Sees(c) /\ Worked(c)' /\ ~Gone(sock[c])
    BY <1>0, AwaySees, AtWorkIsWorked DEF Gone
<1>2. FramesIn(queue)' = FramesIn(<<>>) /\ EventsIn(events)' = EventsIn(<<>>)
    BY DEF Clean
<1>3. worker' = EmptySession /\ worker'.parts = <<>> /\ worker'.failed = FALSE
    BY DEF Clean, EmptySession
<1>4. FramesIn(<<>>) \o sock'[c].in = sock'[c].in /\ sock'[c].out \o EventsIn(<<>>) = sock'[c].out
    BY <1>0, NothingQueued
<1>5. Link(c)' = "open" /\ Up(c)' = sock'[c].in /\ Down(c)' = sock'[c].out /\ Held(c)' = <<>> /\ Failed(c)' = FALSE
    BY <1>1, <1>2, <1>3, <1>4 DEF Worked
<1>6. Link(c) = "open" /\ Up(c) = sock[c].in /\ Down(c) = sock[c].out /\ Held(c) = <<>> /\ Failed(c) = FALSE
    BY <1>1 DEF Sees
<1>7. CASE sock'[c].in = sock[c].in /\ sock'[c].out = sock[c].out
    BY <1>5, <1>6, <1>7, Unnoticed DEF Same
<1>8. CASE /\ HasFrame(c) /\ sock'[c].in = Tail(sock[c].in)
           /\ sock'[c].out = sock[c].out \o <<Event("Hello", <<>>), Event("Ready", <<>>)>>
    <2>1. <<Event("Hello", <<>>), Event("Ready", <<>>)>> \in Service!Reply
        BY DEF Service!Reply, Service!Event, Event
    <2> QED BY <1>5, <1>6, <1>8, <2>1, AsTurn DEF HasFrame
<1> QED BY <1>7, <1>8

\* Serving begins, and the main thread moves between clients.
LEMMA AcceptsRefine ==
    ASSUME IInv, IInv', AcceptStartup \/ Accept \/ ServeEarly
    PROVE  ServiceStep
<1>0. sock \in [Clients -> Connection] /\ early \in Seq(Clients) /\ backlog \in Seq(Clients) /\ Placed
      /\ cur = Nobody /\ ~relay /\ Nobody \notin Clients
    BY ClientsAssumption DEF IInv, TypeOK, AcceptStartup, Accept, ServeEarly
<1>1. CASE AcceptStartup
    <2>1. PICK c \in Clients : c = Head(backlog) /\ sock[c].at = "backlog"
        <3>1. Head(backlog) \in Clients /\ Head(backlog) = backlog[1] /\ 1 \in 1..Len(backlog)
            BY <1>0, <1>1, Tails DEF AcceptStartup
        <3> QED BY <1>0, <3>1 DEF Placed
    <2>2. /\ sock'[c].at = "greeting" /\ sock'[c].peer = sock[c].peer
          /\ sock'[c].in = sock[c].in /\ sock'[c].out = sock[c].out
          /\ \A d \in Clients : d # c => sock'[d] = sock[d]
        BY <1>0, <1>1, <2>1 DEF AcceptStartup, Connection
    <2>3. UNCHANGED <<phase, cur, relay, queue, events, worker>> /\ phase = "starting"
        BY <1>1 DEF AcceptStartup, mainVars, workVars
    <2>4. Others(c)
        BY <2>2, <2>3, Untouched DEF Others
    <2>5. Away(c) /\ Away(c)' /\ (Gone(sock[c]) <=> Gone(sock'[c]))
        BY <1>0, <2>1, <2>2, <2>3 DEF Away, Gone
    <2> QED BY <2>1, <2>2, <2>4, <2>5, StaysAway, Unnoticed
<1>2. CASE Accept
    <2>1. PICK c \in Clients : c = Head(backlog) /\ sock[c].at = "backlog"
        <3>1. Head(backlog) \in Clients /\ Head(backlog) = backlog[1] /\ 1 \in 1..Len(backlog)
            BY <1>0, <1>2, Tails DEF Accept
        <3> QED BY <1>0, <3>1 DEF Placed
    <2>2. /\ sock'[c].at = "served" /\ sock'[c].peer = sock[c].peer
          /\ sock'[c].in = sock[c].in /\ sock'[c].out = sock[c].out
          /\ \A d \in Clients : d # c => sock'[d] = sock[d]
        BY <1>0, <1>2, <2>1 DEF Accept, Connection
    <2>3. phase = "next" /\ phase' = "greet" /\ relay' = relay /\ cur' = c
        BY <1>2, <2>1 DEF Accept, Serving
    <2>4. Others(c)
        BY <1>0, <2>2, <2>3, OthersAway
    <2>5. Away(c) /\ Away(c)' /\ (Gone(sock[c]) <=> Gone(sock'[c]))
        BY <1>0, <2>1, <2>2, <2>3 DEF Away, Gone, InService
    <2> QED BY <2>1, <2>2, <2>4, <2>5, StaysAway, Unnoticed
<1>3. CASE ServeEarly
    <2>1. PICK c \in Clients : c = Head(early) /\ sock[c].at = "early"
        <3>1. Head(early) \in Clients /\ Head(early) = early[1] /\ 1 \in 1..Len(early)
            BY <1>0, <1>3, Tails DEF ServeEarly
        <3> QED BY <1>0, <3>1 DEF Placed
    <2>2. /\ sock'[c].at = "served" /\ sock'[c].peer = sock[c].peer
          /\ sock'[c].in = sock[c].in /\ sock'[c].out = sock[c].out
          /\ \A d \in Clients : d # c => sock'[d] = sock[d]
        BY <1>0, <1>3, <2>1 DEF ServeEarly, Connection
    <2>3. phase = "next" /\ phase' = "forward" /\ relay' /\ cur' = c /\ UNCHANGED <<queue, events, worker>>
        BY <1>3, <2>1 DEF ServeEarly, Serving, workVars
    <2>4. Others(c)
        BY <1>0, <2>2, <2>3, OthersAway
    <2>5. CASE sock[c].peer
        <3>1. Clean /\ Clean'
            BY <2>3 DEF IInv, Owned, Clean
        <3>2. Away(c) /\ AtWork(c)'
            BY <1>0, <2>1, <2>2, <2>3, <2>5 DEF Away, AtWork
        <3> QED BY <2>1, <2>2, <2>3, <2>4, <2>5, <3>1, <3>2, TakesOver
    <2>6. CASE ~sock[c].peer
        <3>1. Closed(c)'
            BY <2>2, <2>6 DEF Closed
        <3> QED BY <2>1, <2>2, <2>4, <3>1, Closes DEF IInv
    <2> QED BY <2>5, <2>6
<1> QED BY <1>1, <1>2, <1>3

LEMMA HandshakeRefines ==
    ASSUME IInv, IInv', ServeHandshake
    PROVE  ServiceStep
<1>0. sock \in [Clients -> Connection] /\ cur \in Clients /\ ~relay /\ sock[cur].at = "served" /\ Clean
      /\ cur # Nobody
    BY DEF IInv, TypeOK, Placed, Owned, ServeHandshake
<1>1. UNCHANGED <<cur, queue, events, worker>> /\ phase = "greet" /\ phase' \in {"forward", "join"}
    BY DEF ServeHandshake, workVars
<1>2. \A d \in Clients : d # cur => sock'[d] = sock[d]
    BY <1>0 DEF ServeHandshake, Ended, Refused
<1>3. PICK c \in Clients : c = cur
    BY <1>0
<1>4. Others(c)
    BY <1>1, <1>2, <1>3, OthersAway
<1>5. Away(c)
    BY <1>0, <1>1, <1>3 DEF Away, InService
<1>6. CASE Ended(cur) \/ Refused(cur)
    BY <1>0, <1>3, <1>4, <1>5, <1>6, EndsRefine
<1>7. CASE ~Ended(cur) /\ ~Refused(cur)
    <2> DEFINE told == sock[cur].out \o <<Event("Hello", <<>>), Event("Ready", <<>>)>>
    <2>1. HasFrame(cur) /\ sock[cur].peer /\ relay' /\ phase' = "forward"
          /\ sock' = [sock EXCEPT ![cur].in = Tail(@), ![cur].out = told]
        BY <1>7 DEF ServeHandshake, Greets
    <2> HIDE DEF told
    <2>2. sock'[c].at = "served" /\ sock'[c].peer /\ sock'[c].in = Tail(sock[c].in) /\ sock'[c].out = told
        BY <1>0, <1>3, <2>1 DEF Connection
    <2>3. Clean' /\ AtWork(c)'
        BY <1>0, <1>1, <1>3, <2>1, <2>2 DEF Clean, AtWork
    <2> QED BY <1>0, <1>3, <1>4, <1>5, <2>1, <2>2, <2>3, TakesOver DEF told
<1> QED BY <1>6, <1>7

\* A frame on its way from the served client's socket to the worker.
LEMMA ForwardRefines ==
    ASSUME IInv, IInv', Forward \/ ForwardEnds
    PROVE  ServiceStep
<1>0. sock \in [Clients -> Connection] /\ queue \in Seq(Message) /\ cur \in Clients /\ TypeOK /\ TypeOK'
    BY DEF IInv, TypeOK, Forward, ForwardEnds
<1>1. UNCHANGED <<cur, relay, events, worker>> /\ phase = "forward" /\ phase' \in {"forward", "join"}
    BY DEF Forward, ForwardEnds, workVars
<1>2. PICK c \in Clients : c = cur
    BY <1>0
<1>3. \/ ForwardEnds /\ phase' = "join" /\ sock' = sock /\ queue' = queue
      \/ Forward /\ HasFrame(c) /\ sock' = [sock EXCEPT ![c].in = Tail(@)]
    BY <1>2 DEF Forward, ForwardEnds
<1>4. /\ sock'[c].at = sock[c].at /\ sock'[c].peer = sock[c].peer /\ sock'[c].out = sock[c].out
      /\ \A d \in Clients : d # c => sock'[d] = sock[d]
    BY <1>0, <1>3 DEF Connection
<1>5. Others(c)
    BY <1>1, <1>2, <1>4, OthersAway
<1>6. CASE Closed(c)
    <2>1. Closed(c)'
        BY <1>1, <1>2, <1>4, <1>6 DEF Closed
    <2> QED BY <1>0, <1>4, <1>5, <2>1, Closes
<1>7. CASE AtWork(c)
    <2>1. AtWork(c)'
        BY <1>1, <1>2, <1>4, <1>7 DEF AtWork
    <2>2. Worked(c) /\ Worked(c)'
        BY <1>0, <1>7, <2>1, AtWorkIsWorked
    <2>3. sock[c].in \in Seq(Sent) /\ FramesIn(queue) \in Seq(Sent)
        <3>1. sock[c].in \in Seq(Frames)
            BY <1>0 DEF Connection
        <3> QED BY <1>0, <3>1, SeqMonotonic, FramesSeq DEF Sent
    <2>4. Up(c) = FramesIn(queue) \o sock[c].in
        BY <1>1, <2>2 DEF Worked
    <2>5. EventsIn(events)' = EventsIn(events)
        BY <1>1 DEF EventsIn
    <2>6. Down(c)' = Down(c) /\ Held(c)' = Held(c) /\ Failed(c)' = Failed(c)
        BY <1>1, <1>4, <2>2, <2>5 DEF Worked
    <2>7. CASE phase' = "join"
        <3>1. queue' = queue
            BY <1>3, <2>7, <1>1 DEF Forward
        <3>2. Up(c)' = FramesIn(queue)
            BY <2>2, <2>7, <3>1 DEF Worked, FramesIn
        <3>3. Up(c)' \in Service!Prefixes(Up(c))
            BY <2>3, <2>4, <3>2, PartIsPrefix
        <3>4. Link(c) = "open" /\ Link(c)' = "shut"
            BY <1>1, <2>2, <2>7 DEF Worked
        <3> QED BY <1>5, <2>6, <3>3, <3>4, AsShut
    <2>8. CASE phase' = "forward"
        <3> DEFINE f == Head(sock[c].in)
                   m == [from |-> cur, frame |-> f]
        <3>1. queue' = Append(queue, m) /\ HasFrame(c) /\ sock' = [sock EXCEPT ![c].in = Tail(@)]
            BY <1>2, <1>3, <2>8 DEF Forward
        <3>2. sock[c].in \in Seq(Frames) /\ sock[c].in # <<>> /\ sock'[c].in = Tail(sock[c].in)
            BY <1>0, <3>1 DEF Connection, HasFrame
        <3>3. f \in Frames
            BY <3>2, Tails
        <3>4. m \in Message /\ m.frame = f
            BY <1>0, <3>3 DEF Message
        <3> HIDE DEF m
        <3>5. FramesIn(queue)' = Append(FramesIn(queue), f)
            <4>1. FramesIn(queue)' = FramesIn(Append(queue, m))
                BY <3>1 DEF FramesIn
            <4> QED BY <1>0, <3>4, <4>1, FramesAppend
        <3>6. Up(c)' = Append(FramesIn(queue), f) \o Tail(sock[c].in)
            <4>1. Up(c)' = FramesIn(queue)' \o sock'[c].in
                BY <2>2, <2>8 DEF Worked
            <4> QED BY <3>2, <3>5, <4>1
        <3>7. MovesOver(FramesIn(queue), sock[c].in)
            BY <2>3, <3>2, MoveOver
        <3>8. Up(c)' = Up(c)
            BY <2>4, <3>6, <3>7 DEF MovesOver
        <3>9. Link(c)' = Link(c)
            BY <1>1, <2>2, <2>8 DEF Worked
        <3> QED BY <1>5, <2>6, <3>8, <3>9, Unnoticed DEF Same
    <2> QED BY <1>1, <2>7, <2>8
<1> QED BY <1>1, <1>2, <1>6, <1>7, Trichotomy DEF Away, InService

\* Once the relay has ended the client sees nothing more.
LEMMA ResetRefines ==
    ASSUME IInv, IInv', BeginReset \/ ResetDrains \/ RelayEnds
    PROVE  ServiceStep
<1>0. sock \in [Clients -> Connection] /\ cur \in Clients /\ TypeOK /\ TypeOK'
    BY DEF IInv, TypeOK, BeginReset, ResetDrains, RelayEnds
<1>1. /\ phase \in {"join", "reset"} /\ phase' \in {"join", "reset", "next"} /\ cur' \in {cur, Nobody} /\ ~relay'
      /\ phase' # "next" => cur' = cur
    BY <1>0 DEF BeginReset, ResetDrains, RelayEnds, mainVars, TypeOK
<1>2. PICK c \in Clients : c = cur
    BY <1>0
<1>3. sock' = sock \/ Ended(c)
    BY <1>2 DEF BeginReset, ResetDrains, RelayEnds
<1>4. sock'[c].out = sock[c].out /\ \A d \in Clients : d # c => sock'[d] = sock[d]
    BY <1>0, <1>3 DEF Ended, Connection
<1>5. Others(c)
    BY <1>1, <1>2, <1>4, ClientsAssumption, OthersAway
<1>6. Closed(c)'
    <2>1. CASE phase' = "next"
        <3>1. sock'[c].at = "ended"
            BY <1>0, <1>1, <1>2, <2>1, EndedMoves DEF BeginReset, ResetDrains, RelayEnds, mainVars
        <3> QED BY <3>1 DEF Closed
    <2>2. CASE phase' # "next"
        BY <1>1, <1>2, <2>2 DEF Closed
    <2> QED BY <2>1, <2>2
<1> QED BY <1>0, <1>4, <1>5, <1>6, Closes

LEMMA RelayRefines ==
    ASSUME IInv, IInv', RelayEvent
    PROVE  ServiceStep
<1> DEFINE e == Event(Head(events).event, Head(events).text)
<1>0. sock \in [Clients -> Connection] /\ events \in Seq(WorkerEvent) /\ cur \in Clients /\ TypeOK /\ TypeOK'
      /\ sock[cur].at = "served" /\ phase \in {"forward", "join"}
    BY DEF IInv, TypeOK, RelayServes, RelayEvent
<1>1. UNCHANGED <<cur, phase, queue, worker>> /\ relay /\ events # <<>> /\ events' = Tail(events)
    BY DEF RelayEvent, workVars
<1>2. PICK c \in Clients : c = cur
    BY <1>0
<1>3. \/ ~relay' /\ sock' = sock
      \/ sock[c].peer /\ relay' /\ sock' = [sock EXCEPT ![c].out = Append(@, e)]
    BY <1>1, <1>2 DEF RelayEvent
<1> HIDE DEF e
<1>4. \A d \in Clients : d # c => sock'[d] = sock[d]
    BY <1>0, <1>3
<1>5. Others(c)
    BY <1>0, <1>1, <1>2, <1>4, OthersAway
<1>6. CASE ~relay' /\ sock' = sock
    <2>1. Closed(c)'
        BY <1>0, <1>1, <1>2, <1>6 DEF Closed
    <2> QED BY <1>0, <1>5, <1>6, <2>1, Closes
<1>7. CASE sock[c].peer /\ relay' /\ sock' = [sock EXCEPT ![c].out = Append(@, e)]
    <2>1. sock'[c].at = sock[c].at /\ sock'[c].peer /\ sock'[c].in = sock[c].in
          /\ sock'[c].out = Append(sock[c].out, e)
        BY <1>0, <1>7 DEF Connection
    <2>2. AtWork(c) /\ AtWork(c)'
        BY <1>0, <1>1, <1>2, <1>7, <2>1 DEF AtWork
    <2>3. Worked(c) /\ Worked(c)'
        BY <1>0, <2>2, AtWorkIsWorked
    <2>4. sock[c].out \in Seq(ToldEvent) /\ EventsIn(events) \in Seq(ToldEvent) /\ EventsIn(events) # <<>>
          /\ Head(EventsIn(events)) = e
        BY <1>0, <1>1, EventsTail DEF Connection, e
    <2>5. EventsIn(events)' = Tail(EventsIn(events))
        <3>1. EventsIn(events)' = EventsIn(Tail(events))
            BY <1>1 DEF EventsIn
        <3> QED BY <1>0, <1>1, <3>1, EventsTail
    <2>6. MovesOver(sock[c].out, EventsIn(events))
        BY <2>4, MoveOver
    <2>7. Down(c)' = sock'[c].out \o EventsIn(events)' /\ Down(c) = sock[c].out \o EventsIn(events)
        BY <2>3 DEF Worked
    <2>8. Down(c)' = Down(c)
        BY <2>1, <2>4, <2>5, <2>6, <2>7 DEF MovesOver
    <2>9. FramesIn(queue)' = FramesIn(queue)
        BY <1>1 DEF FramesIn
    <2>10. UNCHANGED <<Link(c), Up(c), Held(c), Failed(c)>>
        BY <1>1, <2>1, <2>3, <2>9 DEF Worked
    <2> QED BY <1>5, <2>8, <2>10, Unnoticed DEF Same
<1> QED BY <1>3, <1>6, <1>7

-----------------------------------------------------------------------------
(* The steps of the worker *)

\* What the worker is asked to do is the served client's.
LEMMA WorkedFor ==
    ASSUME IInv, IInv', Worker, NEW c \in Clients, c = cur
    PROVE  /\ phase \in InService /\ Others(c) /\ UNCHANGED <<phase, cur, relay, sock>>
           /\ AtWork(c) => /\ AtWork(c)' /\ Worked(c) /\ Worked(c)' /\ Head(queue).from = c
                           /\ Link(c) \in {"open", "shut"} /\ UNCHANGED Link(c)
<1>0. TypeOK /\ TypeOK' /\ Owned /\ queue \in Seq(Message)
    BY DEF IInv, TypeOK
<1>1. queue # <<>> /\ phase # "exited" /\ UNCHANGED <<phase, cur, relay, sock>>
    BY <1>0, WorkerHandles, WorkerLeaves DEF mainVars
<1>2. phase \in InService
    BY <1>0, <1>1 DEF Owned, Clean, InService, TypeOK
<1>3. Others(c)
    BY <1>1, OthersAway
<1>4. ASSUME AtWork(c)
      PROVE  /\ AtWork(c)' /\ Worked(c) /\ Worked(c)' /\ Head(queue).from = c
             /\ Link(c) \in {"open", "shut"} /\ UNCHANGED Link(c)
    <2>1. AtWork(c)'
        BY <1>1, <1>4 DEF AtWork
    <2>2. Worked(c) /\ Worked(c)'
        BY <1>0, <1>4, <2>1, AtWorkIsWorked
    <2>3. Ours(queue)
        BY <1>0, <1>4 DEF AtWork, Owned
    <2>4. Head(queue).from = c
        BY <1>0, <1>1, <2>3, OursTail
    <2>5. Link(c) \in {"open", "shut"} /\ UNCHANGED Link(c)
        BY <1>1, <2>2 DEF Worked
    <2> QED BY <2>1, <2>2, <2>4, <2>5
<1> QED BY <1>1, <1>2, <1>3, <1>4

LEMMA HeadOfUp ==
    ASSUME IInv, NEW c \in Clients, Worked(c), queue # <<>>
    PROVE  Up(c) # <<>> /\ Head(Up(c)) = Head(queue).frame
<1>1. FramesIn(queue) \in Seq(Sent) /\ FramesIn(queue) # <<>> /\ Head(FramesIn(queue)) = Head(queue).frame
    BY FramesTail DEF IInv, TypeOK
<1>2. sock[c].in \in Seq(Sent)
    <2>1. sock[c].in \in Seq(Frames)
        BY DEF IInv, TypeOK, Connection
    <2> QED BY <2>1, SeqMonotonic DEF Sent
<1>3. HeadOfFirst(FramesIn(queue), sock[c].in)
    BY <1>1, <1>2, ConcatTail
<1>4. CASE phase = "join"
    BY <1>1, <1>4 DEF Worked
<1>5. CASE phase # "join"
    BY <1>1, <1>3, <1>5 DEF Worked, HeadOfFirst
<1> QED BY <1>4, <1>5

LEMMA Pops ==
    ASSUME IInv, IInv', Worker, NEW c \in Clients, c = cur, AtWork(c), NEW cmds,
           Head(queue).frame.cmd \in cmds, queue' = Tail(queue)
    PROVE  Handled(c, cmds) /\ Head(Up(c)) = Head(queue).frame
<1>0. TypeOK /\ queue \in Seq(Message) /\ queue # <<>>
    BY WorkerHandles DEF IInv, TypeOK
<1>1. Worked(c) /\ Worked(c)' /\ Others(c) /\ Link(c) \in {"open", "shut"} /\ UNCHANGED Link(c)
      /\ UNCHANGED <<phase, sock>>
    BY WorkedFor
<1>2. Up(c) # <<>> /\ Head(Up(c)) = Head(queue).frame
    BY <1>0, <1>1, HeadOfUp
<1>3. FramesIn(queue) \in Seq(Sent) /\ FramesIn(queue) # <<>>
    BY <1>0, FramesTail
<1>4. FramesIn(queue)' = Tail(FramesIn(queue))
    <2>1. FramesIn(queue)' = FramesIn(Tail(queue))
        BY DEF FramesIn
    <2> QED BY <1>0, <2>1, FramesTail
<1>5. Up(c)' = Tail(Up(c))
    <2>1. CASE phase = "join"
        BY <1>1, <1>4, <2>1 DEF Worked
    <2>2. CASE phase # "join"
        <3>1. sock[c].in \in Seq(Sent)
            <4>1. sock[c].in \in Seq(Frames)
                BY <1>0 DEF TypeOK, Connection
            <4> QED BY <4>1, SeqMonotonic DEF Sent
        <3>2. HeadOfFirst(FramesIn(queue), sock[c].in)
            BY <1>3, <3>1, ConcatTail
        <3>3. Up(c) = FramesIn(queue) \o sock[c].in /\ Up(c)' = FramesIn(queue)' \o sock'[c].in /\ sock' = sock
            BY <1>1, <2>2 DEF Worked
        <3> QED BY <1>4, <3>2, <3>3 DEF HeadOfFirst
    <2> QED BY <2>1, <2>2
<1> QED BY <1>1, <1>2, <1>5 DEF Handled

\* What it says is the next event of that client.
LEMMA Speaks ==
    ASSUME IInv, IInv', Worker, NEW c \in Clients, c = cur, AtWork(c),
           NEW e \in EventKind, NEW text \in Seq(Piece), Emits(e, text)
    PROVE  Down(c)' = Down(c) \o <<Event(e, text)>>
<1> DEFINE w == [for |-> Head(queue).from, event |-> e, text |-> text]
           v == Event(e, text)
<1>0. TypeOK /\ events \in Seq(WorkerEvent) /\ queue \in Seq(Message) /\ Head(queue) \in Message
    BY WorkerHandles DEF IInv, TypeOK
<1>1. Worked(c) /\ Worked(c)' /\ sock' = sock
    BY WorkedFor
<1>2. w \in WorkerEvent /\ v \in ToldEvent /\ v = Event(w.event, w.text)
    BY <1>0 DEF WorkerEvent, ToldEvent, Message, Event
<1>3. events' = Append(events, w)
    BY DEF Emits
<1> HIDE DEF w, v
<1>4. EventsIn(events)' = Append(EventsIn(events), v)
    <2>1. EventsIn(events)' = EventsIn(Append(events, w))
        BY <1>3 DEF EventsIn
    <2> QED BY <1>0, <1>2, <2>1, EventsAppend
<1>5. sock[c].out \in Seq(ToldEvent) /\ EventsIn(events) \in Seq(ToldEvent)
    BY <1>0, EventsSeq DEF TypeOK, Connection
<1>6. Down(c) = sock[c].out \o EventsIn(events) /\ Down(c)' = sock'[c].out \o EventsIn(events)'
    BY <1>1 DEF Worked
<1>7. LastOfSecond(sock[c].out, EventsIn(events), v)
    BY <1>2, <1>5, ConcatAppend
<1>8. Down(c)' = Append(Down(c), v) /\ Down(c) \in Seq(ToldEvent)
    BY <1>1, <1>4, <1>5, <1>6, <1>7, ConcatProperties DEF LastOfSecond
<1>9. Told(Down(c), v)
    BY <1>2, <1>8, Tells
<1> QED BY <1>8, <1>9 DEF Told, v

LEMMA Silent ==
    ASSUME IInv, IInv', Worker, NEW c \in Clients, c = cur, AtWork(c), events' = events
    PROVE  UNCHANGED Down(c)
<1>1. Worked(c) /\ Worked(c)' /\ sock' = sock
    BY WorkedFor
<1>2. EventsIn(events)' = EventsIn(events)
    BY DEF EventsIn
<1> QED BY <1>1, <1>2 DEF Worked

\* A worker that is not at work for its client is heard by nobody.
LEMMA UnheardRefines ==
    ASSUME IInv, IInv', Worker, \A c \in Clients : c = cur => ~AtWork(c)
    PROVE  ServiceStep
<1>0. TypeOK
    BY DEF IInv
<1>1. phase # "exited" /\ UNCHANGED <<phase, cur, relay, sock>>
    BY WorkerLeaves DEF mainVars
<1>2. CASE cur \in Clients
    <2>1. PICK c \in Clients : c = cur
        BY <1>2
    <2>2. Others(c) /\ phase \in InService
        BY <2>1, WorkedFor
    <2>3. Closed(c)
        BY <2>1, <2>2, Trichotomy DEF Away
    <2>4. Closed(c)'
        BY <1>1, <2>3 DEF Closed
    <2> QED BY <1>0, <1>1, <2>2, <2>4, Closes
<1>3. CASE cur \notin Clients
    <2>1. Others(cur)
        <3>1. \A d \in Clients : d # cur /\ d # cur' /\ sock'[d] = sock[d]
            BY <1>1, <1>3
        <3>2. Others(Nobody)
            BY <1>1, <3>1, OthersAway
        <3> QED BY <3>2, ClientsAssumption DEF Others
    <2> QED BY <1>3, <2>1, AsStutter DEF Others
<1> QED BY <1>2, <1>3

LEMMA WorkerRefines ==
    ASSUME IInv, IInv', Worker
    PROVE  ServiceStep
<1>1. CASE \A c \in Clients : c = cur => ~AtWork(c)
    BY <1>1, UnheardRefines
<1>2. ASSUME NEW c \in Clients, c = cur, AtWork(c)
      PROVE  ServiceStep
    <2>0. TypeOK /\ TypeOK' /\ worker \in Session /\ worker.parts \in Seq(Piece) /\ <<>> \in Seq(Piece)
          /\ queue # <<>> /\ Head(queue) \in Message
        BY Typed, WorkerHandles DEF IInv, TypeOK, Session
    <2>1. Others(c) /\ Worked(c) /\ Worked(c)' /\ Head(queue).from = c /\ UNCHANGED Link(c)
          /\ UNCHANGED <<phase, sock>>
        BY <1>2, WorkedFor
    <2>2. /\ Held(c) = worker.parts /\ Failed(c) = worker.failed
          /\ Held(c)' = worker'.parts /\ Failed(c)' = worker'.failed
        BY <2>1 DEF Worked
    <2>3. EmptySession.parts = <<>> /\ EmptySession.failed = FALSE
        BY DEF EmptySession
    <2>4. CASE WorkerStart
        <3>1. Head(queue).frame.cmd \in {"Start", "QuietStart"} /\ queue' = Tail(queue) /\ events' = events
            BY <2>4 DEF WorkerStart, Works
        <3>2. worker'.parts = <<>> /\ worker'.failed = FALSE
            <4>1. \A q \in BOOLEAN : [EmptySession EXCEPT !.active = TRUE, !.quiet = q].parts = <<>>
                                     /\ [EmptySession EXCEPT !.active = TRUE, !.quiet = q].failed = FALSE
                BY DEF EmptySession
            <4> QED BY <2>4, <4>1 DEF WorkerStart
        <3>3. Handled(c, {"Start", "QuietStart"}) /\ UNCHANGED Down(c)
            BY <1>2, <3>1, Pops, Silent
        <3> QED BY <2>2, <3>2, <3>3, AsStart
    <2>5. CASE WorkerChunk
        <3> DEFINE piece == <<Head(queue).from, Head(queue).frame.k>>
        <3>1. Head(queue).frame.cmd \in {"Chunk"} /\ queue' = Tail(queue)
            BY <2>5 DEF WorkerChunk, Works
        <3>2. Handled(c, {"Chunk"}) /\ Head(Up(c)) = Head(queue).frame
            BY <1>2, <3>1, Pops
        <3>3. piece = <<c, Head(Up(c)).k>>
            BY <2>1, <3>2
        <3>4. piece \in Piece /\ <<piece>> \in Seq(Piece) /\ "Partial" \in EventKind
            BY <2>0, <3>1 DEF Message, Frames, ResetFrame, Piece, EventKind
        <3>5. CASE worker' = [worker EXCEPT !.failed = TRUE] /\ events' = events
            <4>1. Held(c)' = Held(c) /\ Failed(c)' = TRUE
                BY <2>0, <2>2, <3>5 DEF Session
            <4>2. UNCHANGED Down(c)
                BY <1>2, <3>5, Silent
            <4> HIDE DEF piece
            <4> QED BY <3>2, <3>3, <4>1, <4>2, AsChunk
        <3>6. CASE worker' = [worker EXCEPT !.parts = Append(@, piece)] /\ Emits("Partial", <<piece>>)
            <4> HIDE DEF piece
            <4>1. Held(c)' = Append(Held(c), piece) /\ Failed(c)' = Failed(c)
                BY <2>0, <2>2, <3>6 DEF Session
            <4>2. Down(c)' = Down(c) \o <<Event("Partial", <<piece>>)>>
                BY <1>2, <3>4, <3>6, Speaks
            <4> QED BY <3>2, <3>3, <4>1, <4>2, AsChunk
        <3> QED BY <2>5, <3>5, <3>6 DEF WorkerChunk
    <2>6. CASE WorkerFlush \/ WorkerAnswers
        <3>1. Head(queue).frame.cmd \in {"Flush"} /\ queue' = Tail(queue)
            BY <2>6 DEF WorkerFlush, WorkerAnswers, Works
        <3>2. Handled(c, {"Flush"})
            BY <1>2, <3>1, Pops
        <3>3. Held(c)' = <<>> /\ Failed(c)' = FALSE
            BY <2>0, <2>2, <2>6 DEF WorkerFlush, WorkerAnswers, Rest, Session
        <3>4. "Error" \in EventKind /\ "Final" \in EventKind
            BY DEF EventKind
        <3>5. CASE worker.failed
            <4>1. Emits("Error", <<>>)
                BY <2>6, <3>5 DEF WorkerFlush, WorkerAnswers
            <4>2. Down(c)' = Down(c) \o <<Event("Error", <<>>)>>
                BY <1>2, <2>0, <3>4, <4>1, Speaks
            <4> QED BY <2>2, <3>2, <3>3, <3>5, <4>2, AsFlush
        <3>6. CASE ~worker.failed
            <4>1. PICK text \in {worker.parts, <<>>} : Emits("Final", text)
                BY <2>6, <3>6 DEF WorkerFlush, WorkerAnswers
            <4>2. Down(c)' = Down(c) \o <<Event("Final", text)>>
                BY <1>2, <2>0, <3>4, <4>1, Speaks
            <4>3. text \in {Held(c), <<>>}
                BY <2>2
            <4> QED BY <2>2, <3>2, <3>3, <3>6, <4>2, <4>3, AsFlush
        <3> QED BY <3>5, <3>6
    <2>7. CASE WorkerCancel
        <3>1. Head(queue).frame.cmd \in {"Cancel"} /\ queue' = Tail(queue) /\ Emits("Aborted", <<>>)
              /\ worker' = EmptySession
            BY <2>7 DEF WorkerCancel, Works
        <3>2. Handled(c, {"Cancel"})
            BY <1>2, <3>1, Pops
        <3>3. Down(c)' = Down(c) \o <<Event("Aborted", <<>>)>>
            BY <1>2, <2>0, <3>1, Speaks DEF EventKind
        <3> QED BY <2>2, <2>3, <3>1, <3>2, <3>3, AsCancel
    <2>8. CASE WorkerPolishes \/ WorkerRecords
        <3>1. queue' = queue /\ worker'.parts = worker.parts /\ worker'.failed = worker.failed
              /\ Head(queue).frame.cmd = "Flush" /\ ~worker.failed /\ worker.parts # <<>>
            BY <2>0, <2>8 DEF WorkerPolishes, WorkerRecords, Flushing, Session
        <3>2. FramesIn(queue)' = FramesIn(queue)
            BY <3>1 DEF FramesIn
        <3>3. UNCHANGED <<Up(c), Held(c), Failed(c)>>
            BY <2>1, <2>2, <3>1, <3>2 DEF Worked
        <3>4. CASE WorkerPolishes
            <4>1. Down(c)' = Down(c) \o <<Event("Polishing", <<>>)>>
                BY <1>2, <2>0, <3>4, Speaks DEF EventKind, WorkerPolishes
            <4>2. Up(c) # <<>> /\ Head(Up(c)).cmd = "Flush"
                BY <2>0, <2>1, <3>1, HeadOfUp
            <4> QED BY <2>1, <2>2, <3>1, <3>3, <4>1, <4>2, AsProgress
        <3>5. CASE WorkerRecords
            <4>1. UNCHANGED Down(c)
                BY <1>2, <3>5, Silent DEF WorkerRecords
            <4> QED BY <2>1, <3>3, <4>1, Unnoticed DEF Same
        <3> QED BY <2>8, <3>4, <3>5
    <2> QED BY <2>4, <2>5, <2>6, <2>7, <2>8 DEF Worker
<1> QED BY <1>1, <1>2

-----------------------------------------------------------------------------
(* One shared worker, a session for each client *)

LEMMA InitRefines ==
    Init => Service!Init
<1> SUFFICES ASSUME Init PROVE Service!Init
    OBVIOUS
<1>1. ASSUME NEW c \in Clients
      PROVE  Link(c) = "out" /\ Up(c) = <<>> /\ Down(c) = <<>> /\ Held(c) = <<>> /\ Failed(c) = FALSE
    <2>1. Away(c) /\ sock[c].at = "out" /\ sock[c].in = <<>> /\ sock[c].out = <<>>
        BY ClientsAssumption DEF Init, Away
    <2> QED BY <2>1, AwaySees DEF Sees, Gone
<1> QED BY <1>1 DEF Service!Init

LEMMA StepRefines ==
    ASSUME IInv, IInv', Next
    PROVE  ServiceStep
<1>0. TypeOK
    BY DEF IInv
<1>1. CASE Client
    <2>1. PICK c \in Clients : Connect(c) \/ Leave(c) \/ \E cmd \in ClientMsg : Submit(c, cmd)
        BY <1>1 DEF Client
    <2> QED BY <2>1, ConnectRefines, LeaveRefines, SubmitRefines
<1>2. CASE HandoverDone \/ Loaded
    <2>1. cur = Nobody /\ cur' = cur /\ sock' = sock /\ phase # "exited" /\ phase' # "exited"
        BY <1>0, <1>2 DEF HandoverDone, Loaded, TypeOK
    <2>2. Others(Nobody)
        BY <2>1, ClientsAssumption, OthersAway
    <2> QED BY <2>2, AsStutter, ClientsAssumption DEF Others
<1>3. CASE Terminate \/ ResetTimesOut \/ IdleExit
    <2>1. phase' = "exited" /\ sock' = sock
        BY <1>3 DEF Terminate, ResetTimesOut, IdleExit, Exits
    <2>2. ASSUME NEW c \in Clients
          PROVE  /\ Link(c)' = "closed" /\ Up(c)' = <<>> /\ Held(c)' = <<>> /\ Failed(c)' = FALSE
                 /\ Down(c)' \in Service!Prefixes(Down(c))
        <3>1. Shuttered(c)'
            <4>1. Closed(c)'
                BY <2>1 DEF Closed
            <4> QED BY <4>1, ClosedIsShuttered
        <3>2. sock[c].out \in Seq(ToldEvent) /\ EventsIn(events) \in Seq(ToldEvent)
            BY <1>0, EventsSeq DEF TypeOK, Connection
        <3>3. Down(c) = sock[c].out \/ Down(c) = sock[c].out \o EventsIn(events)
            BY DEF Down
        <3>4. Down(c)' = sock[c].out
            BY <2>1, <3>1 DEF Shuttered
        <3>5. Down(c)' \in Service!Prefixes(Down(c))
            BY <3>2, <3>3, <3>4, WholeIsPrefix, PartIsPrefix
        <3> QED BY <3>1, <3>5 DEF Shuttered
    <2> QED BY <2>2, AsExit
<1> QED BY <1>1, <1>2, <1>3, StartupRefines, AcceptsRefine, HandshakeRefines, ForwardRefines, ResetRefines,
           RelayRefines, WorkerRefines DEF Next, Main, Relay

\* Whatever the clients do, each of them sees a session of its own (SessionService):
\* the one resident worker of daemon.rs and inference.rs implements it.
THEOREM ImplementsSessions ==
    Spec => Implements
<1>1. IInv /\ IInv' /\ [Next]_vars => ServiceStep
    <2> SUFFICES ASSUME IInv, IInv', [Next]_vars PROVE ServiceStep
        OBVIOUS
    <2>1. CASE UNCHANGED vars
        <3>1. UNCHANGED <<phase, cur, relay, queue, events, worker, sock>>
            BY <2>1 DEF vars, mainVars, workVars
        <3>2. \A d \in Clients : Same(d)
            BY <3>1, Untouched
        <3> QED BY <3>2, AsStutter
    <2> QED BY <2>1, StepRefines
<1>2. Implements <=> Service!Init /\ [][Service!Next]_(Service!vars)
    BY DEF Implements, Service!Spec
<1> QED BY <1>1, <1>2, InitRefines, Invariance, PTL DEF Spec, ServiceStep

=============================================================================
