----------------------------- MODULE DaemonServe -----------------------------
(***************************************************************************)
(* diktafond: clients are greeted while the models load, handed over, and  *)
(* then served one at a time by one resident inference worker.             *)
(*                                                                         *)
(*   main thread       accepts, shakes hands, forwards a client's frames   *)
(*                     to the worker, and resets the worker between        *)
(*                     clients                                             *)
(*   startup threads   one per client that connects while models load      *)
(*   relay thread      one per served client: worker events to its socket  *)
(*   worker thread     the session: chunks in, partials and finals out     *)
(*                                                                         *)
(* The worker knows nothing of clients. What keeps one client's speech     *)
(* from the next is the reset: a Cancel whose Aborted is the barrier, told *)
(* apart from the Aborteds the last client's own Cancels still owe it by   *)
(* counting.                                                               *)
(***************************************************************************)
EXTENDS Integers, Sequences, FiniteSets

CONSTANTS
    Clients,
    Mismatched,     \* clients of another protocol version or model pair
    Nobody,         \* no client
    Greetings,      \* what clients send first
    Commands,       \* what they send after it
    MaxFrames       \* frames one client sends

ClientMsg == {"Hello", "Start", "QuietStart", "Chunk", "Flush", "Cancel"}

ASSUME ClientsAssumption ==
    /\ Mismatched \subseteq Clients
    /\ Nobody \notin Clients
    /\ Greetings \cup Commands \subseteq ClientMsg
    /\ MaxFrames \in Nat \ {0}

VARIABLES
    phase,          \* where the main thread stands
    cur,            \* the client it is at
    counts,         \* ServeCounts: cancels forwarded, aborteds consumed
    drain,          \* reset_worker's aborteds_to_drain
    relay,          \* whether the relay thread runs
    backlog,        \* connections not accepted yet
    early,          \* the handover channel of start_up
    sock,           \* per client: its connection
    queue,          \* channel chunk_tx -> chunk_rx, each message with its sender
    events,         \* channel events_tx -> events_rx, each with whose it is
    worker,         \* the session held by the worker thread
    history         \* entries appended to the history file

mainVars == <<phase, cur, counts, drain>>
workVars == <<worker, history>>
vars == <<mainVars, relay, backlog, early, sock, queue, events, workVars>>

Frames     == [cmd : Greetings \cup Commands, k : 1..MaxFrames]
ResetFrame == [cmd |-> "Cancel", k |-> 0]
Message    == [from : Clients, frame : Frames] \cup [from : {Nobody}, frame : {ResetFrame}]

\* Text is the pieces transcribed from chunks, each with its client.
Piece == Clients \X (1..MaxFrames)
Event(e, text) == [event |-> e, text |-> text]

\* stage is how far the Flush at the head of the queue has got
EmptySession == [parts |-> <<>>, failed |-> FALSE, quiet |-> FALSE, active |-> FALSE,
                 stage |-> "gather"]

-----------------------------------------------------------------------------
(* Clients: any of them sends anything, in any order, and leaves when it likes *)

Connect(c) ==
    /\ sock[c].at = "out"
    /\ phase # "exited"
    /\ sock' = [sock EXCEPT ![c].at = "backlog", ![c].peer = TRUE]
    /\ backlog' = Append(backlog, c)
    /\ UNCHANGED <<mainVars, relay, early, queue, events, workVars>>

\* Nothing after a mismatched Hello is ever read.
FrameBound(c) == IF c \in Mismatched THEN 1 ELSE MaxFrames

Submit(c, cmd) ==
    /\ sock[c].peer /\ sock[c].at # "ended" /\ phase # "exited"
    /\ sock[c].sent < FrameBound(c)
    /\ cmd \in IF sock[c].sent = 0 THEN Greetings ELSE Commands
    /\ sock' = [sock EXCEPT ![c].sent = @ + 1,
                            ![c].in = Append(@, [cmd |-> cmd, k |-> sock[c].sent + 1])]
    /\ UNCHANGED <<mainVars, relay, backlog, early, queue, events, workVars>>

Leave(c) ==
    /\ sock[c].peer
    /\ sock' = [sock EXCEPT ![c].peer = FALSE]
    /\ UNCHANGED <<mainVars, relay, backlog, early, queue, events, workVars>>

-----------------------------------------------------------------------------
(* Reading and writing a socket *)

\* What the client has sent is still read after it left; then comes the end.
HasFrame(c) == sock[c].in # <<>>
AtEnd(c)    == ~HasFrame(c) /\ ~sock[c].peer
Ended(c)    == sock' = [sock EXCEPT ![c].at = "ended", ![c].in = <<>>]

\* handshake: only the right Hello goes through. A refusal is best effort.
Greets(c) == HasFrame(c) /\ Head(sock[c].in).cmd = "Hello" /\ c \notin Mismatched
Refused(c) ==
    /\ HasFrame(c) /\ ~Greets(c)
    /\ sock' = [sock EXCEPT ![c].at = "ended", ![c].in = <<>>,
                            ![c].out = IF sock[c].peer THEN Append(@, Event("Error", <<>>)) ELSE @]

-----------------------------------------------------------------------------
(* Startup: one thread per client *)

AcceptStartup ==
    /\ phase = "starting"
    /\ backlog # <<>>
    /\ sock' = [sock EXCEPT ![Head(backlog)].at = "greeting"]
    /\ backlog' = Tail(backlog)
    /\ UNCHANGED <<mainVars, relay, early, queue, events, workVars>>

\* mutant: a startup client may take forever to say Hello
StartupHandshakeWaits(c) ==
    /\ phase # "exited"
    /\ sock[c].at = "greeting"
    /\ \/ /\ Greets(c) /\ sock[c].peer
          /\ sock' = [sock EXCEPT ![c].at = "startup", ![c].in = Tail(@),
                                  ![c].out = Append(@, Event("Hello", <<>>))]
       \/ Refused(c)
       \/ AtEnd(c) /\ Ended(c)
       \/ Greets(c) /\ ~sock[c].peer /\ Ended(c)
    /\ UNCHANGED <<mainVars, relay, backlog, early, queue, events, workVars>>

\* Handshake, or its failure: a refusal, the end, or HANDSHAKE_TIMEOUT.
StartupHandshake(c) ==
    /\ phase # "exited"
    /\ sock[c].at = "greeting"
    /\ \/ /\ Greets(c) /\ sock[c].peer
          /\ sock' = [sock EXCEPT ![c].at = "startup", ![c].in = Tail(@),
                                  ![c].out = Append(@, Event("Hello", <<>>))]
       \/ Refused(c)
       \/ ~HasFrame(c) /\ Ended(c)
       \/ Greets(c) /\ ~sock[c].peer /\ Ended(c)
    /\ UNCHANGED <<mainVars, relay, backlog, early, queue, events, workVars>>

\* A frame before Ready: a Flush is failed, anything else is swallowed.
StartupReads(c) ==
    /\ phase # "exited"
    /\ sock[c].at = "startup"
    /\ HasFrame(c)
    /\ IF Head(sock[c].in).cmd # "Flush"
       THEN sock' = [sock EXCEPT ![c].in = Tail(@)]
       ELSE IF sock[c].peer
       THEN sock' = [sock EXCEPT ![c].in = Tail(@), ![c].out = Append(@, Event("Error", <<>>))]
       ELSE Ended(c)
    /\ UNCHANGED <<mainVars, relay, backlog, early, queue, events, workVars>>

StartupEnds(c) ==
    /\ phase # "exited"
    /\ sock[c].at = "startup"
    /\ AtEnd(c)
    /\ Ended(c)
    /\ UNCHANGED <<mainVars, relay, backlog, early, queue, events, workVars>>

\* The thread notices that the models are loaded: Ready, and the handover.
StartupReady(c) ==
    /\ phase = "handover"
    /\ sock[c].at = "startup"
    /\ IF sock[c].peer
       THEN /\ sock' = [sock EXCEPT ![c].at = "early", ![c].out = Append(@, Event("Ready", <<>>))]
            /\ early' = Append(early, c)
       ELSE Ended(c) /\ UNCHANGED early
    /\ UNCHANGED <<mainVars, relay, backlog, queue, events, workVars>>

Loaded ==
    /\ phase = "starting"
    /\ phase' = "handover"
    /\ UNCHANGED <<cur, counts, drain, relay, backlog, early, sock, queue, events, workVars>>

\* The handover channel closes once every startup thread has finished.
HandoverDone ==
    /\ phase = "handover"
    /\ \A c \in Clients : sock[c].at \notin {"greeting", "startup"}
    /\ phase' = "next"
    /\ UNCHANGED <<cur, counts, drain, relay, backlog, early, sock, queue, events, workVars>>

-----------------------------------------------------------------------------
(* The main thread: one client at a time, those handed over first *)

Serving(c) ==
    /\ cur' = c
    /\ counts' = [cancels |-> 0, aborteds |-> 0]

ServeEarly ==
    /\ phase = "next"
    /\ early # <<>>
    /\ Serving(Head(early))
    /\ early' = Tail(early)
    /\ sock' = [sock EXCEPT ![Head(early)].at = "served"]
    /\ relay' = TRUE
    /\ phase' = "forward"
    /\ UNCHANGED <<drain, backlog, queue, events, workVars>>

Accept ==
    /\ phase = "next"
    /\ early = <<>>
    /\ backlog # <<>>
    /\ Serving(Head(backlog))
    /\ backlog' = Tail(backlog)
    /\ sock' = [sock EXCEPT ![Head(backlog)].at = "served"]
    /\ phase' = "greet"
    /\ UNCHANGED <<drain, relay, early, queue, events, workVars>>

\* serve: handshake, Ready, then the relay starts. A failure skips to the reset.
ServeHandshake ==
    /\ phase = "greet"
    /\ \/ /\ Greets(cur) /\ sock[cur].peer
          /\ sock' = [sock EXCEPT ![cur].in = Tail(@),
                                  ![cur].out = @ \o <<Event("Hello", <<>>), Event("Ready", <<>>)>>]
          /\ relay' = TRUE
          /\ phase' = "forward"
       \/ /\ \/ Refused(cur)
             \/ ~HasFrame(cur) /\ Ended(cur)
             \/ Greets(cur) /\ ~sock[cur].peer /\ Ended(cur)
          /\ phase' = "join"
          /\ UNCHANGED relay
    /\ UNCHANGED <<cur, counts, drain, backlog, early, queue, events, workVars>>

\* forward_client_frames: one frame to the worker. A second Hello ends it.
Forward ==
    /\ phase = "forward"
    /\ HasFrame(cur)
    /\ LET f == Head(sock[cur].in) IN
       IF f.cmd = "Hello"
       THEN phase' = "join" /\ UNCHANGED <<counts, queue>>
       ELSE /\ queue' = Append(queue, [from |-> cur, frame |-> f])
            /\ counts' = IF f.cmd = "Cancel" THEN [counts EXCEPT !.cancels = @ + 1] ELSE counts
            /\ UNCHANGED phase
    /\ sock' = [sock EXCEPT ![cur].in = Tail(@)]
    /\ UNCHANGED <<cur, drain, relay, backlog, early, events, workVars>>

\* mutant: a silent client is never dropped
ForwardWaits ==
    /\ phase = "forward"
    /\ AtEnd(cur)
    /\ phase' = "join"
    /\ UNCHANGED <<cur, counts, drain, relay, backlog, early, sock, queue, events, workVars>>

\* The client is gone, or silent for SERVE_IDLE_TIMEOUT.
ForwardEnds ==
    /\ phase = "forward"
    /\ ~HasFrame(cur)
    /\ phase' = "join"
    /\ UNCHANGED <<cur, counts, drain, relay, backlog, early, sock, queue, events, workVars>>

\* finish_connection: once the relay has ended, the reset's Cancel goes out.
BeginReset ==
    /\ phase = "join"
    /\ ~relay
    /\ queue' = Append(queue, [from |-> Nobody, frame |-> ResetFrame])
    /\ drain' = counts.cancels - counts.aborteds + 1
    /\ phase' = "reset"
    /\ UNCHANGED <<cur, counts, relay, backlog, early, sock, events, workVars>>

\* reset_worker: everything up to the barrier belonged to the last client.
ResetDrains ==
    /\ phase = "reset"
    /\ events # <<>>
    /\ events' = Tail(events)
    /\ drain' = IF Head(events).event = "Aborted" THEN drain - 1 ELSE drain
    /\ IF drain' = 0
       THEN phase' = "next" /\ cur' = Nobody /\ Ended(cur)
       ELSE UNCHANGED <<phase, cur, sock>>
    /\ UNCHANGED <<counts, relay, backlog, early, queue, workVars>>

-----------------------------------------------------------------------------
(* The relay thread *)

\* mutant: an Aborted is counted only once it is written
RelayEventCountsWritten ==
    /\ relay /\ phase # "exited"
    /\ events # <<>>
    /\ LET e == Head(events) IN
       \/ /\ sock[cur].peer
          /\ counts' = IF e.event = "Aborted" THEN [counts EXCEPT !.aborteds = @ + 1] ELSE counts
          /\ sock' = [sock EXCEPT ![cur].out = Append(@, Event(e.event, e.text))]
          /\ UNCHANGED relay
       \/ relay' = FALSE /\ UNCHANGED <<sock, counts>>
    /\ events' = Tail(events)
    /\ UNCHANGED <<phase, cur, drain, backlog, early, queue, workVars>>

\* An event to the client's socket; a failed write ends the relay, while the
\* main thread goes on forwarding.
RelayEvent ==
    /\ relay /\ phase # "exited"
    /\ events # <<>>
    /\ LET e == Head(events) IN
       /\ counts' = IF e.event = "Aborted" THEN [counts EXCEPT !.aborteds = @ + 1] ELSE counts
       /\ \/ /\ sock[cur].peer
             /\ sock' = [sock EXCEPT ![cur].out = Append(@, Event(e.event, e.text))]
             /\ UNCHANGED relay
          \* the client left, or has not read for SERVE_WRITE_TIMEOUT
          \/ relay' = FALSE /\ UNCHANGED sock
    /\ events' = Tail(events)
    /\ UNCHANGED <<phase, cur, drain, backlog, early, queue, workVars>>

\* Nothing to relay for RELAY_POLL after the connection ended.
RelayEnds ==
    /\ relay
    /\ phase = "join"
    /\ events = <<>>
    /\ relay' = FALSE
    /\ UNCHANGED <<mainVars, backlog, early, sock, queue, events, workVars>>

-----------------------------------------------------------------------------
(* The worker thread *)

Works(cmds) ==
    /\ phase # "exited"
    /\ queue # <<>>
    /\ Head(queue).frame.cmd \in cmds
    /\ queue' = Tail(queue)
    /\ UNCHANGED <<mainVars, relay, backlog, early, sock>>

Emits(e, text) == events' = Append(events, [for |-> Head(queue).from, event |-> e, text |-> text])

WorkerStart ==
    /\ Works({"Start", "QuietStart"})
    /\ worker' = [EmptySession EXCEPT !.active = TRUE,
                                      !.quiet = Head(queue).frame.cmd = "QuietStart"]
    /\ UNCHANGED <<events, history>>

\* Transcribed, or failed: the session remembers its first error.
WorkerChunk ==
    /\ Works({"Chunk"})
    /\ LET piece == <<Head(queue).from, Head(queue).frame.k>> IN
       \/ /\ worker' = [worker EXCEPT !.parts = Append(@, piece)]
          /\ Emits("Partial", <<piece>>)
       \/ worker' = [worker EXCEPT !.failed = TRUE] /\ UNCHANGED events
    /\ UNCHANGED history

Flushing(stages) ==
    /\ phase # "exited"
    /\ queue # <<>> /\ Head(queue).frame.cmd = "Flush"
    /\ worker.stage \in stages

Rest == [worker EXCEPT !.parts = <<>>, !.failed = FALSE, !.active = FALSE, !.stage = "gather"]

\* A Flush with nothing to polish: an error, too little speech, a blank transcript.
WorkerFlush ==
    /\ Flushing({"gather"})
    /\ Works({"Flush"})
    /\ worker' = Rest
    /\ IF worker.failed THEN Emits("Error", <<>>) ELSE Emits("Final", <<>>)
    /\ UNCHANGED history

\* polish_session; languages the polisher does not know skip it.
WorkerPolishes ==
    /\ Flushing({"gather"})
    /\ ~worker.failed /\ worker.parts # <<>>
    /\ worker' = [worker EXCEPT !.stage = "polished"]
    /\ Emits("Polishing", <<>>)
    /\ UNCHANGED <<mainVars, relay, backlog, early, sock, queue, history>>

\* The entry is appended before the Final goes out; a failed append is logged.
WorkerRecords ==
    /\ Flushing({"gather", "polished"})
    /\ ~worker.failed /\ ~worker.quiet /\ worker.parts # <<>>
    /\ history' \in {history, Append(history, worker.parts)}
    /\ worker' = [worker EXCEPT !.stage = "recorded"]
    /\ UNCHANGED <<mainVars, relay, backlog, early, sock, queue, events>>

\* Polishing may leave nothing of the text.
WorkerAnswers ==
    /\ Flushing(IF worker.quiet THEN {"gather", "polished"} ELSE {"recorded"})
    /\ ~worker.failed
    /\ Works({"Flush"})
    /\ worker' = Rest
    /\ \E text \in {worker.parts, <<>>} : Emits("Final", text)
    /\ UNCHANGED history

\* mutant: a Cancel forgets the error but not the text
WorkerCancelKeepsParts ==
    /\ Works({"Cancel"})
    /\ worker' = [EmptySession EXCEPT !.parts = worker.parts]
    /\ Emits("Aborted", <<>>)
    /\ UNCHANGED history

\* mutant: a Cancel leaves the session's error behind
WorkerCancelKeepsError ==
    /\ Works({"Cancel"})
    /\ worker' = [EmptySession EXCEPT !.failed = worker.failed]
    /\ Emits("Aborted", <<>>)
    /\ UNCHANGED history

WorkerCancel ==
    /\ Works({"Cancel"})
    /\ worker' = EmptySession
    /\ Emits("Aborted", <<>>)
    /\ UNCHANGED history

-----------------------------------------------------------------------------
(* The end: a failed load, SIGTERM, a reset not acked in time, or the worker *)
(* idle with no session and nothing queued.                                  *)

Exits ==
    /\ phase' = "exited"
    /\ UNCHANGED <<cur, counts, drain, relay, backlog, early, sock, queue, events, workVars>>

Terminate == phase # "exited" /\ Exits
ResetTimesOut == phase = "reset" /\ events = <<>> /\ Exits
IdleExit ==
    /\ phase \notin {"starting", "exited"}
    /\ ~worker.active /\ queue = <<>>
    /\ Exits

-----------------------------------------------------------------------------

Init ==
    /\ phase = "starting" /\ cur = Nobody
    /\ counts = [cancels |-> 0, aborteds |-> 0] /\ drain = 0
    /\ relay = FALSE
    /\ backlog = <<>> /\ early = <<>>
    /\ sock = [c \in Clients |-> [at |-> "out", peer |-> FALSE, sent |-> 0,
                                  in |-> <<>>, out |-> <<>>]]
    /\ queue = <<>> /\ events = <<>>
    /\ worker = EmptySession
    /\ history = <<>>

Client  == \E c \in Clients :
               Connect(c) \/ Leave(c) \/ \E cmd \in ClientMsg : Submit(c, cmd)
Startup(c) == StartupHandshake(c) \/ StartupReads(c) \/ StartupEnds(c) \/ StartupReady(c)
Main    == \/ AcceptStartup \/ HandoverDone
           \/ ServeEarly \/ Accept \/ ServeHandshake \/ Forward \/ ForwardEnds
           \/ BeginReset \/ ResetDrains
Relay   == RelayEvent \/ RelayEnds
Worker  == \/ WorkerStart \/ WorkerChunk \/ WorkerCancel
           \/ WorkerFlush \/ WorkerPolishes \/ WorkerRecords \/ WorkerAnswers

Next == \/ Client \/ (\E c \in Clients : Startup(c)) \/ Main \/ Relay \/ Worker
        \/ Loaded \/ Terminate \/ ResetTimesOut \/ IdleExit

Spec == Init /\ [][Next]_vars

\* Every thread keeps running; the load may never finish and nothing makes a
\* client speak or leave.
Fairness ==
    /\ \A c \in Clients : WF_vars(Startup(c))
    /\ WF_vars(Main) /\ WF_vars(Relay) /\ WF_vars(Worker)
FairSpec == Spec /\ Fairness

-----------------------------------------------------------------------------
(* Properties *)

EventKind   == {"Hello", "Ready", "Partial", "Polishing", "Final", "Error", "Aborted"}
ToldEvent   == [event : EventKind, text : Seq(Piece)]
WorkerEvent == [for : Clients \cup {Nobody}, event : EventKind, text : Seq(Piece)]
Connection  == [at : {"out", "backlog", "greeting", "startup", "early", "served", "ended"},
                peer : BOOLEAN, sent : 0..MaxFrames, in : Seq(Frames), out : Seq(ToldEvent)]
Session     == [parts : Seq(Piece), failed : BOOLEAN, quiet : BOOLEAN, active : BOOLEAN,
                stage : {"gather", "polished", "recorded"}]

\* Every variable has its type: the main thread is at a client exactly while it
\* serves one, and the relay runs only then (daemon.rs run, serve_established).
TypeOK ==
    /\ phase \in {"starting", "handover", "next", "greet", "forward", "join", "reset", "exited"}
    /\ cur \in Clients \cup {Nobody}
    /\ phase \in {"greet", "forward", "join", "reset"} => cur # Nobody
    /\ phase \in {"starting", "handover", "next"} => cur = Nobody
    /\ counts \in [cancels : Nat, aborteds : Nat] /\ drain \in Int
    /\ relay \in BOOLEAN
    /\ relay => phase \in {"forward", "join", "exited"}
    /\ backlog \in Seq(Clients) /\ early \in Seq(Clients)
    /\ sock \in [Clients -> Connection]
    /\ queue \in Seq(Message) /\ events \in Seq(WorkerEvent)
    /\ worker \in Session
    /\ history \in Seq(Seq(Piece))

\* Between two clients nothing of the last one is left: no frame on its way to
\* the worker, no event on its way back, no text, no error, no session
\* (daemon.rs reset_worker: "so the next connection starts clean").
CleanStart ==
    phase \in {"next", "greet"} =>
        queue = <<>> /\ events = <<>> /\ worker = EmptySession

Count(s, Test(_)) == Cardinality({i \in DOMAIN s : Test(s[i])})
IsCancel(m)  == m.frame.cmd = "Cancel"
IsAborted(e) == e.event = "Aborted"
Unacked == Count(queue, IsCancel) + Count(events, IsAborted)

\* The counts of a connection always say how many Aborteds are still to come:
\* while it is served, and for what the reset has left to drain. So the barrier
\* is never taken early, the subtraction never saturates and the reset never
\* waits for an Aborted nobody owes (daemon.rs ServeCounts, reset_worker).
UnackedAreCounted ==
    /\ phase \in {"forward", "join"} => counts.cancels - counts.aborteds = Unacked
    /\ phase = "reset" => drain = Unacked

\* A history entry is of one client's speech, in the order it was spoken, and no
\* chunk is recorded twice (inference.rs Flush, daemon.rs reset_worker).
HistoryIsOneClients ==
    /\ \A i \in DOMAIN history : \A a, b \in DOMAIN history[i] :
          /\ history[i][a][1] = history[i][b][1]
          /\ a < b => history[i][a][2] < history[i][b][2]
    /\ \A i, j \in DOMAIN history : i < j =>
          \A a \in DOMAIN history[i], b \in DOMAIN history[j] : history[i][a] # history[j][b]

\* What each client sees is the abstract service: a session of its own behind a
\* connection of its own.
Closed(c) ==
    \/ phase = "exited" \/ sock[c].at = "ended"
    \/ sock[c].at # "out" /\ ~sock[c].peer
    \/ c = cur /\ ~relay /\ phase \in {"forward", "join", "reset"}
Served(c) == c = cur /\ relay /\ ~Closed(c)
ShutOff(c) == Served(c) /\ phase = "join"
Link(c) == IF Closed(c) THEN "closed"
           ELSE IF ShutOff(c) THEN "shut"
           ELSE IF sock[c].at = "out" THEN "out" ELSE "open"

FramesIn(q) == [i \in DOMAIN q |-> q[i].frame]
EventsIn(es) == [i \in DOMAIN es |-> Event(es[i].event, es[i].text)]

Up(c) == IF Closed(c) THEN <<>>
         ELSE IF ShutOff(c) THEN FramesIn(queue)
         ELSE IF Served(c) THEN FramesIn(queue) \o sock[c].in
         ELSE sock[c].in
Down(c)   == IF Served(c) THEN sock[c].out \o EventsIn(events) ELSE sock[c].out
Held(c)   == IF Served(c) THEN worker.parts ELSE <<>>
Failed(c) == Served(c) /\ worker.failed

Service == INSTANCE SessionService WITH
    link   <- [c \in Clients |-> Link(c)],
    up     <- [c \in Clients |-> Up(c)],
    down   <- [c \in Clients |-> Down(c)],
    held   <- [c \in Clients |-> Held(c)],
    failed <- [c \in Clients |-> Failed(c)]

\* The shared worker looks to every client like a session of its own: its frames
\* are handled in order, no event or text of another client reaches it, and it
\* gets one answer per Flush (the whole of daemon.rs and inference.rs).
Implements == Service!Spec

\* Once the models are loaded the startup threads all finish and serving
\* begins: no client that hangs can hold it up (daemon.rs HANDSHAKE_TIMEOUT,
\* STARTUP_WRITE_TIMEOUT, start_up).
HandoverCompletes == phase = "handover" ~> phase # "handover"

\* Every client that connected is served in its turn, or dropped, once the
\* models are loaded: none is kept out by one that went silent (daemon.rs
\* SERVE_IDLE_TIMEOUT).
EveryoneServed == \A c \in Clients :
    phase # "starting" /\ sock[c].at \in {"backlog", "early"}
        ~> sock[c].at \in {"served", "ended"} \/ phase = "exited"

=============================================================================
