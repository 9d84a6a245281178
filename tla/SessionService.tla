--------------------------- MODULE SessionService ---------------------------
(***************************************************************************)
(* What the daemon promises a client: its frames are handled in order, by  *)
(* a session of its own that starts empty, and it hears the events of its  *)
(* own frames in order, until the connection ends. Nothing of one client   *)
(* is ever seen by another. DaemonServe, with one worker shared by all     *)
(* clients, implements this.                                               *)
(***************************************************************************)
EXTENDS Integers, Sequences

CONSTANTS Clients, Frames

VARIABLES
    link,       \* per client: "out", "open", "shut" (no longer read) or "closed"
    up,         \* frames sent and not handled yet
    down,       \* events, oldest first
    held,       \* the session's transcribed chunks
    failed      \* whether a chunk of the session failed

vars == <<link, up, down, held, failed>>

Event(e, text) == [event |-> e, text |-> text]

Prefixes(s) == {SubSeq(s, 1, n) : n \in 0..Len(s)}

Says(c, es) == down' = [down EXCEPT ![c] = @ \o es]
Holds(c, text, bad) ==
    /\ held' = [held EXCEPT ![c] = text]
    /\ failed' = [failed EXCEPT ![c] = bad]

Init ==
    /\ link = [c \in Clients |-> "out"]
    /\ up = [c \in Clients |-> <<>>]
    /\ down = [c \in Clients |-> <<>>]
    /\ held = [c \in Clients |-> <<>>]
    /\ failed = [c \in Clients |-> FALSE]

Connect(c) ==
    /\ link[c] = "out"
    /\ link' = [link EXCEPT ![c] = "open"]
    /\ UNCHANGED <<up, down, held, failed>>

Submit(c, f) ==
    /\ link[c] = "open"
    /\ up' = [up EXCEPT ![c] = Append(@, f)]
    /\ UNCHANGED <<link, down, held, failed>>

\* Before it is served, a frame is answered by the daemon itself or not at all:
\* it reaches no session.
Reply == {<<>>, <<Event("Hello", <<>>)>>, <<Event("Hello", <<>>), Event("Ready", <<>>)>>,
          <<Event("Error", <<>>)>>}
Turn(c, es) ==
    /\ link[c] = "open"
    /\ up[c] # <<>>
    /\ up' = [up EXCEPT ![c] = Tail(@)]
    /\ Says(c, es)
    /\ UNCHANGED <<link, held, failed>>

BecomeReady(c) ==
    /\ link[c] = "open"
    /\ Says(c, <<Event("Ready", <<>>)>>)
    /\ UNCHANGED <<link, up, held, failed>>

HandleStart(c) == Holds(c, <<>>, FALSE) /\ UNCHANGED down

HandleChunk(c, f) ==
    \/ Holds(c, held[c], TRUE) /\ UNCHANGED down
    \/ /\ Holds(c, Append(held[c], <<c, f.k>>), failed[c])
       /\ Says(c, <<Event("Partial", <<<<c, f.k>>>>)>>)

\* One answer per Flush: an error, the session's whole text, or nothing when
\* there was too little speech or polishing left none of it.
HandleFlush(c) ==
    /\ Holds(c, <<>>, FALSE)
    /\ IF failed[c]
       THEN Says(c, <<Event("Error", <<>>)>>)
       ELSE \E text \in {held[c], <<>>} : Says(c, <<Event("Final", text)>>)

\* The session's text is being polished.
Progress(c) ==
    /\ up[c] # <<>> /\ Head(up[c]).cmd = "Flush"
    /\ held[c] # <<>> /\ ~failed[c]
    /\ Says(c, <<Event("Polishing", <<>>)>>)
    /\ UNCHANGED <<link, up, held, failed>>

HandleCancel(c) == Holds(c, <<>>, FALSE) /\ Says(c, <<Event("Aborted", <<>>)>>)

Handle(c) ==
    /\ link[c] \in {"open", "shut"}
    /\ up[c] # <<>>
    /\ up' = [up EXCEPT ![c] = Tail(@)]
    /\ LET f == Head(up[c]) IN
       \/ f.cmd \in {"Start", "QuietStart"} /\ HandleStart(c)
       \/ f.cmd = "Chunk" /\ HandleChunk(c, f)
       \/ f.cmd = "Flush" /\ HandleFlush(c)
       \/ f.cmd = "Cancel" /\ HandleCancel(c)
    /\ UNCHANGED link

\* The daemon stops reading this client: unread frames are lost.
Shut(c) ==
    /\ link[c] = "open"
    /\ link' = [link EXCEPT ![c] = "shut"]
    /\ \E s \in Prefixes(up[c]) : up' = [up EXCEPT ![c] = s]
    /\ UNCHANGED <<down, held, failed>>

\* Either end closes: the session is forgotten, undelivered events are lost. A
\* refused client may be told why.
Close(c) ==
    /\ link[c] # "closed"
    /\ link' = [link EXCEPT ![c] = "closed"]
    /\ up' = [up EXCEPT ![c] = <<>>]
    /\ \E s \in Prefixes(down[c]) \cup {Append(down[c], Event("Error", <<>>))} :
          down' = [down EXCEPT ![c] = s]
    /\ Holds(c, <<>>, FALSE)

\* The daemon exits: every client is closed at once.
Exit ==
    /\ link' = [c \in Clients |-> "closed"]
    /\ up' = [c \in Clients |-> <<>>]
    /\ DOMAIN down' = Clients
    /\ \A c \in Clients : down'[c] \in Prefixes(down[c])
    /\ held' = [c \in Clients |-> <<>>]
    /\ failed' = [c \in Clients |-> FALSE]

Next ==
    \/ Exit
    \/ \E c \in Clients :
          \/ Connect(c) \/ BecomeReady(c) \/ Handle(c) \/ Progress(c) \/ Shut(c) \/ Close(c)
          \/ \E f \in Frames : Submit(c, f)
          \/ \E es \in Reply : Turn(c, es)

Spec == Init /\ [][Next]_vars

=============================================================================
