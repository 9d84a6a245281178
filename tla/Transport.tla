------------------------------ MODULE Transport ------------------------------
(***************************************************************************)
(* The client's transport: the threads between a dictation and the daemon. *)
(*                                                                         *)
(*   control thread    presses and releases the hotkey, then blocks in     *)
(*                     DaemonClient::finish for the dictation's result     *)
(*   settings window   switches models, asks for reruns of a recording     *)
(*   transport thread  owns the connection, takes commands one at a time   *)
(*   reader threads    one per connection, live until their stream ends    *)
(*                                                                         *)
(* The threads share the FlushLedger (pending flushes, rerun routing, the  *)
(* connection epoch and the death mark). The daemon is the per-connection  *)
(* session service that DaemonServe models in full: frames are handled in  *)
(* order, and every Flush is answered once.                                *)
(*                                                                         *)
(* How a connection is made (backoff, spawning, handshake) is abstracted   *)
(* to "succeeds" or "fails".                                               *)
(***************************************************************************)
EXTENDS Integers, Sequences, FiniteSets, TLC

CONSTANTS
    NumDictations,   \* how many times the hotkey is pressed
    NumReruns,       \* how many reruns the settings window asks for
    SpokenChunks,    \* most chunks one dictation speaks
    ClipChunks,      \* chunks of a rerun's clip
    Models,          \* selectable model pairs
    NoModel,         \* connected_models = None
    MaxFaults        \* model switches, lost connections, failed connection
                     \* attempts and failed inferences, all together

ASSUME BoundsAssumption ==
    /\ NumDictations \in Nat
    /\ NumReruns \in Nat
    /\ SpokenChunks \in Nat
    /\ ClipChunks \in Nat
    /\ MaxFaults \in Nat

ASSUME ModelAssumption == NoModel \notin Models

VARIABLES
    ctl,            \* control thread: "idle", "recording" or "waiting" (finish)
    cur,            \* number of the dictation in flight, or of the last one
    spoken,         \* chunks the capture thread has sent for it
    stale,          \* DaemonClient.stale_results
    heard,          \* what finish returned, per dictation
    results,        \* channel results_tx -> results_rx
    inbox,          \* channel chunk_tx -> cmd_rx
    desired,        \* ModelSelectionControl
    replies,        \* what each rerun was answered
    tpc,            \* where the transport thread stands
    session,        \* TransportSession; "failed" is Active { start_failed: true }
    dropped,        \* dropped_chunks
    observed,       \* observed_models
    refresh,        \* model_refresh_pending
    reprocessing,   \* the AtomicBool a press checks
    run,            \* the rerun in progress: its id, pinned models, chunks sent
    pending,        \* FlushLedger.pending_flushes
    waiter,         \* ReprocessState.tx: the rerun it belongs to, or 0
    raw,            \* ReprocessState.raw_parts
    answers,        \* the armed rerun's own result channel
    net,            \* the connection, its epoch and every stream ever opened
    seen            \* history: what the properties need to remember

control   == <<ctl, cur, spoken, stale, heard>>
settings  == <<desired, replies>>
thread    == <<tpc, session, dropped, observed, refresh, reprocessing, run>>
ledger    == <<pending, waiter, raw, answers>>
vars == <<control, settings, thread, ledger, results, inbox, net, seen>>

-----------------------------------------------------------------------------
(* Owners, frames, results *)

Dictations == 1..NumDictations
Reruns     == 1..NumReruns

\* Whose speech a chunk, a Flush or an answer is: a dictation's or a rerun's.
Owner == [type : {"dictation"}, id : Dictations]
             \cup [type : {"rerun"}, id : Reruns]
Dictation(d) == [type |-> "dictation", id |-> d]
Rerun(r)     == [type |-> "rerun", id |-> r]


\* A lost connection fails whatever was owed on it, without saying whose.
Lost == [type |-> "lost", id |-> 0]

Piece  == [of : Owner, k : Nat]
Text   == Seq(Piece)
Result == [kind : {"final"}, of : Owner, text : Text]
              \cup [kind : {"failed"}, of : Owner \cup {Lost}, text : Text]
Failed(o) == [kind |-> "failed", of |-> o, text |-> <<>>]

\* ReprocessResult, a rerun's one answer: the owner of the text it carries and the raw transcripts.
Reply == [status : {"none", "asked", "refused", "answered"}, of : Owner, raw : Text]

DictationCommand == [cmd : {"Start", "Chunk", "Flush", "Cancel"},
                     of : [type : {"dictation"}, id : Dictations], k : Nat]
RerunCommand == [cmd : {"Reprocess"}, of : [type : {"rerun"}, id : Reruns], k : Nat]
Command == DictationCommand \cup RerunCommand
Cmd(c, o, k) == [cmd |-> c, of |-> o, k |-> k]

ClientFrame == [cmd : {"Start", "Chunk", "Flush", "Cancel"}, of : Owner, k : Nat]
DaemonFrame == [msg : {"Partial", "Final", "Error"}, of : Owner, text : Text]

\* One generation of the connection. It has a socket (what either end has
\* written, whether the daemon still serves it, the speech its session holds)
\* and a reader thread; the generation drop_conn opens has neither.
Link == [up : Seq(ClientFrame), down : Seq(DaemonFrame), open : BOOLEAN,
         parts : Text, reader : {"reading", "marking", "checking", "failing", "done"}]
FreshLink == [up |-> <<>>, down |-> <<>>, open |-> TRUE,
              parts |-> <<>>, reader |-> "reading"]
NoStream == [FreshLink EXCEPT !.open = FALSE, !.reader = "done"]
Closed(l) == [l EXCEPT !.open = FALSE, !.up = <<>>, !.parts = <<>>]

-----------------------------------------------------------------------------
(* The connection: every operator takes the network state and returns the  *)
(* next one, or the set of possible outcomes [net, ok].                    *)

\* The connection held (0 is none) with its models, the death mark, and every
\* generation so far.
Net == [conn : Nat, mark : Nat, models : Models \cup {NoModel},
        faults : 0..MaxFaults, links : Seq(Link)]

\* bump_epoch numbers the generations: links[c] is the one with epoch c.
Epoch(n) == Len(n.links)

\* drop_conn: a new generation, the stream shut down, no models.
Dropped(n) ==
    LET left == IF n.conn = 0 THEN n.links ELSE [n.links EXCEPT ![n.conn] = Closed(@)]
    IN  [n EXCEPT !.conn = 0, !.models = NoModel, !.links = Append(left, NoStream)]

\* connect + adopt: a new generation with a reader of its own.
Connected(n) ==
    [n EXCEPT !.conn = Epoch(n) + 1, !.models = desired, !.links = Append(@, FreshLink)]

\* take_conn_dead: the mark counts only for the current generation.
DeathMarked(n) == n.mark # 0 /\ n.mark - 1 = Epoch(n)

\* ensure_connected: a live connection, a reconnect, or a failed attempt.
EnsureConnected(n) ==
    LET swept == IF n.conn = 0 THEN n
                 ELSE IF DeathMarked(n) THEN Dropped([n EXCEPT !.mark = 0])
                 ELSE [n EXCEPT !.mark = 0]
        tried == {[net |-> Connected(swept), ok |-> TRUE]}
        given == {[net |-> [swept EXCEPT !.faults = @ + 1], ok |-> FALSE]}
    IN  IF swept.conn # 0 THEN {[net |-> swept, ok |-> TRUE]}
        ELSE tried \cup IF swept.faults < MaxFaults THEN given ELSE {}

\* send: connect if needed, then write; a write to a closed stream drops it.
Written(n, f) ==
    IF n.links[n.conn].open
    THEN [net |-> [n EXCEPT !.links[n.conn].up = Append(@, f)], ok |-> TRUE]
    ELSE [net |-> Dropped(n), ok |-> FALSE]

Send(n, f) ==
    {IF a.ok THEN Written(a.net, f) ELSE a : a \in EnsureConnected(n)}

\* send_start: a failed first attempt is retried at once, past the backoff.
SendStart(n, f) ==
    UNION {IF s.ok THEN {s} ELSE Send(s.net, f) : s \in Send(n, f)}

\* An environment event that uses up one fault.
Fault ==
    /\ net.faults < MaxFaults
    /\ net' = [net EXCEPT !.faults = @ + 1]

-----------------------------------------------------------------------------
(* The control thread and the capture thread feeding its chunks *)

\* press: refused while a rerun owns the daemon.
Press ==
    /\ ctl = "idle"
    /\ cur < NumDictations
    /\ ~reprocessing
    /\ ctl' = "recording"
    /\ cur' = cur + 1
    /\ spoken' = 0
    /\ inbox' = Append(inbox, Cmd("Start", Dictation(cur'), 0))
    /\ UNCHANGED <<stale, heard, settings, thread, ledger, results, net, seen>>

Speak ==
    /\ ctl = "recording"
    /\ spoken < SpokenChunks
    /\ spoken' = spoken + 1
    /\ inbox' = Append(inbox, Cmd("Chunk", Dictation(cur), spoken'))
    /\ UNCHANGED <<ctl, cur, stale, heard, settings, thread, ledger, results, net, seen>>

\* release: stop queues the Flush, then finish blocks.
Release ==
    /\ ctl = "recording"
    /\ ctl' = "waiting"
    /\ inbox' = Append(inbox, Cmd("Flush", Dictation(cur), 0))
    /\ UNCHANGED <<cur, spoken, stale, heard, settings, thread, ledger, results, net, seen>>

CancelDictation ==
    /\ ctl = "recording"
    /\ ctl' = "idle"
    /\ inbox' = Append(inbox, Cmd("Cancel", Dictation(cur), 0))
    /\ UNCHANGED <<cur, spoken, stale, heard, settings, thread, ledger, results, net, seen>>

\* Mutant of FinishReceives: stale results are returned as they come.
FinishIgnoresStale ==
    /\ ctl = "waiting"
    /\ results # <<>>
    /\ results' = Tail(results)
    /\ heard' = [heard EXCEPT ![cur] = {Head(results)}]
    /\ ctl' = "idle"
    /\ UNCHANGED <<cur, spoken, stale, settings, thread, ledger, inbox, net, seen>>

\* finish: a result arrives; stale ones are discarded first.
FinishReceives ==
    /\ ctl = "waiting"
    /\ results # <<>>
    /\ results' = Tail(results)
    /\ IF stale > 0
       THEN stale' = stale - 1 /\ UNCHANGED <<ctl, heard>>
       ELSE /\ heard' = [heard EXCEPT ![cur] = {Head(results)}]
            /\ ctl' = "idle"
            /\ UNCHANGED stale
    /\ UNCHANGED <<cur, spoken, settings, thread, ledger, inbox, net, seen>>

\* Mutant of FinishTimesOut: the result still owed is forgotten.
FinishForgetsOwed ==
    /\ ctl = "waiting"
    /\ results = <<>>
    /\ ctl' = "idle"
    /\ UNCHANGED <<cur, spoken, stale, heard, settings, thread, ledger, results, inbox, net, seen>>

\* finish: FINISH_TIMEOUT passes; its result is still owed. The daemon may be
\* slow at any time, so timeouts use up no fault.
FinishTimesOut ==
    /\ ctl = "waiting"
    /\ results = <<>>
    /\ stale' = stale + 1
    /\ ctl' = "idle"
    /\ UNCHANGED <<cur, spoken, heard, settings, thread, ledger, results, inbox, net, seen>>

-----------------------------------------------------------------------------
(* The settings window *)

SwitchModels(m) ==
    /\ m # desired
    /\ Fault
    /\ desired' = m
    /\ UNCHANGED <<control, replies, thread, ledger, results, inbox, seen>>

RequestRerun(r) ==
    /\ replies[r].status = "none"
    /\ replies' = [replies EXCEPT ![r].status = "asked"]
    /\ inbox' = Append(inbox, Cmd("Reprocess", Rerun(r), 0))
    /\ UNCHANGED <<control, desired, thread, ledger, results, net, seen>>

-----------------------------------------------------------------------------
(* The transport thread: commands *)

\* run, before the loop: one attempt to connect.
Boot ==
    /\ tpc = "boot"
    /\ \E a \in EnsureConnected(net) : net' = a.net
    /\ tpc' = "loop"
    /\ UNCHANGED <<control, settings, session, dropped, observed, refresh, reprocessing, run,
                   ledger, results, inbox, seen>>

\* After a command the loop refreshes the models; "tail" is that step, taken
\* before the next command whenever it has something to do.
AfterCommand(ref) == IF ref \/ desired # observed THEN "tail" ELSE "loop"

Take(c) ==
    /\ tpc = "loop"
    /\ inbox # <<>>
    /\ Head(inbox).cmd = c
    /\ inbox' = Tail(inbox)

HandleStart ==
    /\ Take("Start")
    /\ LET stay == net.models = desired
           n == IF stay THEN net ELSE Dropped(net)
       IN  \E s \in SendStart(n, Head(inbox)) :
              /\ net' = s.net
              /\ session' = IF s.ok THEN "active" ELSE "failed"
    /\ dropped' = 0
    /\ tpc' = AfterCommand(refresh)
    /\ UNCHANGED <<control, settings, observed, refresh, reprocessing, run, ledger, results, seen>>

LoseChunk(o) ==
    /\ dropped' = dropped + 1
    /\ seen' = [seen EXCEPT !.lost = @ \cup {o.id}]

\* History: f went out, over another connection than the chunks before it when
\* ensure_connected found that one dead and replaced it.
Carried(f) ==
    seen' = IF net'.conn = net.conn \/ f.k = 1 THEN seen ELSE [seen EXCEPT !.cut = @ \cup {f.of.id}]

HandleChunk ==
    /\ Take("Chunk")
    /\ IF session = "failed"
       THEN LoseChunk(Head(inbox).of) /\ UNCHANGED net
       ELSE \E s \in Send(net, Head(inbox)) :
              /\ net' = s.net
              /\ IF s.ok THEN Carried(Head(inbox)) /\ UNCHANGED dropped
                 ELSE LoseChunk(Head(inbox).of)
    /\ tpc' = AfterCommand(refresh)
    /\ UNCHANGED <<control, settings, session, observed, refresh, reprocessing, run, ledger, results>>

HandleCancel ==
    /\ Take("Cancel")
    /\ dropped' = 0
    /\ IF session = "failed"
       THEN UNCHANGED net
       ELSE \E s \in Send(net, Head(inbox)) : net' = s.net
    /\ session' = "idle"
    /\ tpc' = AfterCommand(refresh)
    /\ UNCHANGED <<control, settings, observed, refresh, reprocessing, run, ledger, results, seen>>

\* fail_dictation: straight into the results, no counter touched.
FailDictation(o) == results' = Append(results, Failed(o))

\* flush, the ways that never reach the daemon.
FlushFails ==
    /\ Take("Flush")
    /\ LET o == Head(inbox).of IN
       \/ /\ session = "failed"
          /\ dropped' = 0
          /\ FailDictation(o)
          /\ UNCHANGED net
       \/ /\ session # "failed" /\ dropped > 0
          /\ dropped' = 0
          /\ \E s \in Send(net, Cmd("Cancel", o, 0)) : net' = s.net
          /\ FailDictation(o)
       \/ /\ session # "failed" /\ dropped = 0
          /\ \E s \in Send(net, Head(inbox)) : ~s.ok /\ net' = s.net
          /\ FailDictation(o)
          /\ UNCHANGED dropped
    /\ session' = "idle"
    /\ tpc' = AfterCommand(refresh)
    /\ UNCHANGED <<control, settings, observed, refresh, reprocessing, run, ledger, seen>>

\* Mutant of FlushWritten: lost chunks do not turn the Flush into a Cancel.
FlushDespiteLoss ==
    /\ Take("Flush")
    /\ session # "failed"
    /\ \E s \in Send(net, Head(inbox)) : s.ok /\ net' = s.net
    /\ Carried(Head(inbox))
    /\ tpc' = "flushed"
    /\ UNCHANGED <<control, settings, session, dropped, observed, refresh, reprocessing, run, ledger, results>>

\* flush, written: the frame is on the wire, the ledger does not count it yet.
FlushWritten ==
    /\ Take("Flush")
    /\ session # "failed"
    /\ dropped = 0
    /\ \E s \in Send(net, Head(inbox)) : s.ok /\ net' = s.net
    /\ Carried(Head(inbox))
    /\ tpc' = "flushed"
    /\ UNCHANGED <<control, settings, session, dropped, observed, refresh, reprocessing, run, ledger, results>>

BeginFlush ==
    /\ tpc = "flushed"
    /\ pending' = pending + 1
    /\ session' = "idle"
    /\ tpc' = AfterCommand(refresh)
    /\ UNCHANGED <<control, settings, dropped, observed, refresh, reprocessing, run,
                   waiter, raw, answers, results, inbox, net, seen>>

\* refresh_models_if_idle: after every command, and on the idle poll.
RefreshModels ==
    /\ tpc = "tail" \/ (tpc = "loop" /\ inbox = <<>>)
    /\ observed' = desired
    /\ IF ~refresh /\ desired = observed
       THEN UNCHANGED <<refresh, net>>
       ELSE IF session # "idle" \/ pending > 0
       THEN refresh' = TRUE /\ UNCHANGED net
       ELSE \E a \in EnsureConnected(IF net.models = desired THEN net ELSE Dropped(net)) :
              /\ net' = a.net
              /\ refresh' = ~(a.ok /\ a.net.models = desired)
    /\ tpc' = "loop"
    /\ UNCHANGED <<control, settings, session, dropped, reprocessing, run, ledger, results, inbox, seen>>

-----------------------------------------------------------------------------
(* The transport thread: a rerun, driven inline while the loop waits *)

\* Where the thread stands while it drives one.
Drive == {"rerunStart", "rerunChunks", "rerunFlush", "rerunWait"}

NoRun == [id |-> 0, pinned |-> NoModel, sent |-> 0]
Answered(r, status, o, parts) ==
    replies' = [replies EXCEPT ![r] = [status |-> status, of |-> o, raw |-> parts]]

\* models_changed, of the models wanted now, once observe_model_selection has looked.
ModelsChanged == refresh \/ desired # observed \/ net.models \notin {NoModel, desired}

RefuseRerun ==
    /\ Take("Reprocess")
    /\ \/ /\ reprocessing \/ session # "idle" \/ pending > 0
          /\ UNCHANGED <<observed, refresh>>
       \/ /\ ~reprocessing /\ session = "idle" /\ pending = 0
          /\ refresh' = (refresh \/ desired # observed)
          /\ observed' = desired
          /\ ModelsChanged
    /\ Answered(Head(inbox).of.id, "refused", Head(inbox).of, <<>>)
    /\ tpc' = IF refresh' \/ desired # observed' THEN "tail" ELSE "loop"
    /\ UNCHANGED <<control, desired, session, dropped, reprocessing, run, ledger, results, net, seen>>

\* Mutant of BeginRerun: a Flush still owed to a dictation does not refuse it.
BeginRerunOverPending ==
    /\ Take("Reprocess")
    /\ ~reprocessing /\ session = "idle"
    /\ ~ModelsChanged
    /\ session' = "reprocessing"
    /\ reprocessing' = TRUE
    /\ run' = [id |-> Head(inbox).of.id, pinned |-> desired, sent |-> 0]
    /\ tpc' = "rerunStart"
    /\ UNCHANGED <<control, settings, dropped, observed, refresh, ledger, results, net, seen>>

BeginRerun ==
    /\ Take("Reprocess")
    /\ ~reprocessing /\ session = "idle" /\ pending = 0
    /\ ~ModelsChanged
    /\ session' = "reprocessing"
    /\ reprocessing' = TRUE
    /\ run' = [id |-> Head(inbox).of.id, pinned |-> desired, sent |-> 0]
    /\ tpc' = "rerunStart"
    /\ UNCHANGED <<control, settings, dropped, observed, refresh, ledger, results, net, seen>>

\* The answer to o's Flush is still to come on some stream.
AnswerComing(o) ==
    \E c \in DOMAIN net.links :
        \/ \E i \in 1..Len(net.links[c].up) :
              net.links[c].up[i].cmd = "Flush" /\ net.links[c].up[i].of = o
        \/ \E i \in 1..Len(net.links[c].down) :
              net.links[c].down[i].msg # "Partial" /\ net.links[c].down[i].of = o

\* clear_reprocess: what comes for this rerun from now on is nobody's.
ClearReprocess == waiter' = 0 /\ answers' = <<>>

\* Mutant of EndRerun: the session is not handed back.
EndRerunKeepsSession(status, o, parts) ==
    /\ seen' = [seen EXCEPT !.abandoned = @ \/ AnswerComing(Rerun(run.id))]
    /\ reprocessing' = FALSE
    /\ ClearReprocess
    /\ UNCHANGED session
    /\ run' = NoRun
    /\ tpc' = AfterCommand(refresh)
    /\ Answered(run.id, status, o, parts)

\* end_reprocess and the reply: a raced press keeps its failure state. Nothing
\* is sent to the daemon, whose answer may still be on its way.
EndRerun(status, o, parts) ==
    /\ seen' = [seen EXCEPT !.abandoned = @ \/ AnswerComing(Rerun(run.id))]
    /\ reprocessing' = FALSE
    /\ ClearReprocess
    /\ session' = IF session = "reprocessing" THEN "idle" ELSE session
    /\ run' = NoRun
    /\ tpc' = AfterCommand(refresh)
    /\ Answered(run.id, status, o, parts)

GiveUp == EndRerun("refused", Rerun(run.id), <<>>)

\* The Start is retried for REPROCESS_START_WAIT; then the models are rechecked.
RerunStart ==
    /\ tpc = "rerunStart"
    /\ \E s \in Send(net, Cmd("Start", Rerun(run.id), 0)) :
          /\ net' = s.net
          /\ \/ /\ s.ok /\ desired = run.pinned
                /\ tpc' = "rerunChunks"
                /\ UNCHANGED <<session, reprocessing, run, waiter, answers, replies, seen>>
             \/ /\ ~s.ok
                /\ UNCHANGED <<tpc, session, reprocessing, run, waiter, answers, replies, seen>>
             \/ /\ ~s.ok \/ desired # run.pinned
                /\ GiveUp
    /\ UNCHANGED <<control, desired, dropped, observed, refresh, pending, raw, results, inbox>>

RerunChunk ==
    /\ tpc = "rerunChunks"
    /\ run.sent < ClipChunks
    /\ \E s \in Send(net, Cmd("Chunk", Rerun(run.id), run.sent + 1)) :
          /\ net' = s.net
          /\ IF s.ok
             THEN /\ run' = [run EXCEPT !.sent = @ + 1]
                  /\ UNCHANGED <<tpc, session, reprocessing, waiter, answers, replies, seen>>
             ELSE GiveUp
    /\ UNCHANGED <<control, desired, dropped, observed, refresh, pending, raw, results, inbox>>

\* begin_reprocess_flush: routing is armed before the Flush is written.
RerunArm ==
    /\ tpc = "rerunChunks"
    /\ run.sent = ClipChunks
    /\ waiter' = run.id
    /\ raw' = <<>>
    /\ answers' = <<>>
    /\ tpc' = "rerunFlush"
    /\ UNCHANGED <<control, settings, session, dropped, observed, refresh, reprocessing, run,
                   pending, results, inbox, net, seen>>

RerunFlush ==
    /\ tpc = "rerunFlush"
    /\ \E s \in Send(net, Cmd("Flush", Rerun(run.id), 0)) :
          /\ net' = s.net
          /\ IF s.ok
             THEN /\ tpc' = "rerunWait"
                  /\ UNCHANGED <<session, reprocessing, run, waiter, answers, replies, seen>>
             ELSE GiveUp
    /\ UNCHANGED <<control, desired, dropped, observed, refresh, pending, raw, results, inbox>>

\* handle_during_reprocess: a raced press is failed fast.
RerunDrains ==
    /\ tpc = "rerunWait"
    /\ inbox # <<>>
    /\ inbox' = Tail(inbox)
    /\ LET m == Head(inbox) IN
       \/ /\ m.cmd = "Start"
          /\ session' = "failed"
          /\ UNCHANGED <<results, replies, seen>>
       \/ /\ m.cmd = "Flush" /\ session = "failed"
          /\ FailDictation(m.of)
          /\ session' = "idle"
          /\ UNCHANGED <<replies, seen>>
       \/ /\ m.cmd = "Cancel"
          /\ session' = "idle"
          /\ UNCHANGED <<results, replies, seen>>
       \/ /\ m.cmd = "Reprocess"
          /\ Answered(m.of.id, "refused", m.of, <<>>)
          /\ UNCHANGED <<results, session, seen>>
       \/ /\ m.cmd = "Chunk" \/ (m.cmd = "Flush" /\ session # "failed")
          /\ seen' = [seen EXCEPT !.lost = @ \cup {m.of.id}]
          /\ UNCHANGED <<results, session, replies>>
    /\ UNCHANGED <<control, desired, tpc, dropped, observed, refresh, reprocessing, run, ledger, net>>

\* drain_during_reprocess takes all there is.
Drained == inbox = <<>>

\* take_reprocess_raw: the transcripts collected since the rerun was armed.
TakeRaw == raw' = <<>>

\* The answer arrives: the inbox is drained and the models rechecked first.
RerunAnswered ==
    /\ tpc = "rerunWait"
    /\ answers # <<>>
    /\ Drained
    /\ IF desired = run.pinned /\ Head(answers).kind = "final"
       THEN EndRerun("answered", Head(answers).of, raw) /\ TakeRaw
       ELSE GiveUp /\ UNCHANGED raw
    /\ UNCHANGED <<control, desired, dropped, observed, refresh, pending, results, inbox, net>>

\* Mutant of RerunAbandoned: no deadline, only the models are watched.
RerunWaitsForever ==
    /\ tpc = "rerunWait"
    /\ answers = <<>>
    /\ desired # run.pinned
    /\ GiveUp
    /\ UNCHANGED <<control, desired, dropped, observed, refresh, pending, raw, results, inbox, net>>

\* No answer yet, and the deadline passed or the models changed.
RerunAbandoned ==
    /\ tpc = "rerunWait"
    /\ answers = <<>>
    /\ GiveUp
    /\ UNCHANGED <<control, desired, dropped, observed, refresh, pending, raw, results, inbox, net>>

-----------------------------------------------------------------------------
(* Reader threads: c is the connection's epoch, passed to spawn_reader *)

ReaderAt(c, at) == c \in DOMAIN net.links /\ net.links[c].reader = at

\* A Partial goes to an armed rerun, otherwise to the pill.
ReadPartial(c) ==
    /\ ReaderAt(c, "reading")
    /\ net.links[c].down # <<>>
    /\ LET f == Head(net.links[c].down) IN
          /\ f.msg = "Partial"
          /\ raw' = IF waiter # 0 THEN raw \o f.text ELSE raw
    /\ net' = [net EXCEPT !.links[c].down = Tail(@)]
    /\ UNCHANGED <<control, settings, thread, pending, waiter, answers, results, inbox, seen>>

\* deliver: an armed rerun takes the answer, else the oldest pending flush,
\* else nobody.
Deliver(res) ==
    IF waiter # 0
    THEN answers' = Append(answers, res) /\ UNCHANGED <<pending, results>>
    ELSE IF pending > 0
    THEN /\ pending' = pending - 1
         /\ results' = Append(results, res)
         /\ UNCHANGED answers
    ELSE UNCHANGED <<pending, results, answers>>

ReadAnswer(c) ==
    /\ ReaderAt(c, "reading")
    /\ net.links[c].down # <<>>
    /\ LET f == Head(net.links[c].down) IN
          /\ f.msg \in {"Final", "Error"}
          /\ Deliver([kind |-> IF f.msg = "Final" THEN "final" ELSE "failed",
                      of |-> f.of, text |-> f.text])
    /\ net' = [net EXCEPT !.links[c].down = Tail(@)]
    /\ seen' = [seen EXCEPT !.superseded = @ \/ c # Epoch(net)]
    /\ UNCHANGED <<control, settings, thread, waiter, raw, inbox>>

\* The stream ends: the daemon's end is gone and everything it wrote is read,
\* or the transport thread shut it down. mark_conn_dead checks the epoch first.
ReadEnd(c) ==
    /\ ReaderAt(c, "reading")
    /\ c # net.conn \/ (~net.links[c].open /\ net.links[c].down = <<>>)
    /\ net' = [net EXCEPT !.links[c].down = <<>>,
                          !.links[c].reader = IF c = Epoch(net) THEN "marking" ELSE "checking"]
    /\ UNCHANGED <<control, settings, thread, ledger, results, inbox, seen>>

\* Mutant of MarkDead: the mark carries the generation of the moment.
MarkCurrentDead(c) ==
    /\ ReaderAt(c, "marking")
    /\ net' = [net EXCEPT !.mark = Epoch(net) + 1, !.links[c].reader = "checking"]
    /\ UNCHANGED <<control, settings, thread, ledger, results, inbox, seen>>

\* mark_conn_dead: the store.
MarkDead(c) ==
    /\ ReaderAt(c, "marking")
    /\ net' = [net EXCEPT !.mark = c + 1, !.links[c].reader = "checking"]
    /\ UNCHANGED <<control, settings, thread, ledger, results, inbox, seen>>

\* fail_pending: a superseded reader goes quiet.
CheckEpoch(c) ==
    /\ ReaderAt(c, "checking")
    /\ net' = [net EXCEPT !.links[c].reader = IF c = Epoch(net) THEN "failing" ELSE "done"]
    /\ UNCHANGED <<control, settings, thread, ledger, results, inbox, seen>>

\* fail_pending: the rerun waiter and every pending flush are answered as lost.
FailOwed(c) ==
    /\ ReaderAt(c, "failing")
    /\ answers' = IF waiter # 0 THEN Append(answers, Failed(Lost)) ELSE answers
    /\ waiter' = 0
    /\ results' = results \o [i \in 1..pending |-> Failed(Lost)]
    /\ pending' = 0
    /\ net' = [net EXCEPT !.links[c].reader = "done"]
    /\ seen' = [seen EXCEPT !.superseded = @ \/ c # Epoch(net)]
    /\ UNCHANGED <<control, settings, thread, raw, inbox>>

-----------------------------------------------------------------------------
(* The daemon at the other end of connection c: frames in order, one answer *)
(* per Flush, then the session's speech is gone. An ASR failure answers the  *)
(* Flush with an Error.                                                      *)

Said(l, f, msg, text) == Append(l.down, [msg |-> msg, of |-> f.of, text |-> text])

DaemonHandles(c) ==
    /\ c \in DOMAIN net.links
    /\ net.links[c].open
    /\ net.links[c].up # <<>>
    /\ LET l == net.links[c]
           f == Head(l.up)
           piece == <<[of |-> f.of, k |-> f.k]>>
           left == [l EXCEPT !.up = Tail(@)]
           next == CASE f.cmd = "Chunk" -> [left EXCEPT !.parts = @ \o piece,
                                                        !.down = Said(l, f, "Partial", piece)]
                     [] f.cmd = "Flush" -> [left EXCEPT !.parts = <<>>,
                                                        !.down = Said(l, f, "Final", l.parts)]
                     [] OTHER           -> [left EXCEPT !.parts = <<>>]
       IN  net' = [net EXCEPT !.links[c] = next]
    /\ UNCHANGED <<control, settings, thread, ledger, results, inbox, seen>>

DaemonFails(c) ==
    /\ c \in DOMAIN net.links
    /\ net.links[c].open
    /\ net.links[c].up # <<>>
    /\ net.faults < MaxFaults
    /\ LET l == net.links[c]
           f == Head(l.up)
       IN  /\ f.cmd = "Flush"
           /\ net' = [net EXCEPT !.faults = @ + 1, !.links[c].up = Tail(@),
                                 !.links[c].parts = <<>>,
                                 !.links[c].down = Said(l, f, "Error", <<>>)]
    /\ UNCHANGED <<control, settings, thread, ledger, results, inbox, seen>>

\* The daemon exits (idle, killed, crashed) or drops this client.
DaemonCloses(c) ==
    /\ c \in DOMAIN net.links
    /\ net.links[c].open
    /\ net.faults < MaxFaults
    /\ net' = [net EXCEPT !.faults = @ + 1, !.links[c] = Closed(@)]
    /\ UNCHANGED <<control, settings, thread, ledger, results, inbox, seen>>

-----------------------------------------------------------------------------

\* DaemonClient::spawn and the settings window it hands its parts to.
ClientInit ==
    /\ ctl = "idle" /\ cur = 0 /\ spoken = 0 /\ stale = 0
    /\ heard = [d \in Dictations |-> {}]
    /\ results = <<>> /\ inbox = <<>>
    /\ desired \in Models
    /\ replies = [r \in Reruns |-> [status |-> "none", of |-> Rerun(r), raw |-> <<>>]]

\* Transport::new, with the models wanted then.
ThreadInit ==
    /\ tpc = "boot" /\ session = "idle" /\ dropped = 0
    /\ observed = desired /\ refresh = FALSE /\ reprocessing = FALSE
    /\ run = NoRun
    /\ net = [conn |-> 0, mark |-> 0, models |-> NoModel, faults |-> 0, links |-> <<>>]

LedgerInit == pending = 0 /\ waiter = 0 /\ raw = <<>> /\ answers = <<>>

Init ==
    /\ ClientInit /\ ThreadInit /\ LedgerInit
    /\ seen = [lost |-> {}, cut |-> {}, superseded |-> FALSE, abandoned |-> FALSE]

Control  == Press \/ Speak \/ Release \/ CancelDictation \/ FinishReceives \/ FinishTimesOut
Settings == (\E m \in Models : SwitchModels(m)) \/ (\E r \in Reruns : RequestRerun(r))
Commands == \/ Boot \/ HandleStart \/ HandleChunk \/ HandleCancel
            \/ FlushFails \/ FlushWritten \/ BeginFlush \/ RefreshModels
Driving  == \/ RefuseRerun \/ BeginRerun \/ RerunStart \/ RerunChunk \/ RerunArm \/ RerunFlush
            \/ RerunDrains \/ RerunAnswered \/ RerunAbandoned
Reader(c) == \/ ReadPartial(c) \/ ReadAnswer(c) \/ ReadEnd(c)
             \/ MarkDead(c) \/ CheckEpoch(c) \/ FailOwed(c)

Next ==
    \/ Control \/ Settings \/ Commands \/ Driving
    \/ \E c \in DOMAIN net.links : Reader(c) \/ DaemonHandles(c) \/ DaemonFails(c) \/ DaemonCloses(c)

Spec == Init /\ [][Next]_vars

\* The transport thread runs whenever it can, and its waits end: every
\* recv_timeout has a deadline. Readers and the daemon owe nothing.
Fairness == WF_vars(Commands \/ Driving) /\ WF_vars(FinishReceives \/ FinishTimesOut)
FairSpec == Spec /\ Fairness

-----------------------------------------------------------------------------
(* Properties *)

ControlOK ==
    /\ ctl \in {"idle", "recording", "waiting"}
    /\ cur \in 0..NumDictations /\ spoken \in 0..SpokenChunks /\ stale \in Nat
    /\ heard \in [Dictations -> SUBSET Result]
    /\ ctl # "idle" => cur # 0

SettingsOK == desired \in Models /\ replies \in [Reruns -> Reply]

ThreadOK ==
    /\ tpc \in {"boot", "loop", "tail", "flushed"} \cup Drive
    /\ session \in {"idle", "active", "failed", "reprocessing"}
    /\ dropped \in Nat /\ refresh \in BOOLEAN /\ reprocessing \in BOOLEAN
    /\ observed \in Models
    /\ run \in [id : Reruns \cup {0}, pinned : Models \cup {NoModel}, sent : 0..ClipChunks]
    /\ tpc \in Drive => run.id # 0

LedgerOK ==
    /\ pending \in Nat /\ waiter \in Reruns \cup {0}
    /\ raw \in Text /\ answers \in Seq(Result)

ChannelsOK == results \in Seq(Result) /\ inbox \in Seq(Command)

NetOK ==
    /\ net \in Net
    /\ net.conn # 0 => net.conn = Epoch(net)

SeenOK == seen \in [lost : SUBSET Dictations, cut : SUBSET Dictations,
                    superseded : BOOLEAN, abandoned : BOOLEAN]

\* Every variable has its type, and what ties the threads together: a press
\* in flight has its number, a rerun being driven has its id, and the
\* connection held is always of the newest generation, so its reader is the one
\* allowed to mark and to fail (transport.rs 234-239).
TypeOK ==
    /\ ControlOK /\ SettingsOK /\ ThreadOK /\ LedgerOK
    /\ ChannelsOK /\ NetOK /\ SeenOK

UnhandledFlushes ==
    Cardinality({i \in 1..Len(inbox) : inbox[i].cmd = "Flush"})

\* Every Flush the client has queued is either still on its way to the ledger,
\* pending there, or has its one result in the channel or consumed: what the
\* stale counter (plus the finish now waiting) promises to receive is exactly
\* what is still owed. stale_results' comment, transport.rs 122-125.
StaleIsOwed ==
    stale + (IF ctl = "waiting" THEN 1 ELSE 0)
        = UnhandledFlushes + (IF tpc = "flushed" THEN 1 ELSE 0) + pending + Len(results)

\* With no dictation being recorded and none of its commands queued, the
\* session is idle: a raced press, cancelled or failed fast, never leaves a
\* state that refuses every later rerun (handle_during_reprocess, 879-883).
IdleWhenQuiet ==
    tpc = "loop" /\ ctl # "recording" /\ (\A i \in 1..Len(inbox) : inbox[i].cmd = "Reprocess")
        => session = "idle"

\* What finish returns is that dictation's own, also after timeouts. The
\* exceptions are remembered in seen: an answer read by a reader whose
\* connection was already replaced, and a rerun abandoned with its Flush
\* unanswered.
OwnText ==
    ~seen.superseded /\ ~seen.abandoned =>
        \A d \in Dictations : \A res \in heard[d] : res.of \in {Dictation(d), Lost}

\* The text finish returns of a dictation's own is all that was said in it, or,
\* when a dead connection was replaced between two of its frames, what was said
\* from some chunk on: the silent reconnect (ensure_connected, 925-946) cuts off
\* the beginning. A chunk the transport knows it lost leaves no text at all
\* (flush, 706-711). NothingTruncated is the stronger promise.
ChunksFrom(k) == [i \in 1..(spoken + 1 - k) |-> [of |-> Dictation(cur), k |-> k + i - 1]]
HeardWhole ==
    \A res \in IF cur = 0 THEN {} ELSE heard[cur] :
        res.kind = "final" /\ res.of = Dictation(cur) =>
            /\ cur \notin seen.lost
            /\ \E k \in 1..(spoken + 1) : res.text = ChunksFrom(k) /\ (k # 1 => cur \in seen.cut)

\* What the client says of itself: "pasting silently truncated text would be
\* worse than failing" (transport.rs 518-520, and 688-690). A text that finish returns to be
\* pasted, the dictation's own, would then be all that was said in it.
NothingTruncated ==
    \A res \in IF cur = 0 THEN {} ELSE heard[cur] :
        res.kind = "final" /\ res.of = Dictation(cur) /\ res.text # <<>> =>
            res.text = ChunksFrom(1)

\* A death mark of the current generation is only there when the connection it
\* condemns is really gone: no stale reader ever invalidates the live one.
DeadMarkIsTrue ==
    net.conn # 0 /\ DeathMarked(net) => ~net.links[net.conn].open

\* The text a rerun is answered with is its own clip's, until some rerun was
\* abandoned with its Flush unanswered.
RerunOwnText ==
    ~seen.abandoned /\ ~seen.superseded =>
        \A r \in Reruns : replies[r].status = "answered" => replies[r].of = Rerun(r)

\* Every rerun asked for is answered or refused, whatever the daemon and the
\* readers do, and the flag that refuses presses meanwhile is given back
\* (run_reprocess: one reply on every path out of the drive).
RerunReplied ==
    \A r \in Reruns :
        replies[r].status = "asked" ~> replies[r].status # "asked" /\ ~reprocessing

=============================================================================
