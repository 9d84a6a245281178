----------------------------- MODULE Ownership -----------------------------
(***************************************************************************)
(* Which diktafond owns the socket, and how a client gets connected to one *)
(* that serves its models: the transport's ensure_connected with its       *)
(* backoff, spawn cooldown and retiring of a daemon that refuses it, the   *)
(* daemon's start (ensure_sole_daemon, bind, pid and status files, signal  *)
(* handler, loading) and its ends (SIGTERM, idle exit, failure, crash).    *)
(*                                                                         *)
(* Daemons are numbered in the order they are spawned, and a number is the *)
(* daemon's pid. The socket file, the pid file and the status file each    *)
(* name the daemon that made them, 0 when the file is not there. The       *)
(* status file also says whether the models are loaded, and is what the    *)
(* client's windows show of the daemon (daemon_status). Daemons may also   *)
(* be started by others than these clients, by hand for instance.          *)
(*                                                                         *)
(* Of the sessions that use a connection there is only what keeps a switch *)
(* of models waiting: whether one is under way and whether the answer to a *)
(* Flush is still owed. Transport has the rest of them.                    *)
(***************************************************************************)
EXTENDS Integers, FiniteSets

CONSTANTS
  Clients,
  Models,       \* the model pairs a client may ask for
  Other,        \* what a daemon of another build serves: no client's pair
  MaxDaemons,   \* bound: daemons ever started
  MaxForeign,   \* bound: those of them that others started
  MaxFaults,    \* bound: crashes, failures to load or spawn, timeouts, idle exits
  MaxSwitches   \* bound: changes of the selected models

ASSUME OwnershipAssumption ==
  /\ Other \notin Models /\ Models # {}
  /\ MaxDaemons \in Nat \ {0} /\ MaxForeign \in Nat /\ MaxFaults \in Nat /\ MaxSwitches \in Nat

Daemons == 1 .. MaxDaemons

VARIABLES
  stage,    \* where each daemon is in its life
  serves,   \* the models each daemon was started with
  path,     \* whose socket is at the socket path
  pidfile,
  status,   \* status.json: its writer's pid, and models_loaded
  loading,  \* the daemons whose worker has yet to report its models in status.json
  foreign,  \* history: the daemons that others started
  at,       \* where each client's transport thread is
  waiting,  \* ... whether it is in wait_for_spawned_daemon
  peer,     \* ... the daemon it greets
  asked,    \* ... the models it asked for: connected_models, once connected
  conn,     \* Transport.conn
  child,    \* Supervisor.child
  cooling,  \* Supervisor.last_spawn is less than SPAWN_COOLDOWN ago
  backoff,  \* next_attempt is in the future
  retired,  \* Transport.retired_mismatch
  want,     \* ModelSelectionControl: the models selected in the settings
  observed, \* Transport.observed_models
  pending,  \* Transport.model_refresh_pending
  session,  \* TransportSession; "starting" while its Start waits for a connection
  owes,     \* has_pending_flushes: "due" to be answered, or "orphaned" without a reader
  reader,   \* the reader thread of conn is still there
  shutting, \* SHUTTING_DOWN
  faults, switches,
  raced     \* history: two daemons found the same stale socket file

daemons == <<stage, serves, loading>>
files   == <<path, pidfile, status>>
here    == <<at, peer>>
spawner == <<child, cooling>>
models  == <<want, observed, pending>>
uses    == <<session, owes, reader>>
bounds  == <<faults, switches>>
vars    == <<daemons, files, here, waiting, asked, conn, spawner, backoff, retired, models, uses,
             shutting, bounds, foreign, raced>>

-----------------------------------------------------------------------------
Unborn       == {d \in Daemons : stage[d] = "unborn"}
\* is_diktafond, and is_alive: the pid names a running daemon.
Alive(d)     == d # 0 /\ stage[d] \notin {"unborn", "dead"}
\* The kernel accepts connections for a bound socket until its process is gone.
Listening(d) == Alive(d) /\ stage[d] \notin {"checking", "stale", "binding"}
Reachable    == path # 0 /\ Listening(path)
\* It has said it is up, and has not begun to end.
Serving(d)   == d # 0 /\ stage[d] \in {"loading", "ready"}

NoStatus     == [pid |-> 0, loaded |-> FALSE]
\* status::write replaces the file at once, whoever wrote the one before.
WriteStatus(d, loaded) == status' = [pid |-> d, loaded |-> loaded]

\* daemon_status: a status file of a process that is gone counts for nothing; a
\* daemon without one is known from its pid file.
DaemonStatus ==
  LET pid == IF status.pid = 0 THEN pidfile ELSE status.pid
  IN  [running |-> Alive(pid), loaded |-> Alive(pid) /\ status.loaded]

\* serve: one client at a time once loaded; all of them while loading.
Free(d)      == stage[d] = "loading" \/ \A c \in Clients : conn[c] # d
Fault        == faults < MaxFaults /\ faults' = faults + 1

\* Nothing runs; or a crash left its files; or a daemon of this build, of this
\* build and other models, or of another build runs.
Init ==
  /\ \E first \in {"unborn", "dead", "ready"}, m \in Models \cup {Other} :
       /\ stage = [d \in Daemons |-> IF d = 1 THEN first ELSE "unborn"]
       /\ serves = [d \in Daemons |-> IF stage[d] = "ready" THEN m ELSE Other]
       /\ path = IF first = "unborn" THEN 0 ELSE 1
  /\ pidfile = path
  /\ \E loaded \in BOOLEAN : /\ loaded => path # 0
                             /\ stage[1] = "ready" => loaded
                             /\ status = [pid |-> path, loaded |-> loaded]
  /\ loading = {} /\ foreign = {}
  /\ at = [c \in Clients |-> "connecting"] /\ waiting = [c \in Clients |-> FALSE]
  /\ peer = [c \in Clients |-> 0]
  /\ want \in [Clients -> Models] /\ observed = want /\ asked = [c \in Clients |-> Other]
  /\ pending = [c \in Clients |-> FALSE]
  /\ conn = [c \in Clients |-> 0] /\ child = [c \in Clients |-> 0]
  /\ cooling = [c \in Clients |-> FALSE] /\ backoff = [c \in Clients |-> FALSE]
  /\ retired = [c \in Clients |-> FALSE]
  /\ session = [c \in Clients |-> "idle"] /\ owes = [c \in Clients |-> "none"]
  /\ reader = [c \in Clients |-> FALSE]
  /\ shutting = [c \in Clients |-> FALSE]
  /\ faults = 0 /\ switches = 0 /\ raced = FALSE

-----------------------------------------------------------------------------
(* A daemon's life: run *)

Becomes(d, s) ==
  /\ stage' = [stage EXCEPT ![d] = s]
  /\ loading' = CASE s = "loading" -> loading \cup {d}
                   [] s = "dead" -> loading \ {d}
                   [] OTHER -> loading
  /\ serves' = IF s = "dead" THEN [serves EXCEPT ![d] = Other] ELSE serves

\* A process is spawned to serve these models.
Born(d, m) ==
  /\ stage' = [stage EXCEPT ![d] = "checking"] /\ serves' = [serves EXCEPT ![d] = m]
  /\ UNCHANGED loading

\* Two daemons are about to remove the same stale file.
Races(d) == \E e \in Daemons \ {d} : stage[e] = "stale"

\* Mutant of CheckSocket: nobody is asked, a file that is there is stale.
CheckSocketUnasked(d) ==
  /\ stage[d] = "checking"
  /\ Becomes(d, IF path = 0 THEN "binding" ELSE "stale")
  /\ raced' = (raced \/ (path # 0 /\ Races(d)))
  /\ UNCHANGED files

\* ensure_sole_daemon: nothing there, somebody answers, or a stale file.
CheckSocket(d) ==
  /\ stage[d] = "checking"
  /\ Becomes(d, IF path = 0 THEN "binding" ELSE IF Reachable THEN "dead" ELSE "stale")
  /\ raced' = (raced \/ (path # 0 /\ ~Reachable /\ Races(d)))
  /\ UNCHANGED files

\* The stale file is removed: whichever file is there by now.
RemoveStale(d) ==
  /\ stage[d] = "stale"
  /\ Becomes(d, IF path = 0 THEN "dead" ELSE "binding")
  /\ path' = 0
  /\ UNCHANGED <<pidfile, status>>

\* UnixListener::bind fails when the path exists.
Bind(d) ==
  /\ stage[d] = "binding"
  /\ IF path = 0 THEN Becomes(d, "bound") /\ path' = d ELSE Becomes(d, "dead") /\ UNCHANGED path
  /\ UNCHANGED <<pidfile, status>>

\* The pid file, the first status, and then the signal handler.
WriteFiles(d) ==
  /\ stage[d] = "bound" /\ Becomes(d, "named")
  /\ pidfile' = d /\ WriteStatus(d, FALSE)
  /\ UNCHANGED path

HandleSignals(d) ==
  /\ stage[d] = "named" /\ Becomes(d, "loading")
  /\ UNCHANGED files

\* start_up is done: the worker has its models, and Ready goes out.
Loaded(d) ==
  /\ stage[d] = "loading" /\ Becomes(d, "ready")
  /\ UNCHANGED files

\* notify_residency: only then does the worker put it in the status file, which
\* a signal does not keep it from.
TellLoaded(d) ==
  /\ d \in loading /\ stage[d] # "loading" /\ loading' = loading \ {d}
  /\ WriteStatus(d, TRUE)
  /\ UNCHANGED <<stage, serves, path, pidfile>>

\* SIGTERM before the handler is there ends the process, and leaves its files.
Signalled(d) == Becomes(d, IF Serving(d) THEN "ending" ELSE IF stage[d] \in {"ending", "closing", "exiting"}
                           THEN stage[d] ELSE "dead")

\* stop_running: whatever the pid file names, if it is a daemon.
StopRunning == IF Alive(pidfile) THEN Signalled(pidfile) ELSE UNCHANGED daemons

\* remove_socket_on_termination: pid file and status first, whoever's they are.
RemoveFiles(d) ==
  /\ stage[d] = "ending" /\ Becomes(d, "closing")
  /\ pidfile' = 0 /\ status' = NoStatus
  /\ UNCHANGED path

RemoveSocket(d) ==
  /\ stage[d] = "closing" /\ Becomes(d, "exiting")
  /\ path' = 0
  /\ UNCHANGED <<pidfile, status>>

Exit(d) ==
  /\ stage[d] = "exiting" /\ Becomes(d, "dead")
  /\ UNCHANGED files

Daemon(d) ==
  /\ \/ CheckSocket(d)
     \/ /\ \/ RemoveStale(d) \/ Bind(d) \/ WriteFiles(d) \/ HandleSignals(d) \/ Loaded(d)
           \/ TellLoaded(d) \/ RemoveFiles(d) \/ RemoveSocket(d) \/ Exit(d)
        /\ UNCHANGED raced
  /\ UNCHANGED <<here, waiting, asked, conn, spawner, backoff, retired, models, uses, shutting,
                 bounds, foreign>>

\* A crash, a model that cannot be loaded, a reset that timed out: the process is
\* gone and its files are left.
Dies(d) ==
  /\ Alive(d) /\ Fault /\ Becomes(d, "dead")
  /\ UNCHANGED <<files, here, waiting, asked, conn, spawner, backoff, retired, models, uses,
                 shutting, switches, foreign, raced>>

\* Nobody dictated for idle_unload_secs: the worker raises SIGTERM.
IdleExit(d) ==
  /\ stage[d] = "ready" /\ d \notin loading /\ Fault /\ Signalled(d)
  /\ UNCHANGED <<files, here, waiting, asked, conn, spawner, backoff, retired, models, uses,
                 shutting, switches, foreign, raced>>

\* The daemon spawned next.
Newborn == CHOOSE n \in Unborn : \A m \in Unborn : n <= m

\* Somebody else finds no daemon and starts one.
StartedElsewhere ==
  /\ Unborn # {} /\ Cardinality(foreign) < MaxForeign /\ ~Reachable
  /\ \E m \in Models : Born(Newborn, m)
  /\ foreign' = foreign \cup {Newborn}
  /\ UNCHANGED <<files, here, waiting, asked, conn, spawner, backoff, retired, models, uses, shutting,
                 bounds, raced>>

-----------------------------------------------------------------------------
(* The transport thread of a client *)

\* The daemon that is greeted is of no interest anywhere else.
Goes(c, place) ==
  /\ at' = [at EXCEPT ![c] = place]
  /\ peer' = [peer EXCEPT ![c] = IF place = "greeting" THEN path ELSE 0]

\* schedule_retry; a Start that waited for the connection has failed.
Retry(c) ==
  /\ Goes(c, "idle") /\ waiting' = [waiting EXCEPT ![c] = FALSE]
  /\ backoff' = [backoff EXCEPT ![c] = TRUE]
  /\ asked' = [asked EXCEPT ![c] = Other]
  /\ session' = [session EXCEPT ![c] = IF @ = "starting" THEN "failed" ELSE @]
  /\ UNCHANGED <<owes, reader>>

\* drop_conn: the reader thread is superseded, and answers nothing any more.
Dropped(c) ==
  /\ conn' = [conn EXCEPT ![c] = 0] /\ reader' = [reader EXCEPT ![c] = FALSE]
  /\ asked' = [asked EXCEPT ![c] = Other]
  /\ owes' = [owes EXCEPT ![c] = IF @ = "due" THEN "orphaned" ELSE @]

\* Mutant of Observed: a new selection does not allow another daemon to be retired.
ObservedOnly(c) ==
  /\ observed' = [observed EXCEPT ![c] = want[c]]
  /\ pending' = [pending EXCEPT ![c] = TRUE]
  /\ UNCHANGED retired

\* observe_model_selection.
Observed(c) ==
  /\ observed' = [observed EXCEPT ![c] = want[c]]
  /\ pending' = [pending EXCEPT ![c] = TRUE]
  /\ retired' = [retired EXCEPT ![c] = FALSE]

Stays(c) == conn[c] # 0 /\ Alive(conn[c])

\* Start: prepare_session drops a connection of other models, and send_start waits
\* for no backoff. finish may have given up on the Flush before. A rerun's session is
\* one whose answer the ledger does not count.
Press(c) ==
  /\ at[c] = "idle" /\ session[c] = "idle"
  /\ IF Stays(c) /\ asked[c] = want[c]
     THEN session' = [session EXCEPT ![c] = "active"] /\ UNCHANGED <<here, asked, conn, owes, reader>>
     ELSE session' = [session EXCEPT ![c] = "starting"] /\ Goes(c, "connecting") /\ Dropped(c)
  /\ backoff' = [backoff EXCEPT ![c] = FALSE]
  /\ UNCHANGED <<daemons, files, waiting, spawner, retired, models, shutting, bounds, foreign, raced>>

\* A Chunk finds the daemon gone and reconnects, or cannot yet.
Reconnect(c) ==
  /\ at[c] = "idle" /\ session[c] = "active" /\ ~Stays(c)
  /\ Dropped(c)
  /\ IF backoff[c] THEN UNCHANGED here /\ conn[c] # 0 ELSE Goes(c, "connecting")
  /\ UNCHANGED <<daemons, files, waiting, spawner, backoff, retired, models, session, shutting,
                 bounds, foreign, raced>>

\* flush: the frame is written, and not counted yet.
Flush(c) ==
  /\ at[c] = "idle" /\ session[c] = "active" /\ Stays(c)
  /\ Goes(c, "flushed")
  /\ UNCHANGED <<daemons, files, waiting, asked, conn, spawner, backoff, retired, models, uses,
                 shutting, bounds, foreign, raced>>

\* begin_flush: nothing will answer it if the reader has already failed all it owed.
BeginFlush(c) ==
  /\ at[c] = "flushed" /\ Goes(c, "idle")
  /\ session' = [session EXCEPT ![c] = "idle"]
  /\ owes' = [owes EXCEPT ![c] = IF ~reader[c] THEN "orphaned" ELSE IF @ = "none" THEN "due" ELSE @]
  /\ UNCHANGED <<daemons, files, waiting, asked, conn, spawner, backoff, retired, models, reader,
                 shutting, bounds, foreign, raced>>

\* A session that ends with nothing owed: cancelled, failed at its Start, without a
\* connection or with a chunk lost.
EndSession(c) ==
  /\ at[c] = "idle" /\ session[c] \in {"active", "failed"}
  /\ session' = [session EXCEPT ![c] = "idle"]
  /\ \/ UNCHANGED <<asked, conn, owes, reader>>
     \/ session[c] = "active" /\ conn[c] # 0 /\ ~Stays(c) /\ Dropped(c)
  /\ UNCHANGED <<daemons, files, here, waiting, spawner, backoff, retired, models, shutting,
                 bounds, foreign, raced>>

\* deliver, by the reader thread: the last Flush due is answered.
Answered(c) ==
  /\ owes[c] = "due" /\ reader[c] /\ Stays(c) /\ owes' = [owes EXCEPT ![c] = "none"]
  /\ UNCHANGED <<daemons, files, here, waiting, asked, conn, spawner, backoff, retired, models, session,
                 reader, shutting, bounds, foreign, raced>>

\* fail_pending: the daemon is gone, and all that is pending is answered.
ReaderEnds(c) ==
  /\ reader[c] /\ ~Stays(c)
  /\ reader' = [reader EXCEPT ![c] = FALSE] /\ owes' = [owes EXCEPT ![c] = "none"]
  /\ UNCHANGED <<daemons, files, here, waiting, asked, conn, spawner, backoff, retired, models, session,
                 shutting, bounds, foreign, raced>>

\* refresh_models_if_idle: the poll notices a new selection.
ObserveModels(c) ==
  /\ at[c] = "idle" /\ want[c] # observed[c] /\ Observed(c)
  /\ UNCHANGED <<daemons, files, here, waiting, asked, conn, spawner, backoff, want, uses, shutting,
                 bounds, foreign, raced>>

\* ... and keeps trying until a daemon serves it; not in a session, nor while a Flush
\* is pending.
Refresh(c) ==
  /\ at[c] = "idle" /\ want[c] = observed[c] /\ pending[c]
  /\ session[c] = "idle" /\ owes[c] = "none"
  /\ IF Stays(c) /\ asked[c] = observed[c]
     THEN pending' = [pending EXCEPT ![c] = FALSE] /\ UNCHANGED <<here, asked, conn, owes, reader>>
     ELSE /\ Dropped(c) /\ UNCHANGED pending
          /\ IF backoff[c] THEN UNCHANGED here /\ conn[c] # 0 ELSE Goes(c, "connecting")
  /\ UNCHANGED <<daemons, files, waiting, spawner, backoff, retired, want, observed, session,
                 shutting, bounds, foreign, raced>>

\* connect finds a listening socket and sends its Hello.
Greet(c) ==
  /\ at[c] = "connecting" /\ Reachable
  /\ Goes(c, "greeting") /\ asked' = [asked EXCEPT ![c] = want[c]]
  /\ UNCHANGED <<daemons, files, waiting, conn, spawner, backoff, retired, models, uses, shutting,
                 bounds, foreign, raced>>

\* Nothing listens; wait_for_spawned_daemon tries again.
NoDaemon(c) ==
  /\ at[c] = "connecting" /\ ~Reachable /\ ~waiting[c]
  /\ Goes(c, "spawning")
  /\ UNCHANGED <<daemons, files, waiting, asked, conn, spawner, backoff, retired, models, uses,
                 shutting, bounds, foreign, raced>>

\* handshake and await_ready: the daemon serves what was asked for, and says Ready
\* when it has loaded it, however long it downloads.
Welcomed(c) == stage[peer[c]] = "ready" /\ Free(peer[c]) /\ serves[peer[c]] = asked[c]

\* adopt resets backoff and retired_mismatch.
Adopt(c) ==
  /\ at[c] = "greeting" /\ Welcomed(c)
  /\ Goes(c, "idle") /\ waiting' = [waiting EXCEPT ![c] = FALSE]
  /\ conn' = [conn EXCEPT ![c] = peer[c]] /\ reader' = [reader EXCEPT ![c] = TRUE]
  /\ session' = [session EXCEPT ![c] = IF @ = "starting" THEN "active" ELSE @]
  /\ backoff' = [backoff EXCEPT ![c] = FALSE] /\ retired' = [retired EXCEPT ![c] = FALSE]
  /\ UNCHANGED <<daemons, files, asked, spawner, models, owes, shutting, bounds, foreign, raced>>

\* The daemon refuses the version or the models. A client that waits for the
\* daemon it spawned gives up, and so does one that retired a daemon already;
\* another stops it by its pid file.
Refused(c) ==
  /\ at[c] = "greeting" /\ Serving(peer[c]) /\ Free(peer[c]) /\ serves[peer[c]] # asked[c]
  /\ IF waiting[c] \/ retired[c] THEN Retry(c) /\ UNCHANGED <<daemons, retired>>
     ELSE /\ retired' = [retired EXCEPT ![c] = TRUE]
          /\ IF Alive(pidfile)
             THEN Signalled(pidfile) /\ Goes(c, "retiring") /\ UNCHANGED <<waiting, asked, backoff, uses>>
             ELSE Retry(c) /\ UNCHANGED daemons
  /\ UNCHANGED <<files, conn, spawner, models, shutting, bounds, foreign, raced>>

\* The daemon is gone before it answered, or before it was ready.
Lost(c) ==
  /\ at[c] = "greeting" /\ ~Alive(peer[c]) /\ Retry(c)
  /\ UNCHANGED <<daemons, files, conn, spawner, retired, models, shutting, bounds, foreign, raced>>

\* The daemon is busy with another client, or takes too long.
TimesOut(c) ==
  /\ at[c] = "greeting" /\ Retry(c)
  /\ IF Free(peer[c]) THEN Fault ELSE UNCHANGED faults
  /\ UNCHANGED <<daemons, files, conn, spawner, retired, models, shutting, switches, foreign, raced>>

\* retire_mismatched_daemon polls for the socket to vanish; the spawn that
\* follows waits for no cooldown.
Vanished(c) ==
  /\ at[c] = "retiring" /\ path = 0
  /\ Goes(c, "spawning") /\ cooling' = [cooling EXCEPT ![c] = FALSE]
  /\ UNCHANGED <<daemons, files, waiting, asked, conn, child, backoff, retired, models, uses,
                 shutting, bounds, foreign, raced>>

\* ... for two seconds: too few only if the daemon does not remove it.
NotVanished(c) ==
  /\ at[c] = "retiring" /\ path # 0 /\ Retry(c)
  /\ IF stage[path] \in {"ending", "closing"} THEN Fault ELSE UNCHANGED faults
  /\ UNCHANGED <<daemons, files, conn, spawner, retired, models, shutting, switches, foreign, raced>>

\* try_spawn.
MaySpawn(c) == ~shutting[c] /\ ~Alive(child[c]) /\ ~cooling[c]

Spawn(c) ==
  /\ at[c] = "spawning" /\ MaySpawn(c) /\ Unborn # {}
  /\ Born(Newborn, want[c])
  /\ child' = [child EXCEPT ![c] = Newborn]
  /\ cooling' = [cooling EXCEPT ![c] = TRUE]
  /\ Goes(c, "connecting") /\ waiting' = [waiting EXCEPT ![c] = TRUE]
  /\ UNCHANGED <<files, asked, conn, backoff, retired, models, uses, shutting, bounds, foreign, raced>>

SpawnRefused(c) ==
  /\ at[c] = "spawning" /\ ~MaySpawn(c) /\ Retry(c)
  /\ child' = IF Alive(child[c]) \/ shutting[c] THEN child ELSE [child EXCEPT ![c] = 0]
  /\ UNCHANGED <<daemons, files, conn, cooling, retired, models, shutting, bounds, foreign, raced>>

SpawnFails(c) ==
  /\ at[c] = "spawning" /\ MaySpawn(c) /\ Fault /\ Retry(c)
  /\ child' = [child EXCEPT ![c] = 0] /\ cooling' = [cooling EXCEPT ![c] = TRUE]
  /\ UNCHANGED <<daemons, files, conn, retired, models, shutting, switches, foreign, raced>>

\* wait_for_spawned_daemon sees its child dead, whoever else listens.
ChildDied(c) ==
  /\ at[c] = "connecting" /\ waiting[c] /\ ~Alive(child[c]) /\ Retry(c)
  /\ UNCHANGED <<daemons, files, conn, spawner, retired, models, shutting, bounds, foreign, raced>>

\* DAEMON_READY_TIMEOUT.
NotReady(c) ==
  /\ at[c] = "connecting" /\ waiting[c] /\ ~Reachable /\ Fault /\ Retry(c)
  /\ UNCHANGED <<daemons, files, conn, spawner, retired, models, shutting, switches, foreign, raced>>

Transport(c) ==
  \/ ObserveModels(c) \/ Refresh(c) \/ Greet(c) \/ NoDaemon(c) \/ Adopt(c) \/ Refused(c) \/ Lost(c)
  \/ TimesOut(c) \/ Vanished(c) \/ NotVanished(c) \/ Spawn(c) \/ SpawnRefused(c) \/ SpawnFails(c)
  \/ ChildDied(c) \/ NotReady(c) \/ Reconnect(c) \/ BeginFlush(c)

Reader(c) == Answered(c) \/ ReaderEnds(c)

BackoffEnds(c) ==
  /\ backoff[c] /\ backoff' = [backoff EXCEPT ![c] = FALSE]
  /\ UNCHANGED <<daemons, files, here, waiting, asked, conn, spawner, retired, models, uses, shutting,
                 bounds, foreign, raced>>

CooldownEnds(c) ==
  /\ cooling[c] /\ cooling' = [cooling EXCEPT ![c] = FALSE]
  /\ UNCHANGED <<daemons, files, here, waiting, asked, conn, child, backoff, retired, models, uses,
                 shutting, bounds, foreign, raced>>

-----------------------------------------------------------------------------
(* The user *)

SelectModels(c) ==
  /\ switches < MaxSwitches /\ switches' = switches + 1
  /\ \E m \in Models \ {want[c]} : want' = [want EXCEPT ![c] = m]
  /\ UNCHANGED <<daemons, files, here, waiting, asked, conn, spawner, backoff, retired, observed, pending,
                 uses, shutting, faults, foreign, raced>>

\* Quit stops whatever the pid file names.
Quit(c) ==
  /\ ~shutting[c] /\ shutting' = [shutting EXCEPT ![c] = TRUE]
  /\ StopRunning
  /\ UNCHANGED <<files, here, waiting, asked, conn, spawner, backoff, retired, models, uses,
                 bounds, foreign, raced>>

EndsSession(c) == Flush(c) \/ EndSession(c)

Next ==
  \/ \E d \in Daemons : Daemon(d) \/ Dies(d) \/ IdleExit(d)
  \/ \E c \in Clients : \/ Transport(c) \/ Reader(c) \/ BackoffEnds(c) \/ CooldownEnds(c)
                         \/ Press(c) \/ EndsSession(c) \/ SelectModels(c) \/ Quit(c)
  \/ StartedElsewhere

Spec == Init /\ [][Next]_vars

\* Daemons and threads run, time passes and every session is released or cancelled.
\* The thread observes the selection after every command and at every poll, and comes
\* to the command that ends a session whatever reconnecting before it: those two are
\* strongly fair. A refresh is not, as the next press may come before the poll.
Fairness ==
  /\ WF_vars(\E d \in Daemons : Daemon(d))
  /\ \A c \in Clients :
       /\ WF_vars(Transport(c)) /\ WF_vars(Reader(c)) /\ WF_vars(BackoffEnds(c)) /\ WF_vars(CooldownEnds(c))
       /\ SF_vars(ObserveModels(c)) /\ SF_vars(EndsSession(c))

FairSpec == Spec /\ Fairness

-----------------------------------------------------------------------------
TypeOK ==
  /\ stage \in [Daemons -> {"unborn", "checking", "stale", "binding", "bound", "named", "loading", "ready",
                            "ending", "closing", "exiting", "dead"}]
  /\ serves \in [Daemons -> Models \cup {Other}]
  /\ {path, pidfile} \subseteq 0 .. MaxDaemons
  /\ status \in [pid : 0 .. MaxDaemons, loaded : BOOLEAN] /\ loading \subseteq Daemons
  /\ at \in [Clients -> {"idle", "connecting", "greeting", "retiring", "spawning", "flushed"}]
  /\ session \in [Clients -> {"idle", "starting", "active", "failed"}]
  /\ owes \in [Clients -> {"none", "due", "orphaned"}] /\ reader \in [Clients -> BOOLEAN]
  /\ foreign \subseteq Daemons /\ raced \in BOOLEAN
  /\ peer \in [Clients -> 0 .. MaxDaemons] /\ conn \in [Clients -> 0 .. MaxDaemons]
  /\ child \in [Clients -> 0 .. MaxDaemons]
  /\ want \in [Clients -> Models] /\ observed \in [Clients -> Models] /\ asked \in [Clients -> Models \cup {Other}]

\* A daemon that serves is the one at the socket path and the one the pid file
\* lets Quit and a retiring client stop: whoever starts daemons, none is left resident
\* on an unlinked socket (ensure_sole_daemon) and none removes another's files. The
\* windows show it as running, with its models once its worker said so, whatever files
\* a crash left; only a daemon that was told to end while it loaded may still write
\* over its status. It takes one race to end this: two daemons that find the same
\* stale file, of which the slower removes the socket that the faster has bound.
ServingOwnsItsFiles ==
  ~raced =>
    \A d \in Daemons : Serving(d) =>
      /\ path = d /\ pidfile = d
      /\ \/ status.pid = d /\ DaemonStatus = [running |-> TRUE, loaded |-> d \notin loading]
         \/ status.loaded /\ stage[status.pid] \in {"closing", "exiting", "dead"}

\* What ensure_sole_daemon's comment says it is for: of clients that race their
\* auto-spawns none leaves a resident daemon on an unlinked socket. The code does not
\* keep that: between one daemon's probe and its removal of the stale file, another may
\* have removed the same file and bound its own.
NoneIsUnlinked == \A d \in Daemons : Serving(d) => path = d

\* What may keep a switch of models from taking effect for good: the user quits; a
\* Flush was counted when no reader was left to answer it, and no press comes that
\* replaces its ledger; or others have started daemons too, which may win the start,
\* use up the retirement and serve models of their own.
Hindered(c) ==
  shutting[c] \/ owes[c] = "orphaned" \/ raced \/ foreign # {}

\* Unless hindered so, a selection the transport has noticed comes to a connection with
\* a daemon that serves it: through sessions and Flushes that put it off, refusals,
\* retiring, cooldown, backoff and changes of mind (refresh_models_if_idle).
SwitchTakesEffect ==
  \A c \in Clients :
    pending[c] ~> (Hindered(c) \/ (conn[c] # 0 /\ serves[conn[c]] = want[c]))
=============================================================================
