-------------------------- MODULE Ownership_proofs --------------------------
(***************************************************************************)
(* Whoever starts daemons, in any number and with any crashes, timeouts    *)
(* and switches of models, one that serves has the files to itself until   *)
(* two of them race over a stale socket file; and one client alone never   *)
(* brings about that race.                                                 *)
(***************************************************************************)
EXTENDS Ownership, FiniteSetTheorems, WellFoundedInduction, TLAPS

Stages == {"unborn", "checking", "stale", "binding", "bound", "named", "loading", "ready",
           "ending", "closing", "exiting", "dead"}

Typed ==
  /\ stage \in [Daemons -> Stages]
  /\ path \in 0 .. MaxDaemons /\ pidfile \in 0 .. MaxDaemons
  /\ status \in [pid : 0 .. MaxDaemons, loaded : BOOLEAN]
  /\ status.loaded => status.pid # 0

\* A worker has its models to report from the start of loading to the end of its process.
Reports == loading \subseteq {d \in Daemons : stage[d] \in {"loading", "ready", "ending", "closing", "exiting"}}

\* Its socket is bound and not yet removed.
Holder(d) == stage[d] \in {"bound", "named", "loading", "ready", "ending", "closing"}

\* From bind until it removes it the socket is the daemon's, and so is the pid file.
Holds ==
  \A d \in Daemons :
    /\ Holder(d) => path = d
    /\ stage[d] \in {"named", "loading", "ready", "ending"} => pidfile = d

\* A file that was found stale stays there, and nobody's, until the one that found it
\* removes it.
Stale ==
  \A d \in Daemons : stage[d] = "stale" =>
    path # 0 /\ \A e \in Daemons : ~Holder(e) /\ (stage[e] = "stale" => e = d)

\* The status is the daemon's own, or a last word of one that is no longer at the files.
Told ==
  \A d \in Daemons : stage[d] \in {"named", "loading", "ready"} =>
    \/ status.pid = d /\ status.loaded = (stage[d] # "named" /\ d \notin loading)
    \/ status.loaded /\ stage[status.pid] \in {"closing", "exiting", "dead"}

Owned == Holds /\ Stale /\ Told

IInv == Typed /\ Reports /\ (~raced => Owned)

-----------------------------------------------------------------------------
LEMMA InitIInv == Init => IInv
<1> SUFFICES ASSUME Init PROVE IInv
  OBVIOUS
<1>1. PICK first \in {"unborn", "dead", "ready"} :
        /\ stage = [d \in Daemons |-> IF d = 1 THEN first ELSE "unborn"]
        /\ path = IF first = "unborn" THEN 0 ELSE 1
  BY DEF Init
<1>2. PICK loaded \in BOOLEAN : /\ loaded => path # 0
                                /\ stage[1] = "ready" => loaded
                                /\ status = [pid |-> path, loaded |-> loaded]
  BY DEF Init
<1>3. MaxDaemons \in Nat \ {0} /\ 1 \in Daemons BY OwnershipAssumption DEF OwnershipAssumption, Daemons
<1>4. Typed BY <1>1, <1>2, <1>3 DEF Init, Typed, Stages
<1>5. \A d \in Daemons : stage[d] \in {"unborn", "dead", "ready"} /\ (stage[d] = "ready" => d = 1)
  BY <1>1
<1>6. first = "ready" => status = [pid |-> 1, loaded |-> TRUE] BY <1>1, <1>2, <1>3
<1>7. Holds /\ Stale BY <1>1, <1>5 DEF Init, Holds, Holder, Stale
<1>8. Reports BY DEF Init, Reports
<1>9. Told BY <1>1, <1>5, <1>6 DEF Init, Told
<1> QED BY <1>4, <1>7, <1>8, <1>9 DEF IInv, Owned

-----------------------------------------------------------------------------
(* The daemons *)

\* Where the daemons are after a step of one of them.
LEMMA DaemonsMove ==
  ASSUME Typed, Reports, NEW d \in Daemons, NEW s \in Stages, Becomes(d, s),
         d \in loading => s \in {"loading", "ready", "ending", "closing", "exiting", "dead"}
  PROVE  /\ stage' \in [Daemons -> Stages]
         /\ \A e \in Daemons : e # d => stage'[e] = stage[e]
         /\ stage'[d] = s
         /\ Reports'
<1>1. /\ stage' = [stage EXCEPT ![d] = s]
      /\ loading' = CASE s = "loading" -> loading \cup {d}
                      [] s = "dead" -> loading \ {d}
                      [] OTHER -> loading
  BY DEF Becomes
<1>2. stage' \in [Daemons -> Stages] /\ stage'[d] = s
  BY <1>1 DEF Typed
<1>3. \A e \in Daemons : e # d => stage'[e] = stage[e] BY <1>1 DEF Typed
<1>4. Reports'
  <2> SUFFICES ASSUME NEW e \in loading'
               PROVE  e \in Daemons /\ stage'[e] \in {"loading", "ready", "ending", "closing", "exiting"}
    BY DEF Reports
  <2>1. CASE s = "loading" BY <2>1, <1>1, <1>2, <1>3 DEF Reports
  <2>2. CASE s = "dead" BY <2>2, <1>1, <1>3 DEF Reports
  <2>3. CASE s \notin {"loading", "dead"}
    <3>1. e \in loading BY <2>3, <1>1
    <3> QED BY <2>3, <3>1, <1>2, <1>3 DEF Reports
  <2> QED BY <2>1, <2>2, <2>3
<1> QED BY <1>2, <1>3, <1>4

\* While a daemon holds the socket no other does, and none is about to remove it.
LEMMA Alone ==
  ASSUME Typed, Owned, NEW d \in Daemons, Holder(d), NEW e \in Daemons, e # d
  PROVE  stage[e] \in {"unborn", "checking", "binding", "exiting", "dead"}
<1>1. ~Holder(e) BY DEF Owned, Holds
<1>2. stage[e] # "stale" BY DEF Owned, Stale
<1> QED BY <1>1, <1>2 DEF Typed, Stages, Holder

\* A daemon that is told to end, that dies, or that is started, leaves the files as they are.
LEMMA Falls ==
  ASSUME IInv, NEW d \in Daemons, NEW s \in Stages, Becomes(d, s),
         \/ s = "ending" /\ stage[d] \in {"loading", "ready"}
         \/ s = stage[d] /\ s \in {"ending", "closing", "exiting"}
         \/ s = "dead",
         UNCHANGED <<files, raced>>
  PROVE  IInv'
<1>1. loading' = IF s = "dead" THEN loading \ {d} ELSE loading
  BY DEF Becomes
<1>2. Typed /\ Reports BY DEF IInv
<1>3. /\ stage' \in [Daemons -> Stages]
      /\ \A e \in Daemons : e # d => stage'[e] = stage[e]
      /\ stage'[d] = s
      /\ Reports'
  BY <1>2, DaemonsMove
<1>4. Typed' BY <1>2, <1>3 DEF Typed, files
<1>5. ASSUME Owned PROVE Owned'
  <2>1. \A e \in Daemons : Holder(e)' => Holder(e) BY <1>3 DEF Holder
  <2>2. Holds' BY <1>5, <1>3, <2>1 DEF Owned, Holds, Holder, files
  <2>3. Stale' BY <1>5, <1>3, <2>1 DEF Owned, Stale, files
  <2>4. Told'
    <3> SUFFICES ASSUME NEW e \in Daemons, stage'[e] \in {"named", "loading", "ready"}
                 PROVE  \/ status'.pid = e /\ status'.loaded = (stage'[e] # "named" /\ e \notin loading')
                        \/ status'.loaded /\ stage'[status'.pid] \in {"closing", "exiting", "dead"}
      BY DEF Told
    <3>1. e # d /\ stage'[e] = stage[e] /\ (e \in loading' <=> e \in loading) BY <1>1, <1>3
    <3>2. status' = status BY DEF files
    <3>3. \/ status.pid = e /\ status.loaded = (stage[e] # "named" /\ e \notin loading)
          \/ status.loaded /\ stage[status.pid] \in {"closing", "exiting", "dead"}
      BY <3>1, <1>5 DEF Owned, Told
    <3>4. CASE status.pid = e /\ status.loaded = (stage[e] # "named" /\ e \notin loading)
      BY <3>1, <3>2, <3>4
    <3>5. CASE status.loaded /\ stage[status.pid] \in {"closing", "exiting", "dead"}
      <4>1. status.pid \in Daemons BY <1>2, <3>5 DEF Typed, Daemons
      <4>2. stage'[status.pid] \in {"closing", "exiting", "dead"} BY <3>5, <4>1, <1>3
      <4> QED BY <3>2, <3>5, <4>2
    <3> QED BY <3>3, <3>4, <3>5
  <2> QED BY <2>2, <2>3, <2>4 DEF Owned
<1> QED BY <1>3, <1>4, <1>5 DEF IInv

\* SIGTERM, to a daemon that the pid file names or to oneself.
LEMMA SignalledFalls ==
  ASSUME IInv, NEW d \in Daemons, Signalled(d), UNCHANGED <<files, raced>>
  PROVE  IInv'
<1> DEFINE s == IF Serving(d) THEN "ending" ELSE IF stage[d] \in {"ending", "closing", "exiting"}
                                                 THEN stage[d] ELSE "dead"
<1>1. Becomes(d, s) BY DEF Signalled
<1>2. /\ s \in Stages
      /\ \/ s = "ending" /\ stage[d] \in {"loading", "ready"}
         \/ s = stage[d] /\ s \in {"ending", "closing", "exiting"}
         \/ s = "dead"
  BY DEF Serving, Stages
<1> HIDE DEF s
<1> QED BY <1>1, <1>2, Falls

\* A process that is started is not yet at the files.
LEMMA BornIInv ==
  ASSUME IInv, NEW d \in Unborn, NEW m, Born(d, m), UNCHANGED <<files, raced>>
  PROVE  IInv'
<1>1. d \in Daemons /\ stage[d] = "unborn" BY DEF Unborn
<1>2. stage' = [stage EXCEPT ![d] = "checking"] /\ loading' = loading BY DEF Born
<1>3. stage'[d] = "checking" /\ \A e \in Daemons : e # d => stage'[e] = stage[e]
  BY <1>1, <1>2 DEF IInv, Typed
<1>4. Typed' BY <1>1, <1>2 DEF IInv, Typed, Stages, files
<1>5. Reports' BY <1>1, <1>2, <1>3 DEF IInv, Reports
<1>6. ASSUME Owned PROVE Owned'
  <2>1. \A e \in Daemons : Holder(e)' <=> Holder(e) BY <1>1, <1>3 DEF Holder
  <2>2. Holds' BY <1>1, <1>3, <1>6, <2>1 DEF Owned, Holds, files
  <2>3. Stale' BY <1>1, <1>3, <1>6, <2>1 DEF Owned, Stale, files
  <2>4. Told'
    <3>1. status.loaded => status.pid \in Daemons BY DEF IInv, Typed, Daemons
    <3>2. status' = status BY DEF files
    <3>3. status.loaded /\ stage[status.pid] \in {"closing", "exiting", "dead"}
            => stage'[status.pid] \in {"closing", "exiting", "dead"}
      BY <1>1, <1>3, <3>1
    <3> QED BY <1>2, <1>3, <1>6, <3>2, <3>3 DEF Owned, Told
  <2> QED BY <2>2, <2>3, <2>4 DEF Owned
<1> QED BY <1>4, <1>5, <1>6 DEF IInv

\* A daemon that is not up: before it is bound, or when it has begun to end.
LEMMA AtTheFiles ==
  ASSUME IInv, NEW d \in Daemons, NEW s, Becomes(d, s),
         \/ stage[d] \in {"checking", "stale", "binding"} /\ s \in {"stale", "binding", "bound", "dead"}
         \/ stage[d] \in {"ending", "closing"} /\ s \in {"closing", "exiting"},
         path' \in 0 .. MaxDaemons, pidfile' \in 0 .. MaxDaemons,
         status' = status \/ (status' = NoStatus /\ Holder(d)),
         ~raced' => ~raced,
         /\ stage' \in [Daemons -> Stages] /\ stage'[d] = s
         /\ \A e \in Daemons : e # d => stage'[e] = stage[e]
         /\ ~raced' /\ Owned
         => Holds' /\ Stale'
  PROVE  IInv'
<1>1. Typed /\ Reports BY DEF IInv
<1>2. s \in Stages /\ (d \in loading => s \in {"closing", "exiting"}) BY <1>1 DEF Stages, Reports
<1>3. /\ stage' \in [Daemons -> Stages]
      /\ \A e \in Daemons : e # d => stage'[e] = stage[e]
      /\ stage'[d] = s
      /\ Reports'
  BY <1>1, <1>2, DaemonsMove
<1>4. Typed'
  <2>1. NoStatus \in [pid : 0 .. MaxDaemons, loaded : BOOLEAN] /\ ~NoStatus.loaded
    BY OwnershipAssumption DEF NoStatus, OwnershipAssumption
  <2>2. status' \in [pid : 0 .. MaxDaemons, loaded : BOOLEAN] /\ (status'.loaded => status'.pid # 0)
    BY <1>1, <2>1 DEF Typed
  <2> QED BY <1>3, <2>2 DEF Typed
<1>5. ASSUME ~raced' PROVE Owned'
  <2>1. Owned BY <1>5 DEF IInv
  <2>2. Told'
    <3> SUFFICES ASSUME NEW e \in Daemons, stage'[e] \in {"named", "loading", "ready"}
                 PROVE  \/ status'.pid = e /\ status'.loaded = (stage'[e] # "named" /\ e \notin loading')
                        \/ status'.loaded /\ stage'[status'.pid] \in {"closing", "exiting", "dead"}
      BY DEF Told
    <3>1. e # d /\ stage'[e] = stage[e] /\ Holder(e) BY <1>3 DEF Holder
    <3>2. e \in loading' <=> e \in loading BY <3>1 DEF Becomes
    <3>3. ~Holder(d) BY <2>1, <3>1 DEF Owned, Holds
    <3>4. status' = status BY <3>3
    <3>5. \/ status.pid = e /\ status.loaded = (stage[e] # "named" /\ e \notin loading)
          \/ status.loaded /\ stage[status.pid] \in {"closing", "exiting", "dead"}
      BY <2>1, <3>1 DEF Owned, Told
    <3>6. CASE status.pid = e /\ status.loaded = (stage[e] # "named" /\ e \notin loading)
      BY <3>1, <3>2, <3>4, <3>6
    <3>7. CASE status.loaded /\ stage[status.pid] \in {"closing", "exiting", "dead"}
      <4>1. status.pid \in Daemons BY <1>1, <3>7 DEF Typed, Daemons
      <4>2. status.pid # d BY <3>3, <3>7 DEF Holder
      <4> QED BY <3>4, <3>7, <4>1, <4>2, <1>3
    <3> QED BY <3>5, <3>6, <3>7
  <2> QED BY <1>3, <1>5, <2>1, <2>2 DEF Owned
<1> QED BY <1>3, <1>4, <1>5 DEF IInv

\* One that has bound the socket and goes on to serve.
LEMMA Serves ==
  ASSUME IInv, NEW d \in Daemons, NEW s,
         \/ s = "named" /\ stage[d] = "bound" /\ pidfile' = d
              /\ status' = [pid |-> d, loaded |-> FALSE]
         \/ s = "loading" /\ stage[d] = "named" /\ UNCHANGED <<pidfile, status>>
         \/ s = "ready" /\ stage[d] = "loading" /\ UNCHANGED <<pidfile, status>>,
         Becomes(d, s), UNCHANGED <<path, raced>>
  PROVE  IInv'
<1>1. Typed /\ Reports BY DEF IInv
<1>2. s \in Stages /\ (d \in loading => s = "ready") /\ Holder(d) BY <1>1 DEF Stages, Reports, Holder
<1>3. /\ stage' \in [Daemons -> Stages]
      /\ \A e \in Daemons : e # d => stage'[e] = stage[e]
      /\ stage'[d] = s
      /\ Reports'
  BY <1>1, <1>2, DaemonsMove
<1>4. d \in 1 .. MaxDaemons /\ d # 0 /\ d \in 0 .. MaxDaemons
  BY OwnershipAssumption DEF OwnershipAssumption, Daemons
<1>5. Typed'
  <2>1. status' \in [pid : 0 .. MaxDaemons, loaded : BOOLEAN] /\ (status'.loaded => status'.pid # 0)
    <3>1. CASE status' = [pid |-> d, loaded |-> FALSE] BY <3>1, <1>4
    <3>2. CASE status' = status BY <3>2, <1>1 DEF Typed
    <3> QED BY <3>1, <3>2
  <2> QED BY <1>1, <1>3, <1>4, <2>1 DEF Typed
<1>6. ASSUME Owned PROVE Owned'
  <2>1. \A e \in Daemons : e # d => stage'[e] \in {"unborn", "checking", "binding", "exiting", "dead"}
    BY <1>1, <1>2, <1>3, <1>6, Alone
  <2>2. path' = d /\ pidfile' = d BY <1>2, <1>6 DEF Owned, Holds
  <2>3. Holds' BY <1>3, <2>1, <2>2 DEF Holds, Holder
  <2>4. Stale' BY <1>2, <1>3, <2>1 DEF Stale
  <2>5. loading' = IF s = "loading" THEN loading \cup {d} ELSE loading BY DEF Becomes
  <2>6. \/ status'.pid = d /\ status'.loaded = (s # "named" /\ d \notin loading')
        \/ status'.loaded /\ stage'[status'.pid] \in {"closing", "exiting", "dead"}
    <3>1. CASE s = "named"
      <4>1. status'.pid = d /\ status'.loaded = FALSE BY <3>1
      <4>2. (s # "named" /\ d \notin loading') = FALSE BY <3>1
      <4> QED BY <4>1, <4>2
    <3>2. CASE s \in {"loading", "ready"}
      <4>1. status' = status /\ stage[d] \in {"named", "loading"} BY <3>2
      <4>2. \/ status.pid = d /\ status.loaded = (stage[d] # "named" /\ d \notin loading)
            \/ status.loaded /\ stage[status.pid] \in {"closing", "exiting", "dead"}
        BY <4>1, <1>6 DEF Owned, Told
      <4>3. CASE status.pid = d /\ status.loaded = (stage[d] # "named" /\ d \notin loading)
        BY <3>2, <4>1, <4>3, <2>5
      <4>4. CASE status.loaded /\ stage[status.pid] \in {"closing", "exiting", "dead"}
        <5>1. status.pid \in Daemons /\ status.pid # d BY <1>1, <4>1, <4>4 DEF Typed, Daemons
        <5> QED BY <4>1, <4>4, <5>1, <1>3
      <4> QED BY <4>2, <4>3, <4>4
    <3> QED BY <3>1, <3>2
  <2>7. Told' BY <1>3, <2>1, <2>6 DEF Told
  <2> QED BY <2>3, <2>4, <2>7 DEF Owned
<1> QED BY <1>3, <1>5, <1>6 DEF IInv

\* The worker's report is written over whatever status there is.
LEMMA TellLoadedIInv ==
  ASSUME IInv, NEW d \in Daemons, TellLoaded(d), UNCHANGED raced
  PROVE  IInv'
<1>1. /\ d \in loading /\ stage[d] # "loading" /\ loading' = loading \ {d}
      /\ status' = [pid |-> d, loaded |-> TRUE] /\ UNCHANGED <<stage, path, pidfile>>
  BY DEF TellLoaded, WriteStatus
<1>2. stage[d] \in {"ready", "ending", "closing", "exiting"} BY <1>1 DEF IInv, Reports
<1>3. d \in 1 .. MaxDaemons /\ d # 0 /\ d \in 0 .. MaxDaemons
  BY OwnershipAssumption DEF OwnershipAssumption, Daemons
<1>4. Typed' BY <1>1, <1>3 DEF IInv, Typed
<1>5. Reports' BY <1>1 DEF IInv, Reports
<1>6. ASSUME Owned PROVE Owned'
  <2>1. Holds' /\ Stale' BY <1>1, <1>6 DEF Owned, Holds, Stale, Holder
  <2>2. Told'
    <3> SUFFICES ASSUME NEW e \in Daemons, stage[e] \in {"named", "loading", "ready"}
                 PROVE  \/ d = e /\ stage[e] # "named" /\ e \notin loading'
                        \/ stage[d] \in {"closing", "exiting", "dead"}
      BY <1>1 DEF Told
    <3>1. CASE e = d BY <3>1, <1>1, <1>2
    <3>2. CASE e # d
      <4>1. Holder(e) BY DEF Holder
      <4>2. ~Holder(d) BY <3>2, <4>1, <1>6 DEF Owned, Holds
      <4> QED BY <4>2, <1>2 DEF Holder
    <3> QED BY <3>1, <3>2
  <2> QED BY <2>1, <2>2 DEF Owned
<1> QED BY <1>1, <1>4, <1>5, <1>6 DEF IInv

LEMMA DaemonIInv ==
  ASSUME IInv, NEW d \in Daemons, Daemon(d)
  PROVE  IInv'
<1>1. ~CheckSocket(d) => UNCHANGED raced BY DEF Daemon
<1>2. d \in 0 .. MaxDaemons /\ d # 0 BY OwnershipAssumption DEF OwnershipAssumption, Daemons
<1>3. path \in 0 .. MaxDaemons /\ pidfile \in 0 .. MaxDaemons /\ 0 \in 0 .. MaxDaemons
  BY OwnershipAssumption DEF IInv, Typed, OwnershipAssumption
<1> DEFINE Moved(s) == /\ stage' \in [Daemons -> Stages] /\ stage'[d] = s
                       /\ \A e \in Daemons : e # d => stage'[e] = stage[e]
                       /\ ~raced' /\ Owned
<1>4. CASE CheckSocket(d)
  <2>1. /\ stage[d] = "checking" /\ UNCHANGED files
        /\ raced' = (raced \/ (path # 0 /\ ~Reachable /\ Races(d)))
    BY <1>4 DEF CheckSocket
  <2>2. CASE path # 0 /\ ~Reachable
    <3>1. Becomes(d, "stale") BY <1>4, <2>2 DEF CheckSocket
    <3>2. Moved("stale") => Holds' /\ Stale'
      <4> SUFFICES ASSUME Moved("stale") PROVE Holds' /\ Stale'
        OBVIOUS
      <4>1. ~Races(d) BY <2>1, <2>2
      <4>2. \A e \in Daemons : ~Holder(e)
        <5> SUFFICES ASSUME NEW e \in Daemons, Holder(e) PROVE FALSE
          OBVIOUS
        <5>1. path = e BY DEF Owned, Holds
        <5>2. Reachable BY <5>1, <2>2 DEF Holder, Reachable, Listening, Alive
        <5> QED BY <5>2, <2>2
      <4>3. Holds' BY <4>2 DEF Holds, Holder
      <4>4. Stale' BY <4>1, <4>2, <2>1, <2>2 DEF Stale, Holder, Races, files
      <4> QED BY <4>3, <4>4
    <3> QED BY <1>3, <2>1, <3>1, <3>2, AtTheFiles DEF files
  <2>3. CASE ~(path # 0 /\ ~Reachable)
    <3>1. PICK s \in {"binding", "dead"} : Becomes(d, s) BY <1>4, <2>3 DEF CheckSocket
    <3>2. Moved(s) => Holds' /\ Stale' BY <2>1 DEF Owned, Holds, Stale, Holder, files
    <3> QED BY <1>3, <2>1, <3>1, <3>2, AtTheFiles DEF files
  <2> QED BY <2>2, <2>3
<1>5. CASE RemoveStale(d)
  <2> DEFINE s == IF path = 0 THEN "dead" ELSE "binding"
  <2>1. /\ Becomes(d, s) /\ stage[d] = "stale" /\ s \in {"binding", "dead"}
        /\ path' = 0 /\ pidfile' = pidfile /\ status' = status
    BY <1>5 DEF RemoveStale
  <2> HIDE DEF s
  <2>2. Moved(s) => Holds' /\ Stale' BY <2>1 DEF Owned, Holds, Stale, Holder
  <2>3. ~raced' => ~raced BY <1>1, <2>1 DEF CheckSocket
  <2> QED BY <1>3, <2>1, <2>2, <2>3, AtTheFiles
<1>6. CASE Bind(d)
  <2>1. stage[d] = "binding" /\ pidfile' = pidfile /\ status' = status
    BY <1>6 DEF Bind
  <2>2. ~raced' => ~raced BY <1>1, <2>1 DEF CheckSocket
  <2>3. CASE path = 0
    <3>1. Becomes(d, "bound") /\ path' = d BY <1>6, <2>3 DEF Bind
    <3>2. Moved("bound") => Holds' /\ Stale'
      BY <1>2, <2>1, <2>3, <3>1 DEF Owned, Holds, Stale, Holder, Daemons
    <3> QED BY <1>2, <1>3, <2>1, <2>2, <3>1, <3>2, AtTheFiles
  <2>4. CASE path # 0
    <3>1. Becomes(d, "dead") /\ path' = path BY <1>6, <2>4 DEF Bind
    <3>2. Moved("dead") => Holds' /\ Stale' BY <2>1, <3>1 DEF Owned, Holds, Stale, Holder
    <3> QED BY <1>3, <2>1, <2>2, <3>1, <3>2, AtTheFiles
  <2> QED BY <2>3, <2>4
<1>7. CASE WriteFiles(d)
  <2>1. /\ stage[d] = "bound" /\ Becomes(d, "named") /\ pidfile' = d
        /\ status' = [pid |-> d, loaded |-> FALSE] /\ path' = path
    BY <1>7 DEF WriteFiles, WriteStatus
  <2>2. UNCHANGED raced BY <1>1, <2>1 DEF CheckSocket
  <2> QED BY <2>1, <2>2, Serves
<1>8. CASE HandleSignals(d)
  <2>1. stage[d] = "named" /\ Becomes(d, "loading") /\ UNCHANGED files BY <1>8 DEF HandleSignals
  <2>2. UNCHANGED raced BY <1>1, <2>1 DEF CheckSocket
  <2> QED BY <2>1, <2>2, Serves DEF files
<1>9. CASE Loaded(d)
  <2>1. stage[d] = "loading" /\ Becomes(d, "ready") /\ UNCHANGED files BY <1>9 DEF Loaded
  <2>2. UNCHANGED raced BY <1>1, <2>1 DEF CheckSocket
  <2> QED BY <2>1, <2>2, Serves DEF files
<1>10. CASE TellLoaded(d)
  <2>1. stage[d] # "checking" BY <1>10 DEF TellLoaded, IInv, Reports
  <2>2. UNCHANGED raced BY <1>1, <2>1 DEF CheckSocket
  <2> QED BY <1>10, <2>2, TellLoadedIInv
<1>11. CASE RemoveFiles(d)
  <2>1. /\ stage[d] = "ending" /\ Becomes(d, "closing")
        /\ pidfile' = 0 /\ status' = NoStatus /\ path' = path
    BY <1>11 DEF RemoveFiles
  <2>2. Holder(d) BY <2>1 DEF Holder
  <2>3. ~raced' => ~raced BY <1>1, <2>1 DEF CheckSocket
  <2>4. Moved("closing") => Holds' /\ Stale'
    <3> SUFFICES ASSUME Moved("closing") PROVE Holds' /\ Stale'
      OBVIOUS
    <3>1. \A e \in Daemons : e # d => stage'[e] \in {"unborn", "checking", "binding", "exiting", "dead"}
      BY <2>2, Alone DEF IInv
    <3>2. path' = d BY <2>1, <2>2 DEF Owned, Holds
    <3> QED BY <3>1, <3>2 DEF Holds, Stale, Holder
  <2> QED BY <1>3, <2>1, <2>2, <2>3, <2>4, AtTheFiles
<1>12. CASE RemoveSocket(d)
  <2>1. /\ stage[d] = "closing" /\ Becomes(d, "exiting")
        /\ path' = 0 /\ pidfile' = pidfile /\ status' = status
    BY <1>12 DEF RemoveSocket
  <2>2. Holder(d) BY <2>1 DEF Holder
  <2>3. ~raced' => ~raced BY <1>1, <2>1 DEF CheckSocket
  <2>4. Moved("exiting") => Holds' /\ Stale'
    <3> SUFFICES ASSUME Moved("exiting") PROVE Holds' /\ Stale'
      OBVIOUS
    <3>1. \A e \in Daemons : e # d => stage'[e] \in {"unborn", "checking", "binding", "exiting", "dead"}
      BY <2>2, Alone DEF IInv
    <3> QED BY <3>1 DEF Holds, Stale, Holder
  <2> QED BY <1>3, <2>1, <2>3, <2>4, AtTheFiles
<1>13. CASE Exit(d)
  <2>1. stage[d] = "exiting" /\ Becomes(d, "dead") /\ UNCHANGED files BY <1>13 DEF Exit
  <2>2. UNCHANGED raced BY <1>1, <2>1 DEF CheckSocket
  <2> QED BY <2>1, <2>2, Falls DEF Stages
<1> QED
  BY <1>4, <1>5, <1>6, <1>7, <1>8, <1>9, <1>10, <1>11, <1>12, <1>13 DEF Daemon

-----------------------------------------------------------------------------
(* The clients and the user *)

\* The daemon spawned next is one that was not there.
LEMMA NewbornUnborn == ASSUME Unborn # {} PROVE Newborn \in Unborn
<1>1. Unborn \subseteq Nat BY DEF Unborn, Daemons
<1> DEFINE R == OpToRel(<, Nat)
<1>2. R = {p \in Nat \X Nat : p[1] < p[2]} BY DEF OpToRel
<1>3. IsWellFoundedOn(R, Nat) BY NatLessThanWellFounded
<1> HIDE DEF R
<1>4. PICK m \in Unborn : \A k \in Unborn : ~(<<k, m>> \in R) BY <1>1, <1>3, WFMin
<1>5. \A k \in Unborn : m <= k
  <2> SUFFICES ASSUME NEW k \in Unborn, k < m PROVE FALSE
    BY <1>1
  <2>1. <<k, m>> \in R BY <1>1, <1>2
  <2> QED BY <2>1, <1>4
<1> QED BY <1>5 DEF Newborn

\* What is not a daemon's does not touch their files.
LEMMA Untouched ==
  ASSUME IInv, UNCHANGED <<stage, loading, files, raced>>
  PROVE  IInv'
BY DEF IInv, Typed, Reports, Owned, Holds, Stale, Told, Holder, files

\* Only a start, a retirement and a quit reach a daemon.
LEMMA TransportReaches ==
  ASSUME NEW c \in Clients, Transport(c)
  PROVE  /\ UNCHANGED <<files, raced>>
         /\ \/ UNCHANGED <<stage, loading>>
            \/ Alive(pidfile) /\ Signalled(pidfile)
            \/ Spawn(c)
<1>1. CASE Refused(c) BY <1>1 DEF Refused, daemons
<1>2. CASE \/ ObserveModels(c) \/ Refresh(c) \/ Greet(c) \/ NoDaemon(c) \/ Adopt(c) \/ Lost(c)
           \/ TimesOut(c) \/ Vanished(c) \/ NotVanished(c) \/ SpawnRefused(c) \/ SpawnFails(c)
           \/ ChildDied(c) \/ NotReady(c) \/ Reconnect(c) \/ BeginFlush(c)
  BY <1>2 DEF ObserveModels, Refresh, Greet, NoDaemon, Adopt, Lost, TimesOut, Vanished, NotVanished,
              SpawnRefused, SpawnFails, ChildDied, NotReady, Reconnect, BeginFlush, daemons
<1>3. CASE Spawn(c) BY <1>3 DEF Spawn
<1> QED BY <1>1, <1>2, <1>3 DEF Transport

LEMMA NextIInv ==
  ASSUME IInv, [Next]_vars
  PROVE  IInv'
<1>1. ASSUME NEW d \in Daemons, Daemon(d) PROVE IInv' BY <1>1, DaemonIInv
<1>2. ASSUME NEW d \in Daemons, Dies(d) PROVE IInv' BY <1>2, Falls DEF Dies, Stages
<1>3. ASSUME NEW d \in Daemons, IdleExit(d) PROVE IInv' BY <1>3, SignalledFalls DEF IdleExit
<1>4. Alive(pidfile) => pidfile \in Daemons BY DEF IInv, Typed, Alive, Daemons
<1>5. ASSUME NEW c \in Clients, Transport(c) PROVE IInv'
  <2>1. UNCHANGED <<files, raced>> BY <1>5, TransportReaches
  <2>2. CASE UNCHANGED <<stage, loading>> BY <2>1, <2>2, Untouched
  <2>3. CASE Alive(pidfile) /\ Signalled(pidfile) BY <2>1, <2>3, <1>4, SignalledFalls
  <2>4. CASE Spawn(c) BY <2>1, <2>4, NewbornUnborn, BornIInv DEF Spawn
  <2> QED BY <1>5, <2>2, <2>3, <2>4, TransportReaches
<1>6. ASSUME NEW c \in Clients,
             \/ Reader(c) \/ BackoffEnds(c) \/ CooldownEnds(c) \/ Press(c) \/ EndsSession(c) \/ SelectModels(c)
      PROVE  IInv'
  BY <1>6, Untouched DEF Reader, Answered, ReaderEnds, BackoffEnds, CooldownEnds, Press, EndsSession, Flush,
                         EndSession, SelectModels, daemons
<1>7. ASSUME NEW c \in Clients, Quit(c) PROVE IInv'
  <2>1. UNCHANGED <<files, raced>> BY <1>7 DEF Quit
  <2>2. CASE Alive(pidfile) BY <1>4, <1>7, <2>1, <2>2, SignalledFalls DEF Quit, StopRunning
  <2>3. CASE ~Alive(pidfile) BY <1>7, <2>1, <2>3, Untouched DEF Quit, StopRunning, daemons
  <2> QED BY <2>2, <2>3
<1>8. CASE StartedElsewhere BY <1>8, NewbornUnborn, BornIInv DEF StartedElsewhere
<1>9. CASE UNCHANGED vars BY <1>9, Untouched DEF vars, daemons
<1> QED BY <1>1, <1>2, <1>3, <1>5, <1>6, <1>7, <1>8, <1>9 DEF Next

-----------------------------------------------------------------------------
\* A daemon that serves has the socket and the pid file to itself, and is what the
\* windows show, for any clients and others that start daemons, until two daemons have
\* found the same stale file: however its start is interleaved with the starts and ends
\* of the rest, with crashes that leave files, retiring and Quit (ensure_sole_daemon,
\* bind, remove_socket_on_termination, try_spawn, retire_mismatched_daemon).
THEOREM ServingIsSole == Spec => []ServingOwnsItsFiles
<1>1. IInv /\ [Next]_vars => IInv' BY NextIInv
<1>2. Spec => []IInv BY <1>1, InitIInv, PTL DEF Spec
<1>3. IInv => ServingOwnsItsFiles
  <2> SUFFICES ASSUME IInv, ~raced, NEW d \in Daemons, Serving(d)
               PROVE  /\ path = d /\ pidfile = d
                      /\ \/ status.pid = d /\ DaemonStatus = [running |-> TRUE, loaded |-> d \notin loading]
                         \/ status.loaded /\ stage[status.pid] \in {"closing", "exiting", "dead"}
    BY DEF ServingOwnsItsFiles
  <2>1. stage[d] \in {"loading", "ready"} /\ d # 0 BY DEF Serving
  <2>2. path = d /\ pidfile = d BY <2>1 DEF IInv, Owned, Holds, Holder
  <2>3. CASE status.pid = d /\ status.loaded = (d \notin loading)
    <3>1. Alive(d) BY <2>1 DEF Alive
    <3> QED BY <2>1, <2>2, <2>3, <3>1 DEF DaemonStatus
  <2>4. \/ status.pid = d /\ status.loaded = (d \notin loading)
        \/ status.loaded /\ stage[status.pid] \in {"closing", "exiting", "dead"}
    BY <2>1 DEF IInv, Owned, Told
  <2> QED BY <2>2, <2>3, <2>4
<1> QED BY <1>2, <1>3, PTL

-----------------------------------------------------------------------------
(* One client alone: the files hold no lock, but it starts a daemon only when it has   *)
(* seen that nothing but its child can be there.                                       *)

OneClient == \E c \in Clients : Clients = {c}

\* A daemon that may still touch the socket path.
Busy(d) == Holder(d) \/ stage[d] \in {"checking", "stale", "binding"}

\* Only one daemon is at the files.
Sole == \A d, e \in Daemons : Busy(d) /\ Busy(e) => d = e

\* It is the client's child, or it was there before and can be reached.
Known == \A c \in Clients, d \in Daemons :
           Busy(d) /\ d # child[c] => stage[d] \in {"ready", "ending", "closing"}

\* About to spawn, the client has seen that only its child can be there.
Clear == \A c \in Clients, d \in Daemons : at[c] = "spawning" /\ Busy(d) => d = child[c]

Places == {"idle", "connecting", "greeting", "retiring", "spawning", "flushed"}

SInv ==
  /\ at \in [Clients -> Places] /\ child \in [Clients -> 0 .. MaxDaemons]
  /\ Sole /\ Known /\ Clear
  /\ foreign = {} /\ ~raced

LEMMA InitSInv == Init => SInv
<1> SUFFICES ASSUME Init PROVE SInv
  OBVIOUS
<1>1. \A d \in Daemons : stage[d] \in {"unborn", "dead", "ready"} /\ (stage[d] = "ready" => d = 1)
  BY DEF Init
<1>2. Sole /\ Known /\ Clear BY <1>1 DEF Init, Sole, Known, Clear, Busy, Holder
<1> QED BY <1>2, OwnershipAssumption DEF Init, SInv, Places, OwnershipAssumption

\* Where nothing can be reached, nothing but the child is at the files.
LEMMA SeenClear ==
  ASSUME IInv, SInv, NEW c \in Clients, path = 0 \/ ~Reachable, NEW d \in Daemons, Busy(d)
  PROVE  d = child[c]
<1> SUFFICES ASSUME d # child[c] PROVE FALSE
  OBVIOUS
<1>1. stage[d] \in {"ready", "ending", "closing"} BY DEF SInv, Known
<1>2. path = d BY <1>1 DEF IInv, SInv, Owned, Holds, Holder
<1>3. d # 0 BY OwnershipAssumption DEF Daemons, OwnershipAssumption
<1>4. Reachable BY <1>1, <1>2, <1>3 DEF Reachable, Listening, Alive
<1> QED BY <1>2, <1>3, <1>4

\* A step that starts no daemon: none comes back to the files, a client is about to
\* spawn only when it has seen nothing, and forgets only a child that is gone.
LEMMA Settles ==
  ASSUME IInv, SInv,
         \A d \in Daemons : /\ Busy(d)' => Busy(d)
                            /\ Busy(d)' /\ stage[d] \in {"ready", "ending", "closing"}
                                 => stage'[d] \in {"ready", "ending", "closing"},
         at' \in [Clients -> Places], child' \in [Clients -> 0 .. MaxDaemons],
         \A c \in Clients : /\ at'[c] = "spawning" => at[c] = "spawning" \/ path = 0 \/ ~Reachable
                            /\ child'[c] = child[c] \/ ~Alive(child[c]),
         foreign' = foreign, ~raced'
  PROVE  SInv'
<1>1. \A d \in Daemons, c \in Clients : Busy(d) /\ d = child[c] => d = child'[c]
  <2> SUFFICES ASSUME NEW d \in Daemons, NEW c \in Clients, Busy(d), d = child[c]
               PROVE  d = child'[c]
    OBVIOUS
  <2>1. Alive(d) BY OwnershipAssumption DEF Busy, Holder, Alive, Daemons, OwnershipAssumption
  <2> QED BY <2>1
<1>2. Sole' BY DEF SInv, Sole
<1>3. Known'
  <2> SUFFICES ASSUME NEW c \in Clients, NEW d \in Daemons, Busy(d)', d # child'[c]
               PROVE  stage'[d] \in {"ready", "ending", "closing"}
    BY DEF Known
  <2>1. Busy(d) /\ d # child[c] BY <1>1
  <2>2. stage[d] \in {"ready", "ending", "closing"} BY <2>1 DEF SInv, Known
  <2> QED BY <2>2
<1>4. Clear'
  <2> SUFFICES ASSUME NEW c \in Clients, NEW d \in Daemons, at'[c] = "spawning", Busy(d)'
               PROVE  d = child'[c]
    BY DEF Clear
  <2>1. d = child[c] BY SeenClear DEF SInv, Clear
  <2> QED BY <1>1, <2>1
<1> QED BY <1>2, <1>3, <1>4 DEF SInv

\* The stages a daemon goes through do not bring it back to the files.
LEMMA Onwards ==
  ASSUME Typed, NEW d \in Daemons, NEW s \in Stages, Becomes(d, s),
         s # "unborn", s = "checking" => stage[d] = "checking",
         stage[d] \in {"exiting", "dead"} => s \in {"exiting", "dead"},
         stage[d] # "unborn" \/ s = "dead",
         stage[d] \in {"ready", "ending", "closing"} => s \in {"ready", "ending", "closing", "exiting", "dead"}
  PROVE  \A e \in Daemons : /\ Busy(e)' => Busy(e)
                            /\ Busy(e)' /\ stage[e] \in {"ready", "ending", "closing"}
                                 => stage'[e] \in {"ready", "ending", "closing"}
<1>1. stage' = [stage EXCEPT ![d] = s] BY DEF Becomes
<1>2. stage'[d] = s /\ \A e \in Daemons : e # d => stage'[e] = stage[e] BY <1>1 DEF Typed
<1>3. stage[d] \in Stages BY DEF Typed
<1> SUFFICES ASSUME NEW e \in Daemons, Busy(e)'
             PROVE  Busy(e) /\ (stage[e] \in {"ready", "ending", "closing"}
                                  => stage'[e] \in {"ready", "ending", "closing"})
  OBVIOUS
<1>4. CASE e # d BY <1>2, <1>4 DEF Busy, Holder
<1>5. CASE e = d BY <1>2, <1>3, <1>5 DEF Busy, Holder, Stages
<1> QED BY <1>4, <1>5

LEMMA SignalledOnwards ==
  ASSUME Typed, NEW d \in Daemons, Alive(d), Signalled(d)
  PROVE  \A e \in Daemons : /\ Busy(e)' => Busy(e)
                            /\ Busy(e)' /\ stage[e] \in {"ready", "ending", "closing"}
                                 => stage'[e] \in {"ready", "ending", "closing"}
<1> DEFINE s == IF Serving(d) THEN "ending" ELSE IF stage[d] \in {"ending", "closing", "exiting"}
                                                 THEN stage[d] ELSE "dead"
<1>1. Becomes(d, s) BY DEF Signalled
<1>2. s \in {"ending", "closing", "exiting", "dead"} /\ (stage[d] = "exiting" => s = "exiting")
  BY DEF Serving
<1>3. stage[d] \in Stages /\ stage[d] \notin {"unborn", "dead"} BY DEF Alive, Typed
<1> HIDE DEF s
<1> QED BY <1>1, <1>2, <1>3, Onwards DEF Stages

LEMMA DaemonSInv ==
  ASSUME IInv, SInv, NEW d \in Daemons, Daemon(d)
  PROVE  SInv'
<1>1. UNCHANGED <<at, child, foreign>> BY DEF Daemon, here, spawner
<1>2. ~raced'
  <2>1. CASE CheckSocket(d)
    <3>1. ~Races(d) BY <2>1 DEF CheckSocket, Races, SInv, Sole, Busy
    <3> QED BY <2>1, <3>1 DEF CheckSocket, SInv
  <2>2. CASE ~CheckSocket(d) BY <2>2 DEF Daemon, SInv
  <2> QED BY <2>1, <2>2
<1>3. \A e \in Daemons : /\ Busy(e)' => Busy(e)
                         /\ Busy(e)' /\ stage[e] \in {"ready", "ending", "closing"}
                              => stage'[e] \in {"ready", "ending", "closing"}
  <2>1. Typed BY DEF IInv
  <2>2. CASE TellLoaded(d) BY <2>2 DEF TellLoaded, Busy, Holder
  <2>3. ASSUME NEW s \in {"stale", "binding", "bound", "dead"}, Becomes(d, s),
               stage[d] \in {"checking", "stale", "binding"}
        PROVE  <1>3!:
    BY <2>1, <2>3, Onwards DEF Stages
  <2>4. ASSUME NEW s \in {"named", "loading", "ready"}, Becomes(d, s), stage[d] \in {"bound", "named", "loading"}
        PROVE  <1>3!:
    BY <2>1, <2>4, Onwards DEF Stages
  <2>5. ASSUME NEW s \in {"closing", "exiting", "dead"}, Becomes(d, s), stage[d] \in {"ending", "closing", "exiting"},
               stage[d] = "exiting" => s = "dead"
        PROVE  <1>3!:
    BY <2>1, <2>5, Onwards DEF Stages
  <2>6. CASE CheckSocket(d) \/ RemoveStale(d) \/ Bind(d)
    BY <2>3, <2>6 DEF CheckSocket, RemoveStale, Bind
  <2>7. CASE WriteFiles(d) \/ HandleSignals(d) \/ Loaded(d)
    BY <2>4, <2>7 DEF WriteFiles, HandleSignals, Loaded
  <2>8. CASE RemoveFiles(d) \/ RemoveSocket(d) \/ Exit(d)
    BY <2>5, <2>8 DEF RemoveFiles, RemoveSocket, Exit
  <2> QED BY <2>2, <2>6, <2>7, <2>8 DEF Daemon
<1> QED BY <1>1, <1>2, <1>3, Settles DEF SInv

\* try_spawn: the child before is gone, so the new one is alone.
LEMMA SpawnSInv ==
  ASSUME OneClient, IInv, SInv, NEW c \in Clients, Spawn(c)
  PROVE  SInv'
<1>1. /\ at[c] = "spawning" /\ ~Alive(child[c]) /\ Unborn # {} /\ Born(Newborn, want[c])
      /\ child' = [child EXCEPT ![c] = Newborn]
      /\ at' = [at EXCEPT ![c] = "connecting"] /\ UNCHANGED <<foreign, raced>>
  BY DEF Spawn, MaySpawn, Goes
<1>2. PICK n \in Daemons : n = Newborn /\ stage[n] = "unborn" BY <1>1, NewbornUnborn DEF Unborn
<1>3. stage'[n] = "checking" /\ \A d \in Daemons : d # n => stage'[d] = stage[d]
  BY <1>1, <1>2 DEF IInv, Typed, Born
<1>4. \A d \in Daemons : ~Busy(d)
  <2> SUFFICES ASSUME NEW d \in Daemons, Busy(d) PROVE FALSE
    OBVIOUS
  <2>1. d = child[c] BY <1>1 DEF SInv, Clear
  <2>2. Alive(d) BY OwnershipAssumption DEF Busy, Holder, Alive, Daemons, OwnershipAssumption
  <2> QED BY <1>1, <2>1, <2>2
<1>5. \A d \in Daemons : Busy(d)' => d = n BY <1>3, <1>4 DEF Busy, Holder
<1>6. \A o \in Clients : o = c BY DEF OneClient
<1>7. child'[c] = n /\ at'[c] = "connecting" BY <1>1, <1>2 DEF SInv
<1>8. Sole' /\ Known' /\ Clear' BY <1>5, <1>6, <1>7 DEF Sole, Known, Clear
<1>9. at' \in [Clients -> Places] /\ child' \in [Clients -> 0 .. MaxDaemons]
  BY <1>1, <1>2 DEF SInv, Places, Daemons
<1> QED BY <1>1, <1>8, <1>9 DEF SInv

\* Where a step of the transport thread leaves it, and its child.
LEMMA TransportPlaces ==
  ASSUME SInv, NEW c \in Clients, Transport(c), ~Spawn(c)
  PROVE  /\ at' \in [Clients -> Places] /\ child' \in [Clients -> 0 .. MaxDaemons]
         /\ \A o \in Clients : /\ at'[o] = "spawning" => at[o] = "spawning" \/ path = 0 \/ ~Reachable
                               /\ child'[o] = child[o] \/ ~Alive(child[o])
         /\ UNCHANGED <<foreign, raced>>
<1>1. \/ at' = at
      \/ \E place \in Places : /\ at' = [at EXCEPT ![c] = place]
                               /\ place = "spawning" => path = 0 \/ ~Reachable
  <2>1. ASSUME NEW place \in Places, Goes(c, place), place = "spawning" => path = 0 \/ ~Reachable
        PROVE  <1>1!:
    BY <2>1 DEF Goes
  <2>2. ASSUME UNCHANGED at PROVE <1>1!: BY <2>2
  <2>3. ASSUME Retry(c) PROVE <1>1!: BY <2>1, <2>3 DEF Retry, Places
  <2>4. CASE ObserveModels(c) BY <2>2, <2>4 DEF ObserveModels, here
  <2>5. CASE Refresh(c) BY <2>1, <2>2, <2>5 DEF Refresh, here, Places
  <2>6. CASE Greet(c) BY <2>1, <2>6 DEF Greet, Places
  <2>7. CASE NoDaemon(c) BY <2>1, <2>7 DEF NoDaemon, Places
  <2>8. CASE Adopt(c) BY <2>1, <2>8 DEF Adopt, Places
  <2>9. CASE Refused(c) BY <2>1, <2>3, <2>9 DEF Refused, Places
  <2>10. CASE Lost(c) \/ TimesOut(c) \/ NotVanished(c) \/ SpawnRefused(c) \/ SpawnFails(c) \/ ChildDied(c)
              \/ NotReady(c)
    BY <2>3, <2>10 DEF Lost, TimesOut, NotVanished, SpawnRefused, SpawnFails, ChildDied, NotReady
  <2>11. CASE Vanished(c) BY <2>1, <2>11 DEF Vanished, Places
  <2>12. CASE Reconnect(c) BY <2>1, <2>2, <2>12 DEF Reconnect, here, Places
  <2>13. CASE BeginFlush(c) BY <2>1, <2>13 DEF BeginFlush, Places
  <2> QED BY <2>4, <2>5, <2>6, <2>7, <2>8, <2>9, <2>10, <2>11, <2>12, <2>13 DEF Transport
<1>2. child' = child \/ (child' = [child EXCEPT ![c] = 0] /\ ~Alive(child[c]))
  BY DEF Transport, ObserveModels, Refresh, Greet, NoDaemon, Adopt, Refused, Lost, TimesOut, Vanished,
         NotVanished, SpawnRefused, SpawnFails, MaySpawn, ChildDied, NotReady, Reconnect, BeginFlush, spawner
<1>3. UNCHANGED <<foreign, raced>>
  BY DEF Transport, ObserveModels, Refresh, Greet, NoDaemon, Adopt, Refused, Lost, TimesOut, Vanished,
         NotVanished, SpawnRefused, SpawnFails, ChildDied, NotReady, Reconnect, BeginFlush
<1>4. at' \in [Clients -> Places] /\ child' \in [Clients -> 0 .. MaxDaemons]
  BY <1>1, <1>2, OwnershipAssumption DEF SInv, OwnershipAssumption
<1>5. ASSUME NEW o \in Clients
      PROVE  /\ at'[o] = "spawning" => at[o] = "spawning" \/ path = 0 \/ ~Reachable
             /\ child'[o] = child[o] \/ ~Alive(child[o])
  BY <1>1, <1>2 DEF SInv
<1> QED BY <1>3, <1>4, <1>5

LEMMA NextSInv ==
  ASSUME OneClient, MaxForeign = 0, IInv, SInv, [Next]_vars
  PROVE  SInv'
<1> DEFINE Same == \A e \in Daemons : /\ Busy(e)' => Busy(e)
                                      /\ Busy(e)' /\ stage[e] \in {"ready", "ending", "closing"}
                                           => stage'[e] \in {"ready", "ending", "closing"}
<1>1. UNCHANGED stage => Same BY DEF Busy, Holder
<1>2. Alive(pidfile) /\ Signalled(pidfile) => Same
  BY SignalledOnwards DEF IInv, Typed, Alive, Daemons
<1>3. Typed /\ (Same /\ UNCHANGED <<at, child, foreign, raced>> => SInv')
  BY Settles DEF IInv, SInv
<1> HIDE DEF Same
<1>4. ASSUME NEW d \in Daemons, Daemon(d) PROVE SInv' BY <1>4, DaemonSInv
<1>5. ASSUME NEW d \in Daemons, Dies(d) PROVE SInv'
  <2>1. Same BY <1>3, <1>5, Onwards DEF Dies, Alive, Stages, Same
  <2> QED BY <1>3, <1>5, <2>1 DEF Dies, here, spawner
<1>6. ASSUME NEW d \in Daemons, IdleExit(d) PROVE SInv'
  <2>1. Alive(d) BY <1>6, OwnershipAssumption DEF IdleExit, Alive, Daemons, OwnershipAssumption
  <2>2. Same BY <1>3, <1>6, <2>1, SignalledOnwards DEF IdleExit, Same
  <2> QED BY <1>3, <1>6, <2>2 DEF IdleExit, here, spawner
<1>7. ASSUME NEW c \in Clients, Transport(c) PROVE SInv'
  <2>1. CASE Spawn(c) BY <2>1, SpawnSInv
  <2>2. CASE ~Spawn(c)
    <3>1. Same BY <1>1, <1>2, <1>7, <2>2, TransportReaches
    <3> QED BY <1>7, <2>2, <3>1, TransportPlaces, Settles DEF SInv, Same
  <2> QED BY <2>1, <2>2
<1>8. ASSUME NEW c \in Clients,
             Reader(c) \/ BackoffEnds(c) \/ CooldownEnds(c) \/ EndSession(c) \/ SelectModels(c)
      PROVE  SInv'
  BY <1>1, <1>3, <1>8 DEF Reader, Answered, ReaderEnds, BackoffEnds, CooldownEnds, EndSession, SelectModels,
                          daemons, here, spawner
<1>9. ASSUME NEW c \in Clients, Press(c) \/ Flush(c) PROVE SInv'
  <2>1. at' = at \/ \E place \in {"connecting", "flushed"} : at' = [at EXCEPT ![c] = place]
    BY <1>9 DEF Press, Flush, Goes, here
  <2>2. UNCHANGED <<stage, child, foreign, raced>> BY <1>9 DEF Press, Flush, daemons, spawner
  <2>3. at' \in [Clients -> Places] /\ \A o \in Clients : at'[o] = "spawning" => at[o] = "spawning"
    BY <2>1 DEF SInv, Places
  <2> QED BY <1>1, <2>2, <2>3, Settles DEF SInv, Same
<1>10. ASSUME NEW c \in Clients, Quit(c) PROVE SInv'
  <2>1. Same BY <1>1, <1>2, <1>10 DEF Quit, StopRunning, daemons
  <2> QED BY <1>3, <1>10, <2>1 DEF Quit, here, spawner
<1>11. ~StartedElsewhere BY FS_EmptySet DEF StartedElsewhere, SInv
<1>12. CASE UNCHANGED vars BY <1>1, <1>3, <1>12 DEF vars, daemons, here, spawner
<1> QED
  BY <1>4, <1>5, <1>6, <1>7, <1>8, <1>9, <1>10, <1>11, <1>12 DEF Next, EndsSession

\* One client to whom nobody else starts daemons never has two of them at a stale file,
\* whatever crashes leave, so that what serves has its files to itself always: the cooldown,
\* its child and what it saw at the socket keep it from starting a second (try_spawn).
THEOREM AloneNothingRaces ==
  ASSUME OneClient, MaxForeign = 0
  PROVE  Spec => []~raced
<1>1. IInv /\ SInv /\ [Next]_vars => IInv' /\ SInv' BY NextIInv, NextSInv
<1>2. Spec => [](IInv /\ SInv) BY <1>1, InitIInv, InitSInv, PTL DEF Spec
<1>3. SInv => ~raced BY DEF SInv
<1> QED BY <1>2, <1>3, PTL
=============================================================================
