-------------------------- MODULE Transport_proofs --------------------------
(***************************************************************************)
(* Proofs about Transport, for any number of dictations, reruns, chunks,   *)
(* model pairs and faults.                                                 *)
(***************************************************************************)
EXTENDS Transport, FiniteSetTheorems, SequenceTheorems, TLAPS

-----------------------------------------------------------------------------
(* The network state *)

\* What every step keeps of the network: the connection held is the newest
\* generation, no mark is from the future, and when its reader has left the
\* read loop or a mark condemns it, the daemon's end of it is really gone.
Gone(n, c) == ~n.links[c].open
Sound(n) ==
    /\ n \in Net
    /\ n.conn # 0 => n.conn = Epoch(n)
    /\ n.mark <= Epoch(n) + 1
    /\ n.conn # 0 /\ n.links[n.conn].reader # "reading" => Gone(n, n.conn)
    /\ n.conn # 0 /\ DeathMarked(n) => Gone(n, n.conn)

LEMMA LinkTypes ==
    /\ FreshLink \in Link
    /\ NoStream \in Link
    /\ \A l \in Link : Closed(l) \in Link /\ ~Closed(l).open /\ Closed(l).reader = l.reader
<1>1. <<>> \in Seq(ClientFrame) /\ <<>> \in Seq(DaemonFrame) /\ <<>> \in Text
    BY EmptySeq DEF Text
<1>2. FreshLink \in Link
    BY <1>1 DEF FreshLink, Link
<1>3. NoStream \in Link
    BY <1>2 DEF NoStream, Link
<1>4. ASSUME NEW l \in Link
      PROVE  Closed(l) \in Link /\ ~Closed(l).open /\ Closed(l).reader = l.reader
    BY <1>1 DEF Closed, Link
<1> QED BY <1>2, <1>3, <1>4

LEMMA DroppedSound ==
    ASSUME NEW n, Sound(n)
    PROVE  Sound(Dropped(n)) /\ Dropped(n).conn = 0 /\ Dropped(n).faults = n.faults
<1> DEFINE left == IF n.conn = 0 THEN n.links ELSE [n.links EXCEPT ![n.conn] = Closed(@)]
<1>1. n.links \in Seq(Link) /\ n \in Net
    BY DEF Sound, Net
<1>2. left \in Seq(Link) /\ Len(left) = Len(n.links)
    <2>1. CASE n.conn = 0
        BY <2>1, <1>1
    <2>2. CASE n.conn # 0
        <3>1. n.conn \in 1..Len(n.links)
            BY <2>2, <1>1 DEF Sound, Epoch, Net
        <3>2. Closed(n.links[n.conn]) \in Link
            BY <3>1, <1>1, LinkTypes, ElementOfSeq
        <3> QED BY <2>2, <3>1, <3>2, <1>1, ExceptSeq
    <2> QED BY <2>1, <2>2
<1> DEFINE ls == Append(left, NoStream)
           m == [n EXCEPT !.conn = 0, !.models = NoModel, !.links = ls]
<1>3. ls \in Seq(Link) /\ Len(ls) = Len(n.links) + 1
    BY <1>2, LinkTypes, AppendProperties
<1>4. Dropped(n) = m
    BY DEF Dropped
<1> HIDE DEF left, ls
<1>5. m \in Net /\ m.conn = 0 /\ m.faults = n.faults /\ m.mark = n.mark /\ m.links = ls
    BY <1>1, <1>3 DEF Net
<1> HIDE DEF m
<1> QED BY <1>1, <1>3, <1>4, <1>5, LenProperties DEF Sound, Epoch, Net

LEMMA ConnectedSound ==
    ASSUME NEW n, Sound(n), desired \in Models
    PROVE  Sound(Connected(n)) /\ Connected(n).conn # 0 /\ Connected(n).faults = n.faults
<1> DEFINE ls == Append(n.links, FreshLink)
<1>1. n.links \in Seq(Link) /\ n \in Net /\ n.mark <= Len(n.links) + 1 /\ n.mark \in Nat
      /\ Len(n.links) \in Nat
    BY LenProperties DEF Sound, Net, Epoch
<1>2. ls \in Seq(Link) /\ Len(ls) = Len(n.links) + 1 /\ ls[Len(ls)] = FreshLink
    BY <1>1, LinkTypes, AppendProperties
<1> HIDE DEF ls
<1> DEFINE e == Len(n.links) + 1
           m == [n EXCEPT !.conn = e, !.models = desired, !.links = ls]
<1>3. Connected(n) = m
    BY DEF Connected, Epoch, ls
<1>e. e \in Nat /\ e = Len(ls)
    BY <1>1, <1>2
<1> HIDE DEF e
<1>4. /\ m \in Net
      /\ m.conn = e /\ m.mark = n.mark /\ m.links = ls /\ m.faults = n.faults
    BY <1>1, <1>2, <1>e DEF Net
<1> HIDE DEF m
<1>5. ls[Len(ls)].reader = "reading"
    BY <1>2 DEF FreshLink
<1>6. ~DeathMarked(m)
    BY <1>1, <1>2, <1>4, <1>e DEF DeathMarked, Epoch
<1> QED BY <1>1, <1>2, <1>3, <1>4, <1>5, <1>6, <1>e DEF Sound, Epoch

LEMMA MarkTaken ==
    ASSUME NEW n, Sound(n)
    PROVE  Sound([n EXCEPT !.mark = 0]) /\ [n EXCEPT !.mark = 0].conn = n.conn
<1> DEFINE m == [n EXCEPT !.mark = 0]
<1>1. n.links \in Seq(Link) /\ Len(n.links) \in Nat
    BY LenProperties DEF Sound, Net
<1>2. m \in Net /\ m.conn = n.conn /\ m.links = n.links /\ m.mark = 0
    BY DEF Sound, Net
<1> QED BY <1>1, <1>2 DEF Sound, Epoch, DeathMarked, Gone

LEMMA EnsureConnectedSound ==
    ASSUME NEW n, Sound(n), desired \in Models, NEW a \in EnsureConnected(n)
    PROVE  Sound(a.net) /\ a.ok \in BOOLEAN /\ (a.ok => a.net.conn # 0)
<1> DEFINE swept == IF n.conn = 0 THEN n
                    ELSE IF DeathMarked(n) THEN Dropped([n EXCEPT !.mark = 0])
                    ELSE [n EXCEPT !.mark = 0]
           given == [net |-> [swept EXCEPT !.faults = @ + 1], ok |-> FALSE]
<1>1. Sound(swept)
    BY MarkTaken, DroppedSound
<1> HIDE DEF swept
<1>2. \/ a = [net |-> swept, ok |-> TRUE] /\ swept.conn # 0
      \/ a = [net |-> Connected(swept), ok |-> TRUE]
      \/ a = given /\ swept.faults < MaxFaults
    BY DEF EnsureConnected, swept
<1>3. swept.faults < MaxFaults => Sound([swept EXCEPT !.faults = @ + 1])
    <2> DEFINE m == [swept EXCEPT !.faults = @ + 1]
    <2> SUFFICES ASSUME swept.faults < MaxFaults PROVE Sound(m)
        OBVIOUS
    <2>1. m \in Net /\ m.conn = swept.conn /\ m.links = swept.links /\ m.mark = swept.mark
        <3>1. swept \in Net /\ MaxFaults \in Nat
            BY <1>1, BoundsAssumption DEF Sound
        <3>2. swept.faults + 1 \in 0..MaxFaults
            BY <3>1 DEF Net
        <3> QED BY <3>1, <3>2 DEF Net
    <2> QED BY <1>1, <2>1 DEF Sound, Epoch, DeathMarked, Gone
<1>4. CASE a = [net |-> swept, ok |-> TRUE] /\ swept.conn # 0
    BY <1>1, <1>4
<1>5. CASE a = [net |-> Connected(swept), ok |-> TRUE]
    BY <1>1, <1>5, ConnectedSound
<1>6. CASE a = given /\ swept.faults < MaxFaults
    BY <1>3, <1>6
<1> QED BY <1>2, <1>4, <1>5, <1>6

\* Replacing one generation's state keeps the network sound as long as a
\* reader that left its loop, on the connection held, found it gone.
LEMMA LinkReplaced ==
    ASSUME NEW n, Sound(n), NEW c \in DOMAIN n.links, NEW l \in Link,
           n.conn = c => \/ ~l.open
                         \/ l.open = n.links[c].open /\ l.reader = n.links[c].reader
    PROVE  LET m == [n EXCEPT !.links = [n.links EXCEPT ![c] = l]]
           IN  /\ Sound(m) /\ m.conn = n.conn /\ Epoch(m) = Epoch(n)
               /\ m.mark = n.mark /\ m.faults = n.faults
               /\ m.links = [n.links EXCEPT ![c] = l]
<1> DEFINE ls == [n.links EXCEPT ![c] = l]
           m == [n EXCEPT !.links = ls]
<1>1. n.links \in Seq(Link) /\ Len(n.links) \in Nat /\ c \in 1..Len(n.links)
    BY LenProperties DEF Sound, Net
<1>2. ls \in Seq(Link) /\ Len(ls) = Len(n.links)
      /\ \A j \in 1..Len(n.links) : ls[j] = IF j = c THEN l ELSE n.links[j]
    BY <1>1, ExceptSeq
<1> HIDE DEF ls
<1>3. m \in Net /\ m.conn = n.conn /\ m.links = ls /\ m.mark = n.mark /\ m.faults = n.faults
    BY <1>2 DEF Sound, Net
<1>4. n.conn # 0 => n.conn \in 1..Len(n.links)
    BY <1>1 DEF Sound, Net, Epoch
<1> HIDE DEF m
<1>5. Sound(m)
    BY <1>1, <1>2, <1>3, <1>4 DEF Sound, Epoch, DeathMarked, Gone
<1> QED BY <1>2, <1>3, <1>5 DEF Epoch, m, ls

LEMMA WrittenSound ==
    ASSUME NEW n, Sound(n), n.conn # 0, NEW f \in ClientFrame
    PROVE  LET w == Written(n, f)
           IN  Sound(w.net) /\ w.ok \in BOOLEAN
<1> DEFINE old == n.links[n.conn]
           l == [old EXCEPT !.up = Append(@, f)]
<1>1. n.conn \in DOMAIN n.links /\ old \in Link
    BY LenProperties, ElementOfSeq DEF Sound, Net, Epoch
<1>2. Append(old.up, f) \in Seq(ClientFrame)
    BY <1>1, AppendProperties DEF Link
<1>3. l \in Link /\ l.open = old.open /\ l.reader = old.reader
    BY <1>1, <1>2 DEF Link
<1>4. Sound([n EXCEPT !.links = [n.links EXCEPT ![n.conn] = l]])
    BY <1>1, <1>3, LinkReplaced
<1>5. [n EXCEPT !.links[n.conn].up = Append(@, f)]
      = [n EXCEPT !.links = [n.links EXCEPT ![n.conn] = l]]
    OBVIOUS
<1> QED BY <1>4, <1>5, DroppedSound DEF Written

LEMMA SendSound ==
    ASSUME NEW n, Sound(n), desired \in Models, NEW f \in ClientFrame,
           NEW s \in Send(n, f)
    PROVE  Sound(s.net) /\ s.ok \in BOOLEAN
<1>1. PICK a \in EnsureConnected(n) : s = IF a.ok THEN Written(a.net, f) ELSE a
    BY DEF Send
<1>2. Sound(a.net) /\ a.ok \in BOOLEAN /\ (a.ok => a.net.conn # 0)
    BY EnsureConnectedSound
<1> QED BY <1>1, <1>2, WrittenSound

LEMMA SendStartSound ==
    ASSUME NEW n, Sound(n), desired \in Models, NEW f \in ClientFrame,
           NEW s \in SendStart(n, f)
    PROVE  Sound(s.net) /\ s.ok \in BOOLEAN
<1>1. PICK t \in Send(n, f) : s \in IF t.ok THEN {t} ELSE Send(t.net, f)
    BY DEF SendStart
<1>2. Sound(t.net) /\ t.ok \in BOOLEAN
    BY SendSound
<1> QED BY <1>1, <1>2, SendSound

-----------------------------------------------------------------------------
(* The inductive invariant *)

IInv == TypeOK /\ Sound(net)

\* What one step does to each part of the state, for the parts it changes.
LEMMA Unchanged ==
    ASSUME IInv
    PROVE  /\ UNCHANGED control => ControlOK'
           /\ UNCHANGED settings => SettingsOK'
           /\ UNCHANGED thread => ThreadOK'
           /\ UNCHANGED ledger => LedgerOK'
           /\ UNCHANGED <<results, inbox>> => ChannelsOK'
           /\ UNCHANGED net => Sound(net)'
           /\ Sound(net)' => NetOK'
           /\ UNCHANGED seen => SeenOK'
<1>1. UNCHANGED control => ControlOK'
    BY DEF IInv, TypeOK, ControlOK, control
<1>2. UNCHANGED settings => SettingsOK'
    BY DEF IInv, TypeOK, SettingsOK, settings
<1>3. UNCHANGED thread => ThreadOK'
    BY DEF IInv, TypeOK, ThreadOK, thread
<1>4. UNCHANGED ledger => LedgerOK'
    BY DEF IInv, TypeOK, LedgerOK, ledger
<1>5. UNCHANGED <<results, inbox>> => ChannelsOK'
    BY DEF IInv, TypeOK, ChannelsOK
<1>6. UNCHANGED net => Sound(net)'
    BY DEF IInv, Sound, Epoch, DeathMarked, Gone
<1>8. Sound(net)' => NetOK'
    BY DEF Sound, NetOK
<1>7. UNCHANGED seen => SeenOK'
    BY DEF IInv, TypeOK, SeenOK
<1> QED BY <1>1, <1>2, <1>3, <1>4, <1>5, <1>6, <1>7, <1>8

LEMMA SoundIsOK == Sound(net) => NetOK
BY DEF Sound, NetOK

LEMMA InitIInv == Init => IInv
<1> SUFFICES ASSUME Init PROVE IInv
    OBVIOUS
<1> USE DEF Init, ClientInit, ThreadInit, LedgerInit
<1>1. ControlOK
    BY BoundsAssumption DEF ControlOK
<1>2. SettingsOK
    BY EmptySeq DEF SettingsOK, Reply, Text, Owner, Rerun
<1>3. ThreadOK
    <2>1. NoRun \in [id : Reruns \cup {0}, pinned : Models \cup {NoModel}, sent : 0..ClipChunks]
        BY BoundsAssumption DEF NoRun
    <2> QED BY <2>1 DEF ThreadOK, Drive
<1>4. LedgerOK /\ ChannelsOK
    BY EmptySeq DEF LedgerOK, ChannelsOK, Text
<1>5. SeenOK
    BY DEF SeenOK
<1>6. Sound(net)
    BY EmptySeq, BoundsAssumption DEF Sound, Net, Epoch
<1> QED BY <1>1, <1>2, <1>3, <1>4, <1>5, <1>6, SoundIsOK DEF IInv, TypeOK

\* A command appended to the inbox, a result to the results.
LEMMA InboxTypes ==
    ASSUME IInv
    PROVE  /\ \A m \in Command : Append(inbox, m) \in Seq(Command)
           /\ inbox # <<>> => Head(inbox) \in Command /\ Tail(inbox) \in Seq(Command)
           /\ \A r \in Result : Append(results, r) \in Seq(Result)
           /\ results # <<>> => Head(results) \in Result /\ Tail(results) \in Seq(Result)
<1>1. inbox \in Seq(Command) /\ results \in Seq(Result)
    BY DEF IInv, TypeOK, ChannelsOK
<1> QED BY <1>1, AppendProperties, HeadTailProperties

LEMMA CommandTypes ==
    /\ \A d \in Dictations, k \in Nat : \A c \in {"Start", "Chunk", "Flush", "Cancel"} :
            Cmd(c, Dictation(d), k) \in Command
    /\ \A r \in Reruns, k \in Nat : Cmd("Reprocess", Rerun(r), k) \in Command
    /\ \A m \in Command : m.cmd # "Reprocess" =>
            m \in ClientFrame /\ m.of \in Owner /\ m.of.id \in Dictations
    /\ \A m \in Command : m.cmd = "Reprocess" => m.of \in Owner /\ m.of.id \in Reruns
<1> USE DEF Command, DictationCommand, RerunCommand, Owner, Dictation, Rerun, Cmd, ClientFrame
<1>1. \A d \in Dictations, k \in Nat : \A c \in {"Start", "Chunk", "Flush", "Cancel"} :
            Cmd(c, Dictation(d), k) \in Command
    OBVIOUS
<1>2. \A r \in Reruns, k \in Nat : Cmd("Reprocess", Rerun(r), k) \in Command
    OBVIOUS
<1>3. \A m \in Command : m.cmd # "Reprocess" =>
            m \in ClientFrame /\ m.of \in Owner /\ m.of.id \in Dictations
    OBVIOUS
<1>4. \A m \in Command : m.cmd = "Reprocess" => m.of \in Owner /\ m.of.id \in Reruns
    OBVIOUS
<1> QED BY <1>1, <1>2, <1>3, <1>4

-----------------------------------------------------------------------------
(* The control thread and the settings window *)

LEMMA ControlStep == IInv /\ Control => IInv'
<1> SUFFICES ASSUME IInv, Control PROVE IInv'
    OBVIOUS
<1>1. ControlOK /\ ChannelsOK
    BY DEF IInv, TypeOK
<1>2. CASE Press
    <2>1. cur' \in Dictations /\ ControlOK'
        BY <1>1, <1>2, BoundsAssumption DEF Press, ControlOK, Dictations
    <2>2. ChannelsOK'
        BY <1>1, <1>2, <2>1, InboxTypes, CommandTypes DEF Press, ChannelsOK
    <2> QED BY <1>2, <2>1, <2>2, Unchanged DEF Press, IInv, TypeOK
<1>3. CASE Speak
    <2>1. cur \in Dictations /\ spoken' \in Nat /\ ControlOK'
        BY <1>1, <1>3, BoundsAssumption DEF Speak, ControlOK, Dictations
    <2>2. ChannelsOK'
        BY <1>1, <1>3, <2>1, InboxTypes, CommandTypes DEF Speak, ChannelsOK
    <2> QED BY <1>3, <2>1, <2>2, Unchanged DEF Speak, IInv, TypeOK
<1>4. CASE Release
    <2>1. cur \in Dictations /\ ControlOK'
        BY <1>1, <1>4, BoundsAssumption DEF Release, ControlOK, Dictations
    <2>2. ChannelsOK'
        BY <1>1, <1>4, <2>1, InboxTypes, CommandTypes DEF Release, ChannelsOK
    <2> QED BY <1>4, <2>1, <2>2, Unchanged DEF Release, IInv, TypeOK
<1>5. CASE CancelDictation
    <2>1. cur \in Dictations /\ ControlOK'
        BY <1>1, <1>5, BoundsAssumption DEF CancelDictation, ControlOK, Dictations
    <2>2. ChannelsOK'
        BY <1>1, <1>5, <2>1, InboxTypes, CommandTypes DEF CancelDictation, ChannelsOK
    <2> QED BY <1>5, <2>1, <2>2, Unchanged DEF CancelDictation, IInv, TypeOK
<1>6. CASE FinishReceives
    <2>1. Head(results) \in Result /\ Tail(results) \in Seq(Result)
        BY <1>6, InboxTypes DEF FinishReceives
    <2>2. ControlOK'
        BY <1>1, <1>6, <2>1 DEF FinishReceives, ControlOK
    <2>3. ChannelsOK'
        BY <1>1, <1>6, <2>1 DEF FinishReceives, ChannelsOK
    <2> QED BY <1>6, <2>2, <2>3, Unchanged DEF FinishReceives, IInv, TypeOK
<1>7. CASE FinishTimesOut
    <2>1. ControlOK'
        BY <1>1, <1>7 DEF FinishTimesOut, ControlOK
    <2> QED BY <1>7, <2>1, Unchanged DEF FinishTimesOut, IInv, TypeOK
<1> QED BY <1>2, <1>3, <1>4, <1>5, <1>6, <1>7 DEF Control

\* A fault changes the budget alone.
LEMMA FaultSound == IInv /\ Fault => Sound(net)'
<1> SUFFICES ASSUME IInv, Fault PROVE Sound(net)'
    OBVIOUS
<1>1. net \in Net /\ MaxFaults \in Nat /\ net.faults + 1 \in 0..MaxFaults
    BY BoundsAssumption DEF IInv, Sound, Net, Fault
<1>2. net' = [net EXCEPT !.faults = @ + 1]
    BY DEF Fault
<1>3. /\ net' \in Net /\ net'.conn = net.conn /\ net'.links = net.links
      /\ net'.mark = net.mark
    BY <1>1, <1>2 DEF Net
<1> QED BY <1>3 DEF IInv, Sound, Epoch, DeathMarked, Gone

LEMMA SettingsStep == IInv /\ Settings => IInv'
<1> SUFFICES ASSUME IInv, Settings PROVE IInv'
    OBVIOUS
<1>1. SettingsOK /\ ChannelsOK
    BY DEF IInv, TypeOK
<1>2. ASSUME NEW m \in Models, SwitchModels(m) PROVE IInv'
    <2>1. SettingsOK'
        BY <1>1, <1>2 DEF SwitchModels, SettingsOK
    <2> QED BY <1>2, <2>1, FaultSound, Unchanged DEF SwitchModels, IInv, TypeOK
<1>3. ASSUME NEW r \in Reruns, RequestRerun(r) PROVE IInv'
    <2>1. [replies[r] EXCEPT !.status = "asked"] \in Reply
        BY <1>1 DEF SettingsOK, Reply
    <2>2. replies' = [replies EXCEPT ![r] = [replies[r] EXCEPT !.status = "asked"]]
        BY <1>3 DEF RequestRerun
    <2>3. SettingsOK'
        BY <1>1, <1>3, <2>1, <2>2 DEF RequestRerun, SettingsOK
    <2>4. ChannelsOK'
        BY <1>1, <1>3, InboxTypes, CommandTypes DEF RequestRerun, ChannelsOK
    <2> QED BY <1>3, <2>3, <2>4, Unchanged DEF RequestRerun, IInv, TypeOK
<1> QED BY <1>2, <1>3 DEF Settings

-----------------------------------------------------------------------------
(* The transport thread *)

LEMMA TakeTypes ==
    ASSUME IInv, NEW c, Take(c)
    PROVE  /\ Head(inbox) \in Command /\ Head(inbox).cmd = c /\ inbox' \in Seq(Command)
           /\ results \in Seq(Result)
           /\ c # "Reprocess" => /\ Head(inbox) \in ClientFrame
                                 /\ Head(inbox).of \in Owner
                                 /\ Head(inbox).of.id \in Dictations
           /\ c = "Reprocess" => Head(inbox).of \in Owner /\ Head(inbox).of.id \in Reruns
<1>1. Head(inbox) \in Command /\ Head(inbox).cmd = c /\ inbox' \in Seq(Command)
    BY InboxTypes DEF Take
<1>2. results \in Seq(Result)
    BY DEF IInv, TypeOK, ChannelsOK
<1> QED BY <1>1, <1>2, CommandTypes

LEMMA FailTypes ==
    \A o \in Owner : Failed(o) \in Result /\ Failed(Lost) \in Result
BY EmptySeq DEF Failed, Result, Text

LEMMA AfterTypes == \A ref : AfterCommand(ref) \in {"loop", "tail"}
BY DEF AfterCommand

\* The thread's own variables after a command that leaves a rerun alone.
LEMMA ThreadTypes ==
    ASSUME IInv, tpc' \in {"loop", "tail", "flushed"}, UNCHANGED run,
           session' \in {"idle", "active", "failed", "reprocessing"},
           dropped' \in Nat, refresh' \in BOOLEAN, UNCHANGED reprocessing, observed' \in Models
    PROVE  ThreadOK'
BY DEF IInv, TypeOK, ThreadOK, Drive

LEMMA CarriedKeeps ==
    ASSUME SeenOK, NEW f, Carried(f)
    PROVE  /\ seen'.lost = seen.lost
           /\ seen'.superseded = seen.superseded
           /\ seen'.abandoned = seen.abandoned
           /\ f.of.id \in Dictations => SeenOK'
<1>1. seen' = seen \/ seen' = [seen EXCEPT !.cut = @ \cup {f.of.id}]
    BY DEF Carried
<1> QED BY <1>1 DEF SeenOK

LEMMA LoseChunkTypes ==
    ASSUME IInv, NEW o \in Owner, o.id \in Dictations, LoseChunk(o)
    PROVE  dropped' \in Nat /\ SeenOK'
<1>1. dropped \in Nat /\ SeenOK
    BY DEF IInv, TypeOK, ThreadOK
<1>2. dropped' \in Nat
    BY <1>1 DEF LoseChunk
<1>3. SeenOK'
    BY <1>1 DEF LoseChunk, SeenOK
<1> QED BY <1>2, <1>3

LEMMA CommandsStep == IInv /\ Commands => IInv'
<1> SUFFICES ASSUME IInv, Commands PROVE IInv'
    OBVIOUS
<1>1. /\ Sound(net) /\ desired \in Models /\ observed \in Models /\ dropped \in Nat
      /\ refresh \in BOOLEAN
      /\ session \in {"idle", "active", "failed", "reprocessing"}
    BY DEF IInv, TypeOK, SettingsOK, ThreadOK
<1>2. CASE Boot
    <2>1. Sound(net)'
        BY <1>1, <1>2, EnsureConnectedSound DEF Boot
    <2>2. ThreadOK'
        BY <1>1, <1>2, ThreadTypes DEF Boot
    <2> QED BY <1>2, <2>1, <2>2, Unchanged DEF Boot, IInv, TypeOK
<1>3. CASE HandleStart
    <2>1. Take("Start")
        BY <1>3 DEF HandleStart
    <2>2. Head(inbox) \in ClientFrame /\ ChannelsOK'
        BY <1>3, <2>1, TakeTypes DEF HandleStart, ChannelsOK
    <2> DEFINE n == IF net.models = desired THEN net ELSE Dropped(net)
    <2>3. Sound(n)
        BY <1>1, DroppedSound
    <2>4. PICK s \in SendStart(n, Head(inbox)) :
              net' = s.net /\ session' = IF s.ok THEN "active" ELSE "failed"
        BY <1>3 DEF HandleStart
    <2> HIDE DEF n
    <2>5. Sound(net)'
        BY <1>1, <2>2, <2>3, <2>4, SendStartSound
    <2>6. ThreadOK'
        BY <1>1, <1>3, <2>4, AfterTypes, ThreadTypes DEF HandleStart
    <2> QED BY <1>3, <2>2, <2>5, <2>6, Unchanged DEF HandleStart, IInv, TypeOK
<1>4. CASE HandleChunk
    <2>1. Take("Chunk")
        BY <1>4 DEF HandleChunk
    <2>2. /\ Head(inbox) \in ClientFrame /\ Head(inbox).of \in Owner
          /\ Head(inbox).of.id \in Dictations /\ ChannelsOK'
        BY <1>4, <2>1, TakeTypes DEF HandleChunk, ChannelsOK
    <2>3. \/ LoseChunk(Head(inbox).of) /\ UNCHANGED net
          \/ \E s \in Send(net, Head(inbox)) :
                /\ net' = s.net
                /\ (Carried(Head(inbox)) /\ UNCHANGED dropped) \/ LoseChunk(Head(inbox).of)
        BY <1>4 DEF HandleChunk
    <2>4. Sound(net)'
        BY <1>1, <2>2, <2>3, SendSound, Unchanged
    <2>5. dropped' \in Nat /\ SeenOK'
        BY <1>1, <2>2, <2>3, LoseChunkTypes, CarriedKeeps, Unchanged DEF IInv, TypeOK, ThreadOK
    <2>6. ThreadOK'
        BY <1>1, <1>4, <2>5, AfterTypes, ThreadTypes DEF HandleChunk
    <2> QED BY <1>4, <2>2, <2>4, <2>5, <2>6, Unchanged DEF HandleChunk, IInv, TypeOK
<1>5. CASE HandleCancel
    <2>1. Take("Cancel")
        BY <1>5 DEF HandleCancel
    <2>2. Head(inbox) \in ClientFrame /\ ChannelsOK'
        BY <1>5, <2>1, TakeTypes DEF HandleCancel, ChannelsOK
    <2>3. UNCHANGED net \/ \E s \in Send(net, Head(inbox)) : net' = s.net
        BY <1>5 DEF HandleCancel
    <2>4. Sound(net)'
        BY <1>1, <2>2, <2>3, SendSound, Unchanged
    <2>5. ThreadOK'
        BY <1>1, <1>5, AfterTypes, ThreadTypes DEF HandleCancel
    <2> QED BY <1>5, <2>2, <2>4, <2>5, Unchanged DEF HandleCancel, IInv, TypeOK
<1>6. CASE FlushFails
    <2>1. Take("Flush")
        BY <1>6 DEF FlushFails
    <2> DEFINE o == Head(inbox).of
    <2>2. Head(inbox) \in ClientFrame /\ o \in Owner /\ inbox' \in Seq(Command)
        BY <2>1, TakeTypes
    <2>3. Cmd("Cancel", o, 0) \in ClientFrame
        BY <2>2 DEF Cmd, ClientFrame
    <2>4. /\ FailDictation(o)
          /\ dropped' \in {0, dropped}
          /\ \/ UNCHANGED net
             \/ \E s \in Send(net, Cmd("Cancel", o, 0)) : net' = s.net
             \/ \E s \in Send(net, Head(inbox)) : net' = s.net
        BY <1>6 DEF FlushFails
    <2>5. ChannelsOK'
        BY <2>2, <2>4, InboxTypes, FailTypes DEF FailDictation, ChannelsOK
    <2>6. Sound(net)'
        BY <1>1, <2>2, <2>3, <2>4, SendSound, Unchanged
    <2>7. ThreadOK'
        BY <1>1, <1>6, <2>4, AfterTypes, ThreadTypes DEF FlushFails
    <2> QED BY <1>6, <2>5, <2>6, <2>7, Unchanged DEF FlushFails, IInv, TypeOK
<1>7. CASE FlushWritten
    <2>1. Take("Flush")
        BY <1>7 DEF FlushWritten
    <2>2. Head(inbox) \in ClientFrame /\ ChannelsOK'
        BY <1>7, <2>1, TakeTypes DEF FlushWritten, ChannelsOK
    <2>3. Sound(net)'
        BY <1>1, <1>7, <2>2, SendSound DEF FlushWritten
    <2>4. ThreadOK'
        BY <1>1, <1>7, ThreadTypes DEF FlushWritten
    <2>5. Head(inbox).of.id \in Dictations
        BY <2>1, TakeTypes
    <2>6. SeenOK'
        BY <1>1, <1>7, <2>5, CarriedKeeps DEF FlushWritten, IInv, TypeOK
    <2> QED BY <1>7, <2>2, <2>3, <2>4, <2>6, Unchanged DEF FlushWritten, IInv, TypeOK
<1>8. CASE BeginFlush
    <2>1. LedgerOK'
        BY <1>8 DEF BeginFlush, IInv, TypeOK, LedgerOK
    <2>2. ThreadOK'
        BY <1>1, <1>8, AfterTypes, ThreadTypes DEF BeginFlush
    <2> QED BY <1>8, <2>1, <2>2, Unchanged DEF BeginFlush, IInv, TypeOK
<1>9. CASE RefreshModels
    <2> DEFINE n == IF net.models = desired THEN net ELSE Dropped(net)
    <2>1. Sound(n)
        BY <1>1, DroppedSound
    <2> HIDE DEF n
    <2>2. /\ UNCHANGED net \/ \E a \in EnsureConnected(n) : net' = a.net
          /\ refresh' \in BOOLEAN
        BY <1>1, <1>9 DEF RefreshModels, n
    <2>3. Sound(net)'
        BY <1>1, <2>1, <2>2, EnsureConnectedSound, Unchanged
    <2>4. ThreadOK'
        BY <1>1, <1>9, <2>2, ThreadTypes DEF RefreshModels
    <2> QED BY <1>9, <2>3, <2>4, Unchanged DEF RefreshModels, IInv, TypeOK
<1> QED BY <1>2, <1>3, <1>4, <1>5, <1>6, <1>7, <1>8, <1>9 DEF Commands

-----------------------------------------------------------------------------
(* The transport thread driving a rerun *)

LEMMA AnsweredTypes ==
    ASSUME IInv, NEW r \in Reruns, NEW status \in {"refused", "answered"},
           NEW o \in Owner, NEW parts \in Text, Answered(r, status, o, parts), UNCHANGED desired
    PROVE  SettingsOK'
<1>1. SettingsOK
    BY DEF IInv, TypeOK
<1>2. [status |-> status, of |-> o, raw |-> parts] \in Reply
    BY DEF Reply
<1> QED BY <1>1, <1>2 DEF Answered, SettingsOK

LEMMA RunFacts ==
    ASSUME IInv, tpc \in Drive
    PROVE  run.id \in Reruns /\ Rerun(run.id) \in Owner
<1>1. run.id \in Reruns
    BY DEF IInv, TypeOK, ThreadOK
<1> QED BY <1>1 DEF Owner, Rerun

LEMMA EndRerunTypes ==
    ASSUME IInv, tpc \in Drive, NEW status \in {"refused", "answered"},
           NEW o \in Owner, NEW parts \in Text, EndRerun(status, o, parts),
           UNCHANGED <<desired, dropped, observed, refresh, pending>>, raw' \in Text
    PROVE  SettingsOK' /\ ThreadOK' /\ LedgerOK' /\ SeenOK'
<1>1. SettingsOK'
    BY RunFacts, AnsweredTypes DEF EndRerun
<1>2. ThreadOK /\ LedgerOK /\ SeenOK
    BY DEF IInv, TypeOK
<1>3. NoRun \in [id : Reruns \cup {0}, pinned : Models \cup {NoModel}, sent : 0..ClipChunks]
    BY BoundsAssumption DEF NoRun
<1>4. ThreadOK'
    BY <1>2, <1>3, AfterTypes DEF EndRerun, ThreadOK, Drive
<1>5. LedgerOK'
    BY <1>2, EmptySeq DEF EndRerun, ClearReprocess, LedgerOK
<1>6. SeenOK'
    <2>1. AnswerComing(Rerun(run.id)) \in BOOLEAN
        BY DEF AnswerComing
    <2>2. (seen.abandoned \/ AnswerComing(Rerun(run.id))) \in BOOLEAN
        BY <2>1
    <2> HIDE DEF AnswerComing
    <2> QED BY <1>2, <2>2 DEF EndRerun, SeenOK
<1> QED BY <1>1, <1>4, <1>5, <1>6

LEMMA GiveUpTypes ==
    ASSUME IInv, tpc \in Drive, GiveUp,
           UNCHANGED <<desired, dropped, observed, refresh, pending, raw>>
    PROVE  SettingsOK' /\ ThreadOK' /\ LedgerOK' /\ SeenOK'
<1>1. raw \in Text /\ <<>> \in Text
    BY EmptySeq DEF IInv, TypeOK, LedgerOK, Text
<1> QED BY <1>1, RunFacts, EndRerunTypes DEF GiveUp

\* A drive step that goes on: only the thread's place and its count move.
LEMMA DriveTypes ==
    ASSUME IInv, tpc' \in Drive, run'.id # 0,
           run' \in [id : Reruns \cup {0}, pinned : Models \cup {NoModel}, sent : 0..ClipChunks],
           session' \in {"idle", "active", "failed", "reprocessing"}, reprocessing' \in BOOLEAN,
           UNCHANGED <<dropped, observed, refresh>>
    PROVE  ThreadOK'
BY DEF IInv, TypeOK, ThreadOK

LEMMA DrivingStep == IInv /\ Driving => IInv'
<1> SUFFICES ASSUME IInv, Driving PROVE IInv'
    OBVIOUS
<1>1. /\ Sound(net) /\ desired \in Models /\ observed \in Models /\ dropped \in Nat
      /\ refresh \in BOOLEAN /\ reprocessing \in BOOLEAN
      /\ session \in {"idle", "active", "failed", "reprocessing"}
      /\ run \in [id : Reruns \cup {0}, pinned : Models \cup {NoModel}, sent : 0..ClipChunks]
      /\ tpc \in Drive => run.id # 0
      /\ raw \in Text /\ answers \in Seq(Result) /\ pending \in Nat
    BY DEF IInv, TypeOK, SettingsOK, ThreadOK, LedgerOK
<1>t. <<>> \in Text
    BY EmptySeq DEF Text
<1>2. CASE RefuseRerun
    <2>1. Take("Reprocess")
        BY <1>2 DEF RefuseRerun
    <2>2. Head(inbox).of \in Owner /\ Head(inbox).of.id \in Reruns /\ ChannelsOK'
        BY <1>2, <2>1, TakeTypes DEF RefuseRerun, ChannelsOK
    <2>3. SettingsOK'
        BY <1>2, <1>t, <2>2, AnsweredTypes DEF RefuseRerun
    <2>4. refresh' \in BOOLEAN /\ observed' \in Models
        BY <1>1, <1>2 DEF RefuseRerun
    <2>5. ThreadOK'
        BY <1>1, <1>2, <2>4, ThreadTypes DEF RefuseRerun
    <2> QED BY <1>2, <2>2, <2>3, <2>5, Unchanged DEF RefuseRerun, IInv, TypeOK
<1>3. CASE BeginRerun
    <2>1. Take("Reprocess")
        BY <1>3 DEF BeginRerun
    <2>2. Head(inbox).of.id \in Reruns /\ ChannelsOK'
        BY <1>3, <2>1, TakeTypes DEF BeginRerun, ChannelsOK
    <2>3. /\ run' \in [id : Reruns \cup {0}, pinned : Models \cup {NoModel}, sent : 0..ClipChunks]
          /\ run'.id # 0
        BY <1>1, <1>3, <2>2, BoundsAssumption DEF BeginRerun, Reruns
    <2>4. ThreadOK'
        BY <1>1, <1>3, <2>3, DriveTypes DEF BeginRerun, Drive
    <2> QED BY <1>3, <2>2, <2>4, Unchanged DEF BeginRerun, IInv, TypeOK
<1>4. CASE RerunStart
    <2>1. tpc \in Drive
        BY <1>4 DEF RerunStart, Drive
    <2>2. Cmd("Start", Rerun(run.id), 0) \in ClientFrame
        BY <2>1, RunFacts DEF Cmd, ClientFrame
    <2>3. /\ \E s \in Send(net, Cmd("Start", Rerun(run.id), 0)) : net' = s.net
          /\ \/ /\ tpc' \in {tpc, "rerunChunks"}
                /\ UNCHANGED <<session, reprocessing, run, waiter, answers, replies, seen>>
             \/ GiveUp
          /\ UNCHANGED <<control, desired, dropped, observed, refresh, pending, raw, results, inbox>>
        BY <1>4 DEF RerunStart
    <2>4. Sound(net)'
        BY <1>1, <2>2, <2>3, SendSound
    <2>5. CASE GiveUp
        BY <2>1, <2>3, <2>4, <2>5, GiveUpTypes, Unchanged DEF IInv, TypeOK
    <2>6. CASE /\ tpc' \in {tpc, "rerunChunks"}
               /\ UNCHANGED <<session, reprocessing, run, waiter, answers, replies, seen>>
        <3>1. ThreadOK'
            BY <1>1, <2>1, <2>3, <2>6, DriveTypes DEF Drive
        <3> QED BY <2>3, <2>4, <2>6, <3>1, Unchanged DEF IInv, TypeOK, settings, ledger
    <2> QED BY <2>3, <2>5, <2>6
<1>5. CASE RerunChunk
    <2>1. tpc \in Drive
        BY <1>5 DEF RerunChunk, Drive
    <2>2. Cmd("Chunk", Rerun(run.id), run.sent + 1) \in ClientFrame
        BY <1>1, <2>1, RunFacts, BoundsAssumption DEF Cmd, ClientFrame
    <2>3. /\ \E s \in Send(net, Cmd("Chunk", Rerun(run.id), run.sent + 1)) : net' = s.net
          /\ run.sent < ClipChunks
          /\ \/ /\ run' = [run EXCEPT !.sent = @ + 1]
                /\ UNCHANGED <<tpc, session, reprocessing, waiter, answers, replies, seen>>
             \/ GiveUp
          /\ UNCHANGED <<control, desired, dropped, observed, refresh, pending, raw, results, inbox>>
        BY <1>5 DEF RerunChunk
    <2>4. Sound(net)'
        BY <1>1, <2>2, <2>3, SendSound
    <2>5. CASE GiveUp
        BY <2>1, <2>3, <2>4, <2>5, GiveUpTypes, Unchanged DEF IInv, TypeOK
    <2>6. CASE /\ run' = [run EXCEPT !.sent = @ + 1]
               /\ UNCHANGED <<tpc, session, reprocessing, waiter, answers, replies, seen>>
        <3>1. run.sent + 1 \in 0..ClipChunks
            BY <1>1, <2>3, BoundsAssumption
        <3>2. /\ run' \in [id : Reruns \cup {0}, pinned : Models \cup {NoModel},
                            sent : 0..ClipChunks]
              /\ run'.id = run.id
            BY <1>1, <2>6, <3>1
        <3>3. ThreadOK'
            BY <1>1, <2>1, <2>3, <2>6, <3>2, DriveTypes
        <3> QED BY <2>3, <2>4, <2>6, <3>3, Unchanged DEF IInv, TypeOK, settings, ledger
    <2> QED BY <2>3, <2>5, <2>6
<1>6. CASE RerunArm
    <2>1. tpc \in Drive
        BY <1>6 DEF RerunArm, Drive
    <2>2. LedgerOK'
        BY <1>1, <1>6, <1>t, EmptySeq DEF RerunArm, LedgerOK
    <2>3. ThreadOK'
        BY <1>1, <1>6, <2>1, DriveTypes DEF RerunArm, Drive
    <2> QED BY <1>6, <2>2, <2>3, Unchanged DEF RerunArm, IInv, TypeOK
<1>7. CASE RerunFlush
    <2>1. tpc \in Drive
        BY <1>7 DEF RerunFlush, Drive
    <2>2. Cmd("Flush", Rerun(run.id), 0) \in ClientFrame
        BY <2>1, RunFacts DEF Cmd, ClientFrame
    <2>3. /\ \E s \in Send(net, Cmd("Flush", Rerun(run.id), 0)) : net' = s.net
          /\ \/ /\ tpc' = "rerunWait"
                /\ UNCHANGED <<session, reprocessing, run, waiter, answers, replies, seen>>
             \/ GiveUp
          /\ UNCHANGED <<control, desired, dropped, observed, refresh, pending, raw, results, inbox>>
        BY <1>7 DEF RerunFlush
    <2>4. Sound(net)'
        BY <1>1, <2>2, <2>3, SendSound
    <2>5. CASE GiveUp
        BY <2>1, <2>3, <2>4, <2>5, GiveUpTypes, Unchanged DEF IInv, TypeOK
    <2>6. CASE /\ tpc' = "rerunWait"
               /\ UNCHANGED <<session, reprocessing, run, waiter, answers, replies, seen>>
        <3>1. ThreadOK'
            BY <1>1, <2>1, <2>3, <2>6, DriveTypes DEF Drive
        <3> QED BY <2>3, <2>4, <2>6, <3>1, Unchanged DEF IInv, TypeOK, settings, ledger
    <2> QED BY <2>3, <2>5, <2>6
<1>8. CASE RerunDrains
    <2>1. tpc \in Drive /\ tpc' = tpc /\ run' = run
        BY <1>8 DEF RerunDrains, Drive
    <2> DEFINE m == Head(inbox)
    <2>2. m \in Command /\ inbox' \in Seq(Command)
        BY <1>8, InboxTypes DEF RerunDrains
    <2>3. m.of \in Owner
        BY <2>2, CommandTypes
    <2>4. ThreadOK'
        BY <1>1, <1>8, <2>1, DriveTypes DEF RerunDrains
    <2>5. \/ /\ FailDictation(m.of) \/ UNCHANGED results
             /\ UNCHANGED <<replies, seen>>
          \/ /\ m.cmd = "Reprocess"
             /\ Answered(m.of.id, "refused", m.of, <<>>)
             /\ UNCHANGED <<results, seen>>
          \/ /\ m.cmd # "Reprocess"
             /\ seen' = [seen EXCEPT !.lost = @ \cup {m.of.id}]
             /\ UNCHANGED <<results, replies>>
        BY <1>8 DEF RerunDrains
    <2>6. ChannelsOK'
        BY <2>2, <2>3, <2>5, InboxTypes, FailTypes, TakeTypes
        DEF FailDictation, ChannelsOK, IInv, TypeOK
    <2>7. UNCHANGED <<control, desired, ledger, net>>
        BY <1>8 DEF RerunDrains
    <2>8. SettingsOK'
        BY <1>t, <2>2, <2>5, <2>7, CommandTypes, AnsweredTypes, Unchanged DEF settings
    <2>9. SeenOK'
        BY <2>2, <2>5, CommandTypes DEF SeenOK, IInv, TypeOK
    <2> QED BY <2>4, <2>6, <2>7, <2>8, <2>9, Unchanged DEF IInv, TypeOK
<1>9. CASE RerunAnswered
    <2>1. tpc \in Drive
        BY <1>9 DEF RerunAnswered, Drive
    <2>2. answers # <<>> /\ Head(answers) \in Result
        BY <1>1, <1>9, HeadTailProperties DEF RerunAnswered
    <2>3. Head(answers).kind = "final" => Head(answers).of \in Owner
        BY <2>2 DEF Result
    <2>4. \/ /\ Head(answers).kind = "final"
             /\ EndRerun("answered", Head(answers).of, raw)
             /\ raw' = <<>>
          \/ GiveUp /\ UNCHANGED raw
        BY <1>9 DEF RerunAnswered, TakeRaw
    <2>5. UNCHANGED <<control, desired, dropped, observed, refresh, pending, results, inbox, net>>
        BY <1>9 DEF RerunAnswered
    <2>6. SettingsOK' /\ ThreadOK' /\ LedgerOK' /\ SeenOK'
        <3>1. CASE GiveUp /\ UNCHANGED raw
            BY <2>1, <2>5, <3>1, GiveUpTypes
        <3>2. CASE /\ Head(answers).kind = "final"
                   /\ EndRerun("answered", Head(answers).of, raw)
                   /\ raw' = <<>>
            <4>1. "answered" \in {"refused", "answered"} /\ Head(answers).of \in Owner /\ raw' \in Text
                BY <1>t, <2>3, <3>2
            <4> QED BY <1>1, <2>1, <2>5, <3>2, <4>1, EndRerunTypes
        <3> QED BY <2>4, <3>1, <3>2
    <2> QED BY <2>5, <2>6, Unchanged DEF IInv, TypeOK
<1>10. CASE RerunAbandoned
    <2>1. tpc \in Drive
        BY <1>10 DEF RerunAbandoned, Drive
    <2> QED BY <1>10, <2>1, GiveUpTypes, Unchanged DEF RerunAbandoned, IInv, TypeOK
<1> QED BY <1>2, <1>3, <1>4, <1>5, <1>6, <1>7, <1>8, <1>9, <1>10 DEF Driving

-----------------------------------------------------------------------------
(* Readers and the daemon *)

LEMMA LinkFacts ==
    ASSUME IInv, NEW c \in DOMAIN net.links
    PROVE  /\ net.links[c] \in Link
           /\ c \in 1..Epoch(net) /\ Epoch(net) \in Nat
           /\ net.conn \in Nat /\ net.mark \in Nat
           /\ net.conn # 0 => net.conn = Epoch(net)
           /\ net.conn = c /\ net.links[c].reader # "reading" => ~net.links[c].open
<1>1. net.links \in Seq(Link) /\ Sound(net)
    BY DEF IInv, Sound, Net
<1>2. c \in 1..Len(net.links) /\ Len(net.links) \in Nat
    BY <1>1, LenProperties
<1> QED BY <1>1, <1>2, ElementOfSeq DEF Sound, Net, Epoch, Gone

\* A step that changes one stream, the way LinkReplaced allows.
LEMMA LinkStep ==
    ASSUME IInv, NEW c \in DOMAIN net.links, NEW l \in Link,
           net.conn = c => \/ ~l.open
                           \/ l.open = net.links[c].open /\ l.reader = net.links[c].reader,
           net' = [net EXCEPT !.links = [net.links EXCEPT ![c] = l]]
    PROVE  Sound(net)'
<1>1. Sound([net EXCEPT !.links = [net.links EXCEPT ![c] = l]])
    BY LinkReplaced DEF IInv
<1>2. Sound(net')
    BY <1>1
<1> QED BY <1>2 DEF Sound, Epoch, DeathMarked, Gone

\* What a frame read from the daemon is.
LEMMA FrameTypes ==
    ASSUME IInv, NEW c \in DOMAIN net.links, net.links[c].down # <<>>
    PROVE  /\ Head(net.links[c].down) \in DaemonFrame
           /\ Tail(net.links[c].down) \in Seq(DaemonFrame)
BY LinkFacts, HeadTailProperties DEF Link

LEMMA DeliverTypes ==
    ASSUME IInv, NEW res \in Result, Deliver(res)
    PROVE  answers' \in Seq(Result) /\ results' \in Seq(Result) /\ pending' \in Nat
<1>1. answers \in Seq(Result) /\ results \in Seq(Result) /\ pending \in Nat
    BY DEF IInv, TypeOK, LedgerOK, ChannelsOK
<1>2. Append(answers, res) \in Seq(Result) /\ Append(results, res) \in Seq(Result)
    BY <1>1, AppendProperties
<1>3. CASE waiter # 0
    BY <1>1, <1>2, <1>3 DEF Deliver
<1>4. CASE waiter = 0 /\ pending > 0
    BY <1>1, <1>2, <1>4 DEF Deliver
<1>5. CASE waiter = 0 /\ ~(pending > 0)
    BY <1>1, <1>5 DEF Deliver
<1> QED BY <1>3, <1>4, <1>5

LEMMA ReaderStep ==
    ASSUME IInv, NEW c \in DOMAIN net.links, Reader(c)
    PROVE  IInv'
<1> DEFINE old == net.links[c]
<1>1. /\ old \in Link /\ net \in Net /\ net.links \in Seq(Link)
      /\ raw \in Text /\ answers \in Seq(Result) /\ pending \in Nat
      /\ waiter \in Reruns \cup {0} /\ results \in Seq(Result) /\ inbox \in Seq(Command)
      /\ seen \in [lost : SUBSET Dictations, cut : SUBSET Dictations,
                superseded : BOOLEAN, abandoned : BOOLEAN]
    BY LinkFacts DEF IInv, TypeOK, LedgerOK, ChannelsOK, SeenOK, Sound, Net
<1>2. CASE ReadPartial(c)
    <2> DEFINE l == [old EXCEPT !.down = Tail(@)]
    <2>1. old.down # <<>> /\ net' = [net EXCEPT !.links = [net.links EXCEPT ![c] = l]]
        BY <1>2 DEF ReadPartial
    <2>2. l \in Link /\ l.open = old.open /\ l.reader = old.reader
        BY <1>1, <2>1, FrameTypes DEF Link
    <2> HIDE DEF l
    <2>3. Sound(net)'
        BY <2>1, <2>2, LinkStep
    <2>4. raw' \in Text
        <3>1. Head(old.down).text \in Text
            BY <2>1, FrameTypes DEF DaemonFrame
        <3>2. raw \o Head(old.down).text \in Text
            BY <1>1, <3>1, ConcatProperties DEF Text
        <3> QED BY <1>1, <1>2, <3>2 DEF ReadPartial
    <2>5. LedgerOK'
        BY <1>1, <1>2, <2>4 DEF ReadPartial, LedgerOK
    <2> QED BY <1>2, <2>3, <2>5, Unchanged DEF ReadPartial, IInv, TypeOK
<1>3. CASE ReadAnswer(c)
    <2> DEFINE l == [old EXCEPT !.down = Tail(@)]
               f == Head(old.down)
               res == [kind |-> IF f.msg = "Final" THEN "final" ELSE "failed",
                       of |-> f.of, text |-> f.text]
    <2>1. /\ old.down # <<>> /\ net' = [net EXCEPT !.links = [net.links EXCEPT ![c] = l]]
          /\ f.msg \in {"Final", "Error"} /\ Deliver(res)
        BY <1>3 DEF ReadAnswer
    <2>2. l \in Link /\ l.open = old.open /\ l.reader = old.reader
        BY <1>1, <2>1, FrameTypes DEF Link
    <2>3. res \in Result
        BY <2>1, FrameTypes DEF DaemonFrame, Result
    <2> HIDE DEF l, res
    <2>4. Sound(net)'
        BY <2>1, <2>2, LinkStep
    <2>5. /\ answers' \in Seq(Result) /\ results' \in Seq(Result) /\ pending' \in Nat
        BY <2>1, <2>3, DeliverTypes
    <2>6. LedgerOK' /\ ChannelsOK'
        BY <1>1, <1>3, <2>5 DEF ReadAnswer, LedgerOK, ChannelsOK
    <2>7. SeenOK'
        BY <1>1, <1>3 DEF ReadAnswer, SeenOK
    <2> QED BY <1>3, <2>4, <2>6, <2>7, Unchanged DEF ReadAnswer, IInv, TypeOK
<1>4. CASE ReadEnd(c)
    <2> DEFINE l == [old EXCEPT !.down = <<>>,
                                !.reader = IF c = Epoch(net) THEN "marking" ELSE "checking"]
    <2>1. net' = [net EXCEPT !.links = [net.links EXCEPT ![c] = l]]
        BY <1>4 DEF ReadEnd
    <2>2. l \in Link /\ l.open = old.open
        BY <1>1, EmptySeq DEF Link
    <2>3. net.conn = c => ~old.open
        BY <1>4 DEF ReadEnd
    <2> HIDE DEF l
    <2>4. Sound(net)'
        BY <2>1, <2>2, <2>3, LinkStep
    <2> QED BY <1>4, <2>4, Unchanged DEF ReadEnd, IInv, TypeOK
<1>5. CASE MarkDead(c)
    <2> DEFINE l == [old EXCEPT !.reader = "checking"]
               n == [net EXCEPT !.links = [net.links EXCEPT ![c] = l]]
    <2>1. l \in Link /\ l.open = old.open /\ l.reader = "checking" /\ (net.conn = c => ~old.open)
        BY <1>1, <1>5, LinkFacts DEF MarkDead, ReaderAt, Link
    <2> HIDE DEF l
    <2>2. Sound(n) /\ n.conn = net.conn /\ Epoch(n) = Epoch(net) /\ n.links = [net.links EXCEPT ![c] = l]
        BY <2>1, LinkReplaced DEF IInv
    <2>3. net' = [n EXCEPT !.mark = c + 1]
        BY <1>1, <1>5 DEF MarkDead, l, Net
    <2> HIDE DEF n
    <2>4. /\ net' \in Net /\ net'.conn = n.conn /\ net'.links = n.links /\ net'.mark = c + 1
        BY <2>2, <2>3, LinkFacts DEF Sound, Net
    <2>5. n.conn = c => ~n.links[c].open
        BY <1>1, <2>1, <2>2
    <2>6. c \in 1..Epoch(net) /\ Epoch(net) \in Nat
        BY LinkFacts
    <2>7. Sound(net')
        BY <2>2, <2>4, <2>5, <2>6 DEF Sound, Epoch, DeathMarked, Gone
    <2>8. Sound(net)'
        BY <2>7 DEF Sound, Epoch, DeathMarked, Gone
    <2> QED BY <1>5, <2>8, Unchanged DEF MarkDead, IInv, TypeOK
<1>6. CASE CheckEpoch(c)
    <2> DEFINE l == [old EXCEPT !.reader = IF c = Epoch(net) THEN "failing" ELSE "done"]
    <2>1. net' = [net EXCEPT !.links = [net.links EXCEPT ![c] = l]]
        BY <1>6 DEF CheckEpoch
    <2>2. l \in Link /\ l.open = old.open /\ (net.conn = c => ~old.open)
        BY <1>1, <1>6, LinkFacts DEF CheckEpoch, ReaderAt, Link
    <2> HIDE DEF l
    <2>3. Sound(net)'
        BY <2>1, <2>2, LinkStep
    <2> QED BY <1>6, <2>3, Unchanged DEF CheckEpoch, IInv, TypeOK
<1>7. CASE FailOwed(c)
    <2> DEFINE l == [old EXCEPT !.reader = "done"]
    <2>1. net' = [net EXCEPT !.links = [net.links EXCEPT ![c] = l]]
        BY <1>7 DEF FailOwed
    <2>2. l \in Link /\ l.open = old.open /\ (net.conn = c => ~old.open)
        BY <1>1, <1>7, LinkFacts DEF FailOwed, ReaderAt, Link
    <2> HIDE DEF l
    <2>3. Sound(net)'
        BY <2>1, <2>2, LinkStep
    <2>4. Failed(Lost) \in Result
        BY EmptySeq DEF Failed, Result, Text
    <2>5. [i \in 1..pending |-> Failed(Lost)] \in Seq(Result)
        BY <1>1, <2>4, SeqDef
    <2>6. results' \in Seq(Result) /\ answers' \in Seq(Result)
        BY <1>1, <1>7, <2>4, <2>5, ConcatProperties, AppendProperties DEF FailOwed
    <2>7. LedgerOK' /\ ChannelsOK'
        BY <1>1, <1>7, <2>6 DEF FailOwed, LedgerOK, ChannelsOK
    <2>8. SeenOK'
        BY <1>1, <1>7 DEF FailOwed, SeenOK
    <2> QED BY <1>7, <2>3, <2>7, <2>8, Unchanged DEF FailOwed, IInv, TypeOK
<1> QED BY <1>2, <1>3, <1>4, <1>5, <1>6, <1>7 DEF Reader

LEMMA DaemonStep ==
    ASSUME IInv, NEW c \in DOMAIN net.links,
           DaemonHandles(c) \/ DaemonFails(c) \/ DaemonCloses(c)
    PROVE  IInv'
<1> DEFINE old == net.links[c]
<1>1. /\ old \in Link /\ net \in Net /\ net.links \in Seq(Link) /\ <<>> \in Text
      /\ c \in 1..Len(net.links) /\ MaxFaults \in Nat
    BY LinkFacts, EmptySeq, BoundsAssumption DEF IInv, Sound, Net, Text, Epoch
<1>2. /\ DaemonHandles(c) => UNCHANGED <<control, settings, thread, ledger, results, inbox, seen>>
      /\ DaemonFails(c) => UNCHANGED <<control, settings, thread, ledger, results, inbox, seen>>
      /\ DaemonCloses(c) => UNCHANGED <<control, settings, thread, ledger, results, inbox, seen>>
    BY DEF DaemonHandles, DaemonFails, DaemonCloses
<1>3. ASSUME NEW f \in ClientFrame, NEW m \in {"Partial", "Final", "Error"}, NEW t \in Text
      PROVE  Said(old, f, m, t) \in Seq(DaemonFrame)
    <2>1. [msg |-> m, of |-> f.of, text |-> t] \in DaemonFrame
        BY DEF DaemonFrame, ClientFrame
    <2> QED BY <1>1, <2>1, AppendProperties DEF Said, Link
<1>4. old.up # <<>> => Head(old.up) \in ClientFrame /\ Tail(old.up) \in Seq(ClientFrame)
    BY <1>1, HeadTailProperties DEF Link
<1>5. old.parts \in Text /\ old.down \in Seq(DaemonFrame)
    BY <1>1 DEF Link
\* A step that leaves the stream open, at the cost of at most one fault.
<1>6. ASSUME NEW l \in Link, NEW k \in 0..MaxFaults,
             l.reader = old.reader, l.open = old.open \/ ~l.open,
             net' = [net EXCEPT !.faults = k, !.links = [net.links EXCEPT ![c] = l]]
      PROVE  Sound(net)'
    <2> DEFINE n == [net EXCEPT !.links = [net.links EXCEPT ![c] = l]]
    <2>1. Sound(n)
        BY <1>6, LinkReplaced DEF IInv
    <2>2. net' = [n EXCEPT !.faults = k]
        BY <1>1, <1>6 DEF Net
    <2> HIDE DEF n
    <2>3. net' \in Net /\ net'.conn = n.conn /\ net'.links = n.links /\ net'.mark = n.mark
        BY <2>1, <2>2 DEF Sound, Net
    <2> QED BY <2>1, <2>3 DEF Sound, Epoch, DeathMarked, Gone
<1>7. CASE DaemonHandles(c)
    <2> DEFINE f == Head(old.up)
               piece == <<[of |-> f.of, k |-> f.k]>>
               left == [old EXCEPT !.up = Tail(@)]
               next == CASE f.cmd = "Chunk" -> [left EXCEPT !.parts = @ \o piece,
                                                            !.down = Said(old, f, "Partial", piece)]
                         [] f.cmd = "Flush" -> [left EXCEPT !.parts = <<>>,
                                                            !.down = Said(old, f, "Final", old.parts)]
                         [] OTHER           -> [left EXCEPT !.parts = <<>>]
    <2>1. old.up # <<>> /\ net' = [net EXCEPT !.links[c] = next]
        BY <1>7 DEF DaemonHandles
    <2>2. f \in ClientFrame /\ Tail(old.up) \in Seq(ClientFrame)
        BY <1>4, <2>1
    <2>3. piece \in Text
        <3>1. [of |-> f.of, k |-> f.k] \in Piece
            BY <2>2 DEF ClientFrame, Piece
        <3> QED BY <3>1, SeqDef DEF Text
    <2>4. old.parts \o piece \in Text
        BY <1>5, <2>3, ConcatProperties DEF Text
    <2>5. Said(old, f, "Partial", piece) \in Seq(DaemonFrame)
          /\ Said(old, f, "Final", old.parts) \in Seq(DaemonFrame)
        BY <1>3, <1>5, <2>2, <2>3
    <2> HIDE DEF f, piece
    <2>6. left \in Link /\ left.parts = old.parts /\ left.open = old.open /\ left.reader = old.reader
        BY <1>1, <2>2 DEF Link
    <2> HIDE DEF left
    <2>7. next \in Link /\ next.open = old.open /\ next.reader = old.reader
        <3>1. CASE f.cmd = "Chunk"
            BY <2>4, <2>5, <2>6, <3>1 DEF Link
        <3>2. CASE f.cmd = "Flush"
            BY <1>1, <2>5, <2>6, <3>2 DEF Link
        <3>3. CASE f.cmd # "Chunk" /\ f.cmd # "Flush"
            BY <1>1, <2>6, <3>3 DEF Link
        <3> QED BY <3>1, <3>2, <3>3
    <2> HIDE DEF next
    <2>8. Sound(net)'
        BY <2>1, <2>7, LinkStep
    <2> QED BY <1>2, <1>7, <2>8, Unchanged DEF IInv, TypeOK
<1>8. CASE DaemonFails(c)
    <2> DEFINE f == Head(old.up)
               l == [old EXCEPT !.up = Tail(@), !.parts = <<>>, !.down = Said(old, f, "Error", <<>>)]
    <2>1. /\ old.up # <<>> /\ net.faults < MaxFaults
          /\ net' = [net EXCEPT !.faults = @ + 1, !.links[c].up = Tail(@),
                                !.links[c].parts = <<>>,
                                !.links[c].down = Said(old, f, "Error", <<>>)]
        BY <1>8 DEF DaemonFails
    <2>2. net' = [net EXCEPT !.faults = @ + 1, !.links = [net.links EXCEPT ![c] = l]]
        BY <1>1, <2>1 DEF Net
    <2>3. Said(old, f, "Error", <<>>) \in Seq(DaemonFrame) /\ Tail(old.up) \in Seq(ClientFrame)
        BY <1>1, <1>3, <1>4, <2>1
    <2>4. l \in Link /\ l.open = old.open /\ l.reader = old.reader
        BY <1>1, <2>3 DEF Link
    <2>5. net.faults + 1 \in 0..MaxFaults
        BY <1>1, <2>1 DEF Net
    <2> HIDE DEF l
    <2>6. Sound(net)'
        BY <1>6, <2>2, <2>4, <2>5
    <2> QED BY <1>2, <1>8, <2>6, Unchanged DEF IInv, TypeOK
<1>9. CASE DaemonCloses(c)
    <2>1. /\ net.faults < MaxFaults
          /\ net' = [net EXCEPT !.faults = @ + 1, !.links = [net.links EXCEPT ![c] = Closed(old)]]
        BY <1>9 DEF DaemonCloses
    <2>2. Closed(old) \in Link /\ ~Closed(old).open /\ Closed(old).reader = old.reader
        BY <1>1, LinkTypes
    <2>3. net.faults + 1 \in 0..MaxFaults
        BY <1>1, <2>1 DEF Net
    <2>4. Sound(net)'
        BY <1>6, <2>1, <2>2, <2>3
    <2> QED BY <1>2, <1>9, <2>4, Unchanged DEF IInv, TypeOK
<1> QED BY <1>7, <1>8, <1>9

-----------------------------------------------------------------------------
(* The theorems *)

LEMMA StepIInv == IInv /\ [Next]_vars => IInv'
<1> SUFFICES ASSUME IInv, [Next]_vars PROVE IInv'
    OBVIOUS
<1>1. CASE Next
    BY <1>1, ControlStep, SettingsStep, CommandsStep, DrivingStep, ReaderStep, DaemonStep DEF Next
<1>2. CASE UNCHANGED vars
    BY <1>2, Unchanged DEF vars, IInv, TypeOK
<1> QED BY <1>1, <1>2

\* The types hold in every reachable state: in particular no flush is ever
\* answered that was not pending, and the connection held is the newest one.
THEOREM TypeCorrect == Spec => []TypeOK
<1>1. Init => IInv
    BY InitIInv
<1>2. IInv /\ [Next]_vars => IInv'
    BY StepIInv
<1>3. IInv => TypeOK
    BY DEF IInv
<1> QED BY <1>1, <1>2, <1>3, PTL DEF Spec

\* The transport thread never drops a live connection on the word of a reader
\* of an older one, however the check and the store of mark_conn_dead are
\* interleaved with reconnects.
THEOREM DeadMarkTrue == Spec => []DeadMarkIsTrue
<1>1. Init => IInv
    BY InitIInv
<1>2. IInv /\ [Next]_vars => IInv'
    BY StepIInv
<1>3. IInv => DeadMarkIsTrue
    BY DEF IInv, Sound, Gone, DeadMarkIsTrue
<1> QED BY <1>1, <1>2, <1>3, PTL DEF Spec

-----------------------------------------------------------------------------
(* The thread and the commands queued for it *)

\* What the thread holds while it drives a rerun, and what it does not otherwise.
Driven ==
    /\ tpc \in Drive => session # "active" /\ pending = 0
    /\ tpc \notin Drive => session # "reprocessing" /\ waiter = 0
    /\ waiter # 0 => tpc \in {"rerunFlush", "rerunWait"} /\ waiter = run.id
    /\ tpc \notin {"rerunFlush", "rerunWait"} => answers = <<>>

\* A dictation is being handled: its Start was taken, its Flush or Cancel not yet.
InSession == session \in {"active", "failed"} /\ tpc # "flushed"

LEMMA DeliverDriven ==
    ASSUME NEW res, Deliver(res), Driven, IInv, UNCHANGED <<thread, waiter>>
    PROVE  Driven'
<1>1. pending' = pending \/ tpc \notin Drive
    BY DEF Deliver, Driven, IInv, TypeOK, LedgerOK
<1>2. answers' = answers \/ tpc \in {"rerunFlush", "rerunWait"}
    BY DEF Deliver, Driven
<1> QED BY <1>1, <1>2 DEF Driven, thread, Drive

LEMMA EndDriven ==
    ASSUME NEW status, NEW o, NEW parts, EndRerun(status, o, parts), Driven, tpc \in Drive,
           UNCHANGED pending
    PROVE  Driven' /\ InSession' = InSession
<1>1. tpc' \notin Drive \cup {"flushed"}
    BY DEF EndRerun, AfterCommand, Drive
<1> QED BY <1>1 DEF EndRerun, ClearReprocess, Driven, InSession, Drive

LEMMA DrivenHolds ==
    ASSUME IInv, Driven, [Next]_vars PROVE Driven'
<1> USE DEF Drive
<1>1. CASE Control
    BY <1>1 DEF Control, Press, Speak, Release, CancelDictation, FinishReceives,
        FinishTimesOut, Driven, thread, ledger
<1>2. CASE Settings
    BY <1>2 DEF Settings, SwitchModels, RequestRerun, Driven, thread, ledger
<1>3. CASE Commands
    <2>1. CASE Boot
        BY <1>3, <2>1 DEF Boot, Driven, ledger
    <2>2. CASE HandleStart \/ HandleChunk \/ HandleCancel \/ FlushFails
        BY <2>2, AfterTypes DEF HandleStart, HandleChunk, HandleCancel, FlushFails, Take, Driven, ledger
    <2>3. CASE FlushWritten \/ BeginFlush \/ RefreshModels
        BY <2>3, AfterTypes DEF FlushWritten, BeginFlush, RefreshModels, Take, Driven, ledger
    <2> QED BY <1>3, <2>1, <2>2, <2>3 DEF Commands
<1>4. CASE Driving
    <2>1. CASE RefuseRerun
        BY <2>1 DEF RefuseRerun, Take, Driven, ledger
    <2>2. CASE BeginRerun
        BY <2>2 DEF BeginRerun, Take, Driven, ledger
    <2>3. CASE RerunStart
        BY <2>3, EndDriven DEF RerunStart, GiveUp, Driven
    <2>4. CASE RerunChunk
        BY <2>4, EndDriven DEF RerunChunk, GiveUp, Driven
    <2>5. CASE RerunArm
        BY <2>5 DEF RerunArm, Driven
    <2>6. CASE RerunFlush
        BY <2>6, EndDriven DEF RerunFlush, GiveUp, Driven
    <2>7. CASE RerunDrains
        BY <2>7 DEF RerunDrains, Driven, ledger
    <2>8. CASE RerunAnswered
        BY <2>8, EndDriven DEF RerunAnswered, GiveUp, Driven
    <2>9. CASE RerunAbandoned
        BY <2>9, EndDriven DEF RerunAbandoned, GiveUp, Driven
    <2> QED BY <1>4, <2>1, <2>2, <2>3, <2>4, <2>5, <2>6, <2>7, <2>8, <2>9 DEF Driving
<1>5. ASSUME NEW c \in DOMAIN net.links, Reader(c) PROVE Driven'
    <2>1. CASE ReadAnswer(c)
        BY <2>1, DeliverDriven DEF ReadAnswer
    <2>2. CASE FailOwed(c)
        BY <2>2 DEF FailOwed, Driven, thread
    <2>3. CASE ReadPartial(c) \/ ReadEnd(c) \/ MarkDead(c) \/ CheckEpoch(c)
        BY <2>3 DEF ReadPartial, ReadEnd, MarkDead, CheckEpoch, Driven, thread, ledger
    <2> QED BY <1>5, <2>1, <2>2, <2>3 DEF Reader
<1>6. ASSUME NEW c, DaemonHandles(c) \/ DaemonFails(c) \/ DaemonCloses(c) PROVE Driven'
    BY <1>6 DEF DaemonHandles, DaemonFails, DaemonCloses, Driven, thread, ledger
<1>7. CASE UNCHANGED vars
    BY <1>7 DEF vars, Driven, thread, ledger
<1> QED BY <1>1, <1>2, <1>3, <1>4, <1>5, <1>6, <1>7 DEF Next

-----------------------------------------------------------------------------
(* Sequences, index by index *)

LEMMA Tails ==
    ASSUME NEW S, NEW s \in Seq(S), s # <<>>
    PROVE  /\ Len(s) \in Nat \ {0} /\ 1 \in 1..Len(s) /\ Head(s) = s[1] /\ Head(s) \in S
           /\ Tail(s) \in Seq(S) /\ Len(Tail(s)) = Len(s) - 1
           /\ \A i \in 1..Len(Tail(s)) : /\ i + 1 \in 1..Len(s) /\ i + 1 # 1
                                         /\ Tail(s)[i] = s[i + 1] /\ Tail(s)[i] \in S
<1>1. /\ Len(s) \in Nat \ {0} /\ Tail(s) \in Seq(S) /\ Len(Tail(s)) = Len(s) - 1
      /\ \A i \in 1..Len(Tail(s)) : Tail(s)[i] = s[i + 1]
      /\ Head(s) = s[1] /\ Head(s) \in S
    BY HeadTailProperties, EmptySeq
<1>2. \A i \in 1..Len(Tail(s)) : i + 1 \in 1..Len(s) /\ i + 1 # 1 /\ Tail(s)[i] \in S
    BY <1>1, ElementOfSeq
<1> QED BY <1>1, <1>2

LEMMA Appends ==
    ASSUME NEW S, NEW s \in Seq(S), NEW e \in S
    PROVE  /\ Len(s) \in Nat /\ Append(s, e) \in Seq(S) /\ Append(s, e) # <<>>
           /\ Len(Append(s, e)) = Len(s) + 1 /\ Append(s, e)[Len(s) + 1] = e
           /\ \A i \in 1..Len(Append(s, e)) :
                 \/ i \in 1..Len(s) /\ Append(s, e)[i] = s[i]
                 \/ i = Len(s) + 1 /\ Append(s, e)[i] = e
           /\ \A i \in 1..Len(s) : i \in 1..Len(Append(s, e)) /\ Append(s, e)[i] = s[i]
<1>1. /\ Len(s) \in Nat /\ Append(s, e) \in Seq(S) /\ Append(s, e) # <<>>
      /\ Len(Append(s, e)) = Len(s) + 1 /\ Append(s, e)[Len(s) + 1] = e
      /\ \A i \in 1..Len(s) : Append(s, e)[i] = s[i]
    BY AppendProperties, LenProperties
<1>2. \A i \in 1..Len(s) : i \in 1..Len(Append(s, e))
    BY <1>1
<1>3. \A i \in 1..Len(Append(s, e)) : i \in 1..Len(s) \/ i = Len(s) + 1
    BY <1>1
<1> QED BY <1>1, <1>2, <1>3

-----------------------------------------------------------------------------
(* The sessions queued for the thread *)

\* The end and the start of dictation d in a queue of commands.
Ends(q, d)   == \E i \in 1..Len(q) : q[i].cmd \in {"Flush", "Cancel"} /\ q[i].of.id = d
Begins(q, d) == \E i \in 1..Len(q) : q[i].cmd = "Start" /\ q[i].of.id = d

\* Behind the last dictation the thread has started, n, the queue holds whole
\* sessions in order: what is left of n's when it is being handled (on), then
\* each one's Start before everything else of it, and nothing after its end.
Orderly(q, n, on) ==
    /\ \A i \in 1..Len(q) : q[i].cmd # "Reprocess" =>
          /\ q[i].of.id \in n..cur
          /\ q[i].of.id = n => on /\ q[i].cmd # "Start"
          /\ q[i].of.id # n /\ q[i].cmd # "Start" =>
                \E j \in 1..Len(q) : j < i /\ q[j].cmd = "Start" /\ q[j].of.id = q[i].of.id
    /\ \A i, j \in 1..Len(q) : i < j /\ q[i].cmd # "Reprocess" /\ q[j].cmd # "Reprocess" =>
          /\ q[i].of.id <= q[j].of.id
          /\ q[i].of.id = q[j].of.id => q[i].cmd \notin {"Flush", "Cancel"} /\ q[j].cmd # "Start"

\* Every session but the one being recorded has its end behind it.
Ending(q, n, on) ==
    /\ \A d \in Nat : (on /\ d = n) \/ Begins(q, d) =>
          (Ends(q, d) <=> ~(ctl = "recording" /\ d = cur))
    /\ ctl = "recording" => (on /\ n = cur) \/ Begins(q, cur)

Queued(n) ==
    /\ n \in 0..cur /\ (InSession => n # 0)
    /\ Orderly(inbox, n, InSession) /\ Ending(inbox, n, InSession)

LEMMA EndsTail ==
    ASSUME NEW q \in Seq(Command), q # <<>>, NEW d
    PROVE  /\ Ends(q, d) <=> \/ Head(q).cmd \in {"Flush", "Cancel"} /\ Head(q).of.id = d
                             \/ Ends(Tail(q), d)
           /\ Begins(q, d) <=> \/ Head(q).cmd = "Start" /\ Head(q).of.id = d
                               \/ Begins(Tail(q), d)
<1>1. /\ Len(q) \in Nat /\ 1 \in 1..Len(q) /\ Head(q) = q[1] /\ Len(Tail(q)) = Len(q) - 1
      /\ \A i \in 1..Len(Tail(q)) : i + 1 \in 1..Len(q) /\ Tail(q)[i] = q[i + 1]
    BY Tails
<1>2. \A i \in 1..Len(q) : i = 1 \/ (i - 1 \in 1..Len(Tail(q)) /\ Tail(q)[i - 1] = q[i])
    BY <1>1
<1>3. Ends(q, d) => (Head(q).cmd \in {"Flush", "Cancel"} /\ Head(q).of.id = d) \/ Ends(Tail(q), d)
    BY <1>1, <1>2 DEF Ends
<1>4. Ends(Tail(q), d) \/ (Head(q).cmd \in {"Flush", "Cancel"} /\ Head(q).of.id = d) => Ends(q, d)
    BY <1>1 DEF Ends
<1>5. Begins(q, d) => (Head(q).cmd = "Start" /\ Head(q).of.id = d) \/ Begins(Tail(q), d)
    BY <1>1, <1>2 DEF Begins
<1>6. Begins(Tail(q), d) \/ (Head(q).cmd = "Start" /\ Head(q).of.id = d) => Begins(q, d)
    BY <1>1 DEF Begins
<1> QED BY <1>3, <1>4, <1>5, <1>6

LEMMA EndsAppend ==
    ASSUME NEW q \in Seq(Command), NEW m \in Command, NEW d
    PROVE  /\ Ends(Append(q, m), d) <=>
                  Ends(q, d) \/ (m.cmd \in {"Flush", "Cancel"} /\ m.of.id = d)
           /\ Begins(Append(q, m), d) <=> Begins(q, d) \/ (m.cmd = "Start" /\ m.of.id = d)
<1> DEFINE r == Append(q, m)
<1>1. /\ Len(q) \in Nat /\ Len(r) \in 1..Len(r) /\ r[Len(r)] = m /\ Len(r) = Len(q) + 1
      /\ \A i \in 1..Len(q) : i \in 1..Len(r) /\ r[i] = q[i]
      /\ \A i \in 1..Len(r) : (i \in 1..Len(q) /\ r[i] = q[i]) \/ r[i] = m
    BY Appends
<1> HIDE DEF r
<1>2. Ends(r, d) <=> Ends(q, d) \/ (m.cmd \in {"Flush", "Cancel"} /\ m.of.id = d)
    BY <1>1 DEF Ends
<1>3. Begins(r, d) <=> Begins(q, d) \/ (m.cmd = "Start" /\ m.of.id = d)
    BY <1>1 DEF Begins
<1> QED BY <1>2, <1>3 DEF r

LEMMA Ids == \A m \in Command : m.of.id \in Nat /\ (m.cmd # "Reprocess" => m.of.id \in Dictations)
                                 /\ m.cmd \in {"Start", "Chunk", "Flush", "Cancel", "Reprocess"}
BY DEF Command, DictationCommand, RerunCommand, Dictations, Reruns

\* Taking the next command: it is the next Start, or one of the session being
\* handled, and what is behind it is still in order.
LEMMA OrderlyTail ==
    ASSUME NEW q \in Seq(Command), q # <<>>, NEW n \in Nat, NEW on \in BOOLEAN, cur \in Nat,
           Orderly(q, n, on)
    PROVE  /\ Head(q).cmd = "Start" =>
                /\ Head(q).of.id \in n + 1..cur
                /\ Orderly(Tail(q), Head(q).of.id, TRUE)
           /\ Head(q).cmd = "Chunk" => on /\ Head(q).of.id = n /\ Orderly(Tail(q), n, on)
           /\ Head(q).cmd \in {"Flush", "Cancel"} =>
                on /\ Head(q).of.id = n /\ Orderly(Tail(q), n, FALSE)
           /\ Head(q).cmd = "Reprocess" => Orderly(Tail(q), n, on)
<1> DEFINE h == Head(q)
           r == Tail(q)
<1>1. /\ Len(q) \in Nat \ {0} /\ 1 \in 1..Len(q) /\ h = q[1] /\ h \in Command
      /\ r \in Seq(Command) /\ Len(r) = Len(q) - 1
      /\ \A i \in 1..Len(r) : i + 1 \in 1..Len(q) /\ i + 1 # 1 /\ r[i] = q[i + 1] /\ r[i] \in Command
    BY Tails
<1>2. \A i \in 1..Len(q) : q[i] \in Command /\ q[i].of.id \in Nat
    BY ElementOfSeq, Ids
<1>3. h.of.id \in Nat
    BY <1>1, <1>2
<1>4. /\ h.cmd # "Reprocess" =>
            /\ h.of.id \in n..cur
            /\ h.of.id = n => on /\ h.cmd # "Start"
            /\ h.of.id # n => h.cmd = "Start"
            /\ \A i \in 1..Len(r) : r[i].cmd # "Reprocess" =>
                  /\ h.of.id <= r[i].of.id
                  /\ h.of.id = r[i].of.id => h.cmd \notin {"Flush", "Cancel"} /\ r[i].cmd # "Start"
    <2>1. ~\E j \in 1..Len(q) : j < 1
        BY <1>1
    <2>2. \A i \in 1..Len(r) : 1 < i + 1
        BY <1>1
    <2> HIDE DEF h, r
    <2> QED BY <1>1, <2>1, <2>2 DEF Orderly
<1>5. \A i \in 1..Len(r) : r[i].cmd # "Reprocess" =>
          /\ r[i].of.id \in n..cur
          /\ r[i].of.id = n => on /\ r[i].cmd # "Start"
    <2> HIDE DEF h, r
    <2> QED BY <1>1 DEF Orderly
<1>6. \A i \in 1..Len(r) : r[i].cmd \notin {"Reprocess", "Start"} /\ r[i].of.id # n =>
          \/ h.cmd = "Start" /\ h.of.id = r[i].of.id
          \/ \E j \in 1..Len(r) : j < i /\ r[j].cmd = "Start" /\ r[j].of.id = r[i].of.id
    <2> SUFFICES ASSUME NEW i \in 1..Len(r), r[i].cmd \notin {"Reprocess", "Start"}, r[i].of.id # n,
                        ~(h.cmd = "Start" /\ h.of.id = r[i].of.id)
                 PROVE  \E j \in 1..Len(r) : j < i /\ r[j].cmd = "Start" /\ r[j].of.id = r[i].of.id
        OBVIOUS
    <2> HIDE DEF h, r
    <2>1. PICK j \in 1..Len(q) : j < i + 1 /\ q[j].cmd = "Start" /\ q[j].of.id = r[i].of.id
        BY <1>1 DEF Orderly
    <2>2. j # 1 /\ j - 1 \in 1..Len(r) /\ j - 1 < i
        BY <1>1, <2>1
    <2>3. r[j - 1] = q[j]
        BY <1>1, <2>2
    <2> QED BY <2>1, <2>2, <2>3
<1>7. \A i, j \in 1..Len(r) : i < j /\ r[i].cmd # "Reprocess" /\ r[j].cmd # "Reprocess" =>
          /\ r[i].of.id <= r[j].of.id
          /\ r[i].of.id = r[j].of.id => r[i].cmd \notin {"Flush", "Cancel"} /\ r[j].cmd # "Start"
    <2> SUFFICES ASSUME NEW i \in 1..Len(r), NEW j \in 1..Len(r), i < j,
                        r[i].cmd # "Reprocess", r[j].cmd # "Reprocess"
                 PROVE  /\ r[i].of.id <= r[j].of.id
                        /\ r[i].of.id = r[j].of.id =>
                              r[i].cmd \notin {"Flush", "Cancel"} /\ r[j].cmd # "Start"
        OBVIOUS
    <2> HIDE DEF h, r
    <2>1. /\ i + 1 \in 1..Len(q) /\ j + 1 \in 1..Len(q) /\ i + 1 < j + 1
          /\ r[i] = q[i + 1] /\ r[j] = q[j + 1]
        BY <1>1
    <2> QED BY <2>1 DEF Orderly
<1>8. \A i \in 1..Len(r) : r[i].of.id \in Nat
    BY <1>1, Ids
<1> HIDE DEF h, r
<1>9. h.cmd = "Start" => h.of.id \in n + 1..cur /\ Orderly(r, h.of.id, TRUE)
    <2> SUFFICES ASSUME h.cmd = "Start" PROVE h.of.id \in n + 1..cur /\ Orderly(r, h.of.id, TRUE)
        OBVIOUS
    <2>1. h.of.id \in n + 1..cur
        BY <1>3, <1>4
    <2>2. \A i \in 1..Len(r) : r[i].cmd # "Reprocess" =>
              r[i].of.id \in h.of.id..cur /\ (r[i].of.id = h.of.id => r[i].cmd # "Start")
        BY <1>3, <1>4, <1>5, <1>8
    <2>3. \A i \in 1..Len(r) : r[i].cmd # "Reprocess" => r[i].of.id # n
        BY <1>8, <2>1, <2>2
    <2> QED BY <1>6, <1>7, <2>1, <2>2, <2>3 DEF Orderly
<1>10. h.cmd = "Chunk" => on /\ h.of.id = n /\ Orderly(r, n, on)
    BY <1>4, <1>5, <1>6, <1>7 DEF Orderly
<1>11. h.cmd \in {"Flush", "Cancel"} => on /\ h.of.id = n /\ Orderly(r, n, FALSE)
    BY <1>4, <1>5, <1>6, <1>7 DEF Orderly
<1>12. h.cmd = "Reprocess" => Orderly(r, n, on)
    BY <1>5, <1>6, <1>7 DEF Orderly
<1> QED BY <1>9, <1>10, <1>11, <1>12 DEF h, r

\* Queuing a command of the dictation being recorded, the Start of a new one,
\* or the request for a rerun.
LEMMA OrderlyAppend ==
    ASSUME NEW q \in Seq(Command), NEW n \in Nat, NEW on \in BOOLEAN, cur \in Nat, cur' \in Nat,
           Orderly(q, n, on), NEW m \in Command, n <= cur,
           \/ m.cmd = "Start" /\ m.of.id = cur' /\ cur' = cur + 1
           \/ /\ m.cmd \notin {"Start", "Reprocess"} /\ m.of.id = cur /\ cur' = cur
              /\ ~Ends(q, cur) /\ ((on /\ n = cur) \/ Begins(q, cur))
           \/ m.cmd = "Reprocess" /\ cur' = cur,
           NEW r, r = Append(q, m)
    PROVE  Orderly(r, n, on)'
<1>1. /\ Len(q) \in Nat /\ Len(r) = Len(q) + 1 /\ r[Len(r)] = m
      /\ \A i \in 1..Len(q) : i \in 1..Len(r) /\ r[i] = q[i]
      /\ \A i \in 1..Len(r) : (i \in 1..Len(q) /\ r[i] = q[i]) \/ (i = Len(r) /\ r[i] = m)
    BY Appends
<1>2. \A i \in 1..Len(q) : q[i] \in Command /\ q[i].of.id \in Nat
    BY ElementOfSeq, Ids
<1>3. m.of.id \in Nat /\ cur <= cur'
    BY Ids
<1>4. \A i \in 1..Len(q) : q[i].cmd # "Reprocess" =>
          /\ q[i].of.id \in n..cur'
          /\ q[i].of.id = n => on /\ q[i].cmd # "Start"
          /\ q[i].of.id # n /\ q[i].cmd # "Start" =>
                \E j \in 1..Len(r) : j < i /\ r[j].cmd = "Start" /\ r[j].of.id = q[i].of.id
    <2>1. \A i \in 1..Len(q) : q[i].cmd # "Reprocess" => q[i].of.id \in n..cur'
        BY <1>1, <1>2, <1>3 DEF Orderly
    <2> QED BY <1>1, <1>2, <2>1 DEF Orderly
<1>5. m.cmd # "Reprocess" =>
          /\ m.of.id \in n..cur'
          /\ m.of.id = n => on /\ m.cmd # "Start"
          /\ m.of.id # n /\ m.cmd # "Start" =>
                \E j \in 1..Len(r) : j < Len(r) /\ r[j].cmd = "Start" /\ r[j].of.id = m.of.id
    <2>1. CASE m.cmd = "Start"
        BY <1>3, <2>1
    <2>2. CASE m.cmd \notin {"Start", "Reprocess"}
        <3>1. Begins(q, n) => FALSE
            BY DEF Orderly, Begins
        <3>2. Begins(q, cur) => \E j \in 1..Len(r) : j < Len(r) /\ r[j].cmd = "Start" /\ r[j].of.id = cur
            BY <1>1 DEF Begins
        <3> QED BY <1>3, <2>2, <3>1, <3>2
    <2> QED BY <2>1, <2>2
<1>6. \A i, j \in 1..Len(q) : i < j /\ q[i].cmd # "Reprocess" /\ q[j].cmd # "Reprocess" =>
          /\ q[i].of.id <= q[j].of.id
          /\ q[i].of.id = q[j].of.id => q[i].cmd \notin {"Flush", "Cancel"} /\ q[j].cmd # "Start"
    BY DEF Orderly
<1>7. \A i \in 1..Len(q) : q[i].cmd # "Reprocess" /\ m.cmd # "Reprocess" =>
          /\ q[i].of.id <= m.of.id
          /\ q[i].of.id = m.of.id => q[i].cmd \notin {"Flush", "Cancel"} /\ m.cmd # "Start"
    <2>1. \A i \in 1..Len(q) : q[i].cmd # "Reprocess" => q[i].of.id <= cur
        BY <1>2 DEF Orderly
    <2>2. ~Ends(q, cur) => \A i \in 1..Len(q) : q[i].of.id = cur => q[i].cmd \notin {"Flush", "Cancel"}
        BY DEF Ends
    <2> QED BY <1>2, <1>3, <2>1, <2>2
<1>8. \A i \in 1..Len(r) : r[i].cmd # "Reprocess" =>
          /\ r[i].of.id \in n..cur'
          /\ r[i].of.id = n => on /\ r[i].cmd # "Start"
          /\ r[i].of.id # n /\ r[i].cmd # "Start" =>
                \E j \in 1..Len(r) : j < i /\ r[j].cmd = "Start" /\ r[j].of.id = r[i].of.id
    BY <1>1, <1>4, <1>5
<1>9. \A i, j \in 1..Len(r) : i < j /\ r[i].cmd # "Reprocess" /\ r[j].cmd # "Reprocess" =>
          /\ r[i].of.id <= r[j].of.id
          /\ r[i].of.id = r[j].of.id => r[i].cmd \notin {"Flush", "Cancel"} /\ r[j].cmd # "Start"
    <2> SUFFICES ASSUME NEW i \in 1..Len(r), NEW j \in 1..Len(r), i < j,
                        r[i].cmd # "Reprocess", r[j].cmd # "Reprocess"
                 PROVE  /\ r[i].of.id <= r[j].of.id
                        /\ r[i].of.id = r[j].of.id =>
                              r[i].cmd \notin {"Flush", "Cancel"} /\ r[j].cmd # "Start"
        OBVIOUS
    <2>1. i \in 1..Len(q) /\ r[i] = q[i]
        BY <1>1
    <2>2. CASE j \in 1..Len(q) /\ r[j] = q[j]
        BY <1>6, <2>1, <2>2
    <2>3. CASE r[j] = m
        BY <1>7, <2>1, <2>3
    <2> QED BY <1>1, <2>2, <2>3
<1> QED BY <1>8, <1>9 DEF Orderly

\* What a step does to the queue, to the control thread and to the session being
\* handled: it queues one command, takes one, or neither.
Takes ==
    /\ inbox # <<>> /\ inbox' = Tail(inbox) /\ UNCHANGED <<ctl, cur>>
    /\ Head(inbox).cmd = "Start" => InSession'
    /\ Head(inbox).cmd \in {"Chunk", "Reprocess"} => InSession' = InSession
    /\ Head(inbox).cmd = "Cancel" => ~InSession'
    /\ Head(inbox).cmd = "Flush" /\ InSession => ~InSession'
Rests ==
    /\ UNCHANGED <<inbox, cur>> /\ InSession' = InSession
    /\ ctl' = ctl \/ (ctl = "waiting" /\ ctl' = "idle")
Feeds ==
    \/ Press \/ Speak \/ Release \/ CancelDictation
    \/ \E r \in Reruns : RequestRerun(r)

LEMMA InboxMoves ==
    ASSUME IInv, Driven, [Next]_vars
    PROVE  Takes \/ Rests \/ (Feeds /\ InSession' = InSession)
<1> USE DEF Drive
<1>0. /\ UNCHANGED thread => InSession' = InSession
      /\ UNCHANGED control => UNCHANGED <<ctl, cur>>
    BY DEF InSession, thread, control
<1>1. CASE Control
    <2>1. CASE Press \/ Speak \/ Release \/ CancelDictation
        BY <1>0, <2>1 DEF Press, Speak, Release, CancelDictation, Feeds
    <2>2. CASE FinishReceives \/ FinishTimesOut
        BY <1>0, <2>2 DEF FinishReceives, FinishTimesOut, Rests
    <2> QED BY <1>1, <2>1, <2>2 DEF Control
<1>2. CASE Settings
    <2>1. CASE \E m \in Models : SwitchModels(m)
        BY <1>0, <2>1 DEF SwitchModels, Rests
    <2>2. CASE \E r \in Reruns : RequestRerun(r)
        BY <1>0, <2>2 DEF RequestRerun, Feeds
    <2> QED BY <1>2, <2>1, <2>2 DEF Settings
<1>3. CASE Commands
    <2>1. CASE Boot
        BY <1>0, <2>1 DEF Boot, Rests, InSession
    <2>2. CASE HandleStart
        <3>1. Take("Start") /\ session' \in {"active", "failed"} /\ tpc' # "flushed" /\ UNCHANGED control
            BY <2>2, AfterTypes DEF HandleStart
        <3> QED BY <1>0, <3>1 DEF Take, Takes, InSession
    <2>3. CASE HandleChunk
        <3>1. /\ Take("Chunk") /\ session' = session /\ tpc' # "flushed" /\ tpc = "loop"
              /\ UNCHANGED control
            BY <2>3, AfterTypes DEF HandleChunk, Take
        <3> QED BY <1>0, <3>1 DEF Take, Takes, InSession
    <2>4. CASE HandleCancel
        <3>1. Take("Cancel") /\ session' = "idle" /\ UNCHANGED control
            BY <2>4 DEF HandleCancel
        <3> QED BY <1>0, <3>1 DEF Take, Takes, InSession
    <2>5. CASE FlushFails
        <3>1. Take("Flush") /\ session' = "idle" /\ UNCHANGED control
            BY <2>5 DEF FlushFails
        <3> QED BY <1>0, <3>1 DEF Take, Takes, InSession
    <2>6. CASE FlushWritten
        <3>1. Take("Flush") /\ tpc' = "flushed" /\ UNCHANGED control
            BY <2>6 DEF FlushWritten
        <3> QED BY <1>0, <3>1 DEF Take, Takes, InSession
    <2>7. CASE BeginFlush
        BY <1>0, <2>7, AfterTypes DEF BeginFlush, Rests, InSession
    <2>8. CASE RefreshModels
        BY <1>0, <2>8 DEF RefreshModels, Rests, InSession
    <2> QED BY <1>3, <2>1, <2>2, <2>3, <2>4, <2>5, <2>6, <2>7, <2>8 DEF Commands
<1>4. CASE Driving
    <2>1. CASE RefuseRerun
        <3>1. /\ Take("Reprocess") /\ session' = session /\ tpc' # "flushed" /\ tpc = "loop"
              /\ UNCHANGED control
            BY <2>1 DEF RefuseRerun, Take
        <3> QED BY <1>0, <3>1 DEF Take, Takes, InSession
    <2>2. CASE BeginRerun
        <3>1. Take("Reprocess") /\ session = "idle" /\ session' = "reprocessing" /\ UNCHANGED control
            BY <2>2 DEF BeginRerun
        <3> QED BY <1>0, <3>1 DEF Take, Takes, InSession
    <2>3. CASE RerunDrains
        <3>1. /\ inbox # <<>> /\ inbox' = Tail(inbox) /\ UNCHANGED control
              /\ tpc = "rerunWait" /\ tpc' = tpc /\ session # "active"
            BY <2>3 DEF RerunDrains, Driven
        <3>2. /\ Head(inbox).cmd = "Start" => session' = "failed"
              /\ Head(inbox).cmd \in {"Chunk", "Reprocess"} => session' = session
              /\ Head(inbox).cmd = "Cancel" => session' = "idle"
              /\ Head(inbox).cmd = "Flush" => IF session = "failed" THEN session' = "idle"
                                              ELSE session' = session
            BY <2>3 DEF RerunDrains
        <3> QED BY <1>0, <3>1, <3>2 DEF Takes, InSession
    <2>4. CASE RerunArm
        BY <1>0, <2>4 DEF RerunArm, Rests, InSession
    <2>5. CASE RerunStart \/ RerunChunk \/ RerunFlush \/ RerunAnswered \/ RerunAbandoned
        <3>1. UNCHANGED <<control, inbox, pending>> /\ tpc \in Drive
            BY <2>5 DEF RerunStart, RerunChunk, RerunFlush, RerunAnswered, RerunAbandoned
        <3>2. \/ session' = session /\ tpc' \in Drive
              \/ \E status, o, parts : EndRerun(status, o, parts)
            BY <2>5 DEF RerunStart, RerunChunk, RerunFlush, RerunAnswered, RerunAbandoned, GiveUp
        <3>3. InSession' = InSession
            BY <3>1, <3>2, EndDriven DEF InSession
        <3> QED BY <1>0, <3>1, <3>3 DEF Rests
    <2> QED BY <1>4, <2>1, <2>2, <2>3, <2>4, <2>5 DEF Driving
<1>5. ASSUME NEW c, Reader(c) PROVE Rests
    BY <1>0, <1>5 DEF Reader, ReadPartial, ReadAnswer, ReadEnd, MarkDead, CheckEpoch, FailOwed, Rests
<1>6. ASSUME NEW c, DaemonHandles(c) \/ DaemonFails(c) \/ DaemonCloses(c) PROVE Rests
    BY <1>0, <1>6 DEF DaemonHandles, DaemonFails, DaemonCloses, Rests
<1>7. CASE UNCHANGED vars
    BY <1>0, <1>7 DEF vars, Rests
<1> QED BY <1>1, <1>2, <1>3, <1>4, <1>5, <1>6, <1>7 DEF Next

\* The last dictation started, after the step.
Started(n, n2) ==
    n2 = IF inbox # <<>> /\ inbox' = Tail(inbox) /\ Head(inbox).cmd = "Start"
         THEN Head(inbox).of.id ELSE n

LEMMA QueuedTypes ==
    ASSUME IInv, NEW n, Queued(n)
    PROVE  /\ inbox \in Seq(Command) /\ cur \in Nat /\ n \in Nat /\ InSession \in BOOLEAN
           /\ n <= cur /\ NumDictations \in Nat /\ cur \in 0..NumDictations
BY BoundsAssumption DEF IInv, TypeOK, ChannelsOK, ControlOK, Queued, InSession

\* Which dictations the queue speaks of.
LEMMA QueuedIds ==
    ASSUME IInv, NEW n, Queued(n), NEW d
    PROVE  /\ Begins(inbox, d) => d \in n + 1..cur
           /\ Ends(inbox, d) => d \in n..cur
<1>1. /\ inbox \in Seq(Command) /\ cur \in Nat /\ n \in Nat
    BY QueuedTypes
<1>2. \A i \in 1..Len(inbox) : inbox[i].of.id \in Nat
    BY <1>1, ElementOfSeq, Ids
<1> QED BY <1>1, <1>2 DEF Queued, Orderly, Begins, Ends

\* What is queued, and by whom.
Feeding(m) ==
    /\ inbox' = Append(inbox, m)
    /\ \/ Press /\ m = Cmd("Start", Dictation(cur'), 0) /\ cur' = cur + 1
       \/ cur' = cur /\ ctl = "recording" /\ ctl' = ctl /\ m.cmd = "Chunk" /\ m.of.id = cur
       \/ /\ cur' = cur /\ ctl = "recording" /\ m.of.id = cur
          /\ (m.cmd = "Flush" /\ ctl' = "waiting") \/ (m.cmd = "Cancel" /\ ctl' = "idle")
       \/ cur' = cur /\ ctl' = ctl /\ m.cmd = "Reprocess"

LEMMA FeedsOne ==
    ASSUME IInv, NEW n, Queued(n), Feeds, InSession' = InSession
    PROVE  \E m \in Command : Feeding(m)
<1> USE DEF Feeding
<1>1. /\ cur \in 0..NumDictations /\ NumDictations \in Nat /\ spoken \in 0..SpokenChunks
      /\ SpokenChunks \in Nat /\ (ctl # "idle" => cur # 0)
    BY BoundsAssumption DEF IInv, TypeOK, ControlOK
<1>2. CASE Press
    <2>1. cur' = cur + 1 /\ cur' \in Dictations
        BY <1>1, <1>2 DEF Press, Dictations
    <2> QED BY <1>2, <2>1, CommandTypes DEF Press
<1>3. CASE Speak
    <2>1. cur \in Dictations /\ spoken' \in Nat /\ cur' = cur
        BY <1>1, <1>3 DEF Speak, Dictations
    <2>2. Cmd("Chunk", Dictation(cur), spoken') \in Command
        BY <2>1, CommandTypes
    <2> QED BY <1>3, <2>1, <2>2 DEF Speak, Cmd, Dictation
<1>4. CASE Release
    <2>1. cur \in Dictations /\ cur' = cur
        BY <1>1, <1>4 DEF Release, Dictations
    <2>2. Cmd("Flush", Dictation(cur), 0) \in Command
        BY <2>1, CommandTypes
    <2> QED BY <1>4, <2>1, <2>2 DEF Release, Cmd, Dictation
<1>5. CASE CancelDictation
    <2>1. cur \in Dictations /\ cur' = cur
        BY <1>1, <1>5 DEF CancelDictation, Dictations
    <2>2. Cmd("Cancel", Dictation(cur), 0) \in Command
        BY <2>1, CommandTypes
    <2> QED BY <1>5, <2>1, <2>2 DEF CancelDictation, Cmd, Dictation
<1>6. CASE \E r \in Reruns : RequestRerun(r)
    <2>1. PICK r \in Reruns : RequestRerun(r)
        BY <1>6
    <2>2. Cmd("Reprocess", Rerun(r), 0) \in Command /\ Cmd("Reprocess", Rerun(r), 0).cmd = "Reprocess"
        BY CommandTypes DEF Cmd
    <2> QED BY <2>1, <2>2 DEF RequestRerun, control
<1> QED BY <1>2, <1>3, <1>4, <1>5, <1>6 DEF Feeds

LEMMA QueuedHolds ==
    ASSUME IInv, IInv', Driven, [Next]_vars, NEW n, Queued(n), NEW n2, Started(n, n2)
    PROVE  Queued(n2)'
<1> DEFINE q == inbox
           on == InSession
<1>1. /\ inbox \in Seq(Command) /\ cur \in Nat /\ n \in Nat /\ on \in BOOLEAN
      /\ n <= cur /\ Orderly(q, n, on) /\ Ending(q, n, on) /\ cur' \in Nat
      /\ on' \in BOOLEAN
    <2>1. cur' \in Nat
        BY BoundsAssumption DEF IInv, TypeOK, ControlOK
    <2> QED BY <2>1, QueuedTypes DEF Queued, InSession
<1>2. CASE Feeds /\ InSession' = InSession
    <2>1. PICK m \in Command : Feeding(m)
        BY <1>2, FeedsOne
    <2>2. n2 = n
        <3>1. Len(inbox') = Len(inbox) + 1 /\ Len(inbox) \in Nat
            BY <1>1, <2>1, Appends DEF Feeding
        <3>2. inbox # <<>> => inbox' # Tail(inbox)
            BY <1>1, <3>1, Tails
        <3> QED BY <3>2 DEF Started
    <2>3. PICK r : r = inbox'
        OBVIOUS
    <2>4. /\ ctl = "recording" => ~Ends(q, cur) /\ ((on /\ n = cur) \/ Begins(q, cur))
        BY <1>1 DEF Ending
    <2>5. \A d : /\ Ends(r, d) <=> Ends(q, d) \/ (m.cmd \in {"Flush", "Cancel"} /\ m.of.id = d)
                 /\ Begins(r, d) <=> Begins(q, d) \/ (m.cmd = "Start" /\ m.of.id = d)
        BY <1>1, <2>1, <2>3, EndsAppend DEF Feeding
    <2>6. \A d : (Begins(q, d) => d \in n + 1..cur) /\ (Ends(q, d) => d \in n..cur)
        BY QueuedIds
    <2>7. on' = on
        BY <1>2
    <2> HIDE DEF on, q
    <2>8. Orderly(r, n, on)' /\ Ending(r, n, on)'
        <3>1. CASE Press /\ m = Cmd("Start", Dictation(cur'), 0) /\ cur' = cur + 1
            <4>1. m.cmd = "Start" /\ m.of.id = cur' /\ ctl = "idle" /\ ctl' = "recording"
                BY <3>1 DEF Press, Cmd, Dictation
            <4>2. Orderly(r, n, on)'
                BY <1>1, <2>1, <2>3, <2>7, <3>1, <4>1, OrderlyAppend DEF q, Feeding
            <4>3. Ending(r, n, on)'
                BY <1>1, <2>5, <2>6, <2>7, <3>1, <4>1 DEF Ending
            <4> QED BY <4>2, <4>3
        <3>2. CASE /\ cur' = cur /\ ctl = "recording" /\ ctl' = ctl
                   /\ m.cmd = "Chunk" /\ m.of.id = cur
            <4>1. Orderly(r, n, on)'
                BY <1>1, <2>1, <2>3, <2>4, <2>7, <3>2, OrderlyAppend DEF q, Feeding
            <4>2. Ending(r, n, on)'
                BY <1>1, <2>5, <2>7, <3>2 DEF Ending
            <4> QED BY <4>1, <4>2
        <3>3. CASE /\ cur' = cur /\ ctl = "recording" /\ m.of.id = cur
                   /\ (m.cmd = "Flush" /\ ctl' = "waiting") \/ (m.cmd = "Cancel" /\ ctl' = "idle")
            <4>1. Orderly(r, n, on)'
                BY <1>1, <2>1, <2>3, <2>4, <2>7, <3>3, OrderlyAppend DEF q, Feeding
            <4>2. Ending(r, n, on)'
                BY <1>1, <2>5, <2>7, <3>3 DEF Ending
            <4> QED BY <4>1, <4>2
        <3>4. CASE cur' = cur /\ ctl' = ctl /\ m.cmd = "Reprocess"
            <4>1. Orderly(r, n, on)'
                BY <1>1, <2>1, <2>3, <2>7, <3>4, OrderlyAppend DEF q, Feeding
            <4>2. Ending(r, n, on)'
                BY <1>1, <2>5, <2>7, <3>4 DEF Ending
            <4> QED BY <4>1, <4>2
        <3> QED BY <2>1, <3>1, <3>2, <3>3, <3>4 DEF Feeding
    <2>9. cur' >= cur
        BY <1>1, <2>1 DEF Feeding
    <2> QED BY <1>1, <2>2, <2>3, <2>7, <2>8, <2>9 DEF Queued, on
<1>3. CASE Takes
    <2>1. PICK r : r = inbox'
        OBVIOUS
    <2>2. /\ q # <<>> /\ r = Tail(q) /\ UNCHANGED <<ctl, cur>> /\ Head(q) \in Command
          /\ Head(q).of.id \in Nat
        BY <1>1, <1>3, <2>1, Tails, Ids DEF Takes
    <2>3. \A d : /\ Ends(q, d) <=> \/ Head(q).cmd \in {"Flush", "Cancel"} /\ Head(q).of.id = d
                                   \/ Ends(r, d)
                 /\ Begins(q, d) <=> \/ Head(q).cmd = "Start" /\ Head(q).of.id = d
                                     \/ Begins(r, d)
        BY <1>1, <2>2, EndsTail
    <2>4. \A d : (Begins(q, d) => d \in n + 1..cur)
        BY QueuedIds
    <2>5. /\ Head(q).cmd = "Start" =>
                /\ Head(q).of.id \in n + 1..cur
                /\ Orderly(r, Head(q).of.id, TRUE)
          /\ Head(q).cmd = "Chunk" => on /\ Head(q).of.id = n /\ Orderly(r, n, on)
          /\ Head(q).cmd \in {"Flush", "Cancel"} =>
                on /\ Head(q).of.id = n /\ Orderly(r, n, FALSE)
          /\ Head(q).cmd = "Reprocess" => Orderly(r, n, on)
        BY <1>1, <2>2, OrderlyTail
    <2>6. on => n # 0
        BY DEF Queued
    <2>7. ASSUME NEW k, NEW o, Orderly(r, k, o), o = on' PROVE Orderly(r, k, on)'
        BY <2>2, <2>7 DEF Orderly
    <2> HIDE DEF q, on
    <2>8. CASE Head(q).cmd = "Start"
        <3>1. n2 = Head(q).of.id /\ on' = TRUE
            BY <1>3, <2>2, <2>8 DEF Started, Takes, q, on
        <3>2. Orderly(r, n2, on)'
            BY <2>5, <2>7, <2>8, <3>1
        <3>3. Ending(r, n2, on)'
            BY <1>1, <2>2, <2>3, <2>4, <2>5, <2>8, <3>1 DEF Ending
        <3>4. n2 \in 0..cur' /\ n2 # 0
            <4>1. n2 \in n + 1..cur /\ cur' = cur
                BY <2>2, <2>5, <2>8, <3>1
            <4> QED BY <1>1, <4>1
        <3> QED BY <2>1, <3>2, <3>3, <3>4 DEF Queued, on
    <2>9. CASE Head(q).cmd \in {"Chunk", "Reprocess"}
        <3>1. n2 = n /\ on' = on
            BY <1>3, <2>9 DEF Started, Takes, q, on
        <3>2. Orderly(r, n2, on)'
            BY <2>5, <2>7, <2>9, <3>1
        <3>3. Ending(r, n2, on)'
            BY <1>1, <2>2, <2>3, <2>9, <3>1 DEF Ending
        <3> QED BY <1>1, <2>1, <2>2, <2>6, <3>1, <3>2, <3>3 DEF Queued, on
    <2>10. CASE Head(q).cmd \in {"Flush", "Cancel"}
        <3>1. n2 = n /\ on' = FALSE
            <4>1. ~on'
                BY <1>3, <2>5, <2>10 DEF Takes, q, on
            <4> QED BY <1>1, <2>10, <4>1 DEF Started, q
        <3>2. Orderly(r, n2, on)'
            BY <2>5, <2>7, <2>10, <3>1
        <3>3. \A d \in Nat : Begins(r, d) =>
                  Begins(q, d) /\ d # n /\ (Ends(q, d) <=> Ends(r, d))
            <4>1. \A d \in Nat : Begins(r, d) => Begins(q, d)
                BY <2>3
            <4>2. \A d \in n + 1..cur : d # n
                BY <1>1
            <4> QED BY <2>3, <2>4, <2>5, <2>10, <4>1, <4>2
        <3>4. ctl = "recording" => Begins(r, cur)
            <4>1. Ends(q, n) /\ ~(ctl = "recording" /\ n = cur)
                BY <1>1, <2>3, <2>5, <2>10 DEF Ending
            <4>2. Head(q).cmd # "Start"
                BY <2>10
            <4> QED BY <1>1, <2>3, <4>1, <4>2 DEF Ending
        <3>5. Ending(r, n2, on)'
            BY <1>1, <2>2, <3>1, <3>3, <3>4 DEF Ending
        <3> QED BY <3>5, <1>1, <2>1, <2>2, <3>1, <3>2, <3>3 DEF Queued, on
    <2> QED BY <2>2, <2>8, <2>9, <2>10, Ids
<1>4. CASE Rests
    <2>1. n2 = n
        <3>1. inbox # <<>> => inbox # Tail(inbox)
            BY <1>1, Tails
        <3> QED BY <1>4, <3>1 DEF Started, Rests
    <2>2. PICK r : r = inbox
        OBVIOUS
    <2>3. cur' = cur /\ inbox' = r /\ on' = on /\ (ctl' = "recording" <=> ctl = "recording")
        BY <1>4, <2>2 DEF Rests
    <2>4. Orderly(r, n, on) /\ Ending(r, n, on) /\ (on => n # 0)
        BY <1>1, <2>2 DEF Queued
    <2> HIDE DEF on
    <2>5. Orderly(r, n, on)'
        BY <2>3, <2>4 DEF Orderly
    <2>6. Ending(r, n, on)'
        BY <2>3, <2>4 DEF Ending
    <2> QED BY <1>1, <2>1, <2>3, <2>4, <2>5, <2>6 DEF Queued, on
<1> QED BY <1>2, <1>3, <1>4, InboxMoves

\* The thread, its queue and the session it handles, as long as some n is the
\* last dictation it has started.
QInv == IInv /\ Driven /\ \E n : Queued(n)

LEMMA StepQInv == QInv /\ [Next]_vars => QInv'
<1> SUFFICES ASSUME QInv, [Next]_vars PROVE QInv'
    OBVIOUS
<1>1. IInv /\ IInv' /\ Driven /\ Driven'
    BY StepIInv, DrivenHolds DEF QInv
<1>2. PICK n : Queued(n)
    BY DEF QInv
<1>3. PICK n2 : Started(n, n2)
    BY DEF Started
<1>4. Queued(n2)'
    BY <1>1, <1>2, <1>3, QueuedHolds
<1> QED BY <1>1, <1>4 DEF QInv

LEMMA InitQInv == Init => QInv
<1> SUFFICES ASSUME Init PROVE QInv
    OBVIOUS
<1>1. IInv
    BY InitIInv
<1>2. Driven
    BY DEF Init, ThreadInit, LedgerInit, Driven, Drive
<1>3. Queued(0)
    BY DEF Init, ClientInit, ThreadInit, Queued, InSession, Orderly, Ending, Begins, Ends
<1> QED BY <1>1, <1>2, <1>3 DEF QInv

\* However presses, cancels and reruns interleave, for any number of them: with
\* nothing queued but reruns and no dictation being recorded, the thread's
\* session is idle, so a rerun is not refused for a session that is over
\* (handle_during_reprocess).
THEOREM QuietIsIdle == Spec => []IdleWhenQuiet
<1>1. QInv => IdleWhenQuiet
    <2> SUFFICES ASSUME QInv, tpc = "loop", ctl # "recording",
                        \A i \in 1..Len(inbox) : inbox[i].cmd = "Reprocess"
                 PROVE  session = "idle"
        BY DEF IdleWhenQuiet
    <2>1. PICK n : Queued(n)
        BY DEF QInv
    <2>2. InSession => n \in Nat /\ Ends(inbox, n)
        BY <2>1, QueuedTypes DEF QInv, Queued, Ending
    <2>3. ~InSession
        BY <2>2 DEF Ends
    <2>4. session \in {"idle", "active", "failed", "reprocessing"} /\ session # "reprocessing"
        BY DEF QInv, IInv, TypeOK, ThreadOK, Driven, Drive
    <2> QED BY <2>3, <2>4 DEF InSession
<1> QED BY <1>1, InitQInv, StepQInv, PTL DEF Spec

-----------------------------------------------------------------------------
(* Every Flush is counted once *)

FlushesAt(q)  == {i \in 1..Len(q) : q[i].cmd = "Flush"}
FlushesIn(q)  == Cardinality(FlushesAt(q))
Flushed       == IF tpc = "flushed" THEN 1 ELSE 0
Waiting       == IF ctl = "waiting" THEN 1 ELSE 0

LEMMA FlushesFinite ==
    ASSUME NEW q \in Seq(Command)
    PROVE  IsFiniteSet(FlushesAt(q)) /\ FlushesIn(q) \in Nat
<1>1. IsFiniteSet(1..Len(q))
    BY LenProperties, FS_Interval
<1>2. FlushesAt(q) \subseteq 1..Len(q)
    BY DEF FlushesAt
<1> QED BY <1>1, <1>2, FS_Subset, FS_CardinalityType DEF FlushesIn

LEMMA FlushesAppend ==
    ASSUME NEW q \in Seq(Command), NEW m \in Command
    PROVE  FlushesIn(Append(q, m)) = FlushesIn(q) + (IF m.cmd = "Flush" THEN 1 ELSE 0)
<1> DEFINE r == Append(q, m)
<1>1. /\ Len(q) \in Nat /\ Len(r) = Len(q) + 1 /\ r[Len(q) + 1] = m
      /\ \A i \in 1..Len(q) : i \in 1..Len(r) /\ r[i] = q[i]
      /\ \A i \in 1..Len(r) : i \in 1..Len(q) \/ i = Len(q) + 1
    BY Appends
<1> HIDE DEF r
<1>2. FlushesAt(r) = IF m.cmd = "Flush" THEN FlushesAt(q) \cup {Len(q) + 1} ELSE FlushesAt(q)
    BY <1>1 DEF FlushesAt
<1>3. Len(q) + 1 \notin FlushesAt(q)
    BY <1>1 DEF FlushesAt
<1>4. Cardinality(FlushesAt(q) \cup {Len(q) + 1}) = Cardinality(FlushesAt(q)) + 1
    BY <1>3, FlushesFinite, FS_AddElement
<1> QED BY <1>2, <1>4, FlushesFinite DEF FlushesIn, r

LEMMA FlushesTail ==
    ASSUME NEW q \in Seq(Command), q # <<>>
    PROVE  FlushesIn(q) = FlushesIn(Tail(q)) + (IF Head(q).cmd = "Flush" THEN 1 ELSE 0)
<1> DEFINE r     == Tail(q)
           later == FlushesAt(q) \ {1}
           f     == [i \in later |-> i - 1]
<1>1. IsFiniteSet(FlushesAt(q)) /\ FlushesIn(q) \in Nat
    BY FlushesFinite
<1>2. /\ Len(q) \in Nat \ {0} /\ 1 \in 1..Len(q) /\ Len(r) = Len(q) - 1 /\ Head(q) = q[1]
      /\ \A i \in 1..Len(r) : i + 1 \in 1..Len(q) /\ r[i] = q[i + 1]
    BY Tails
<1>3. f \in Bijection(later, FlushesAt(r))
    <2> HIDE DEF r
    <2>1. f \in [later -> FlushesAt(r)]
        BY <1>2 DEF FlushesAt
    <2>2. \A i, j \in later : f[i] = f[j] => i = j
        BY <1>2 DEF FlushesAt
    <2>3. \A j \in FlushesAt(r) : j + 1 \in later /\ f[j + 1] = j
        BY <1>2 DEF FlushesAt
    <2>4. f \in Injection(later, FlushesAt(r)) /\ f \in Surjection(later, FlushesAt(r))
        BY <2>1, <2>2, <2>3 DEF Injection, Surjection, IsInjective
    <2> QED BY <2>4 DEF Bijection
<1>4. ExistsBijection(later, FlushesAt(r))
    BY <1>3 DEF ExistsBijection
<1>5. /\ IsFiniteSet(later)
      /\ Cardinality(later) = IF 1 \in FlushesAt(q) THEN Cardinality(FlushesAt(q)) - 1
                              ELSE Cardinality(FlushesAt(q))
    BY <1>1, FS_RemoveElement
<1>6. FlushesIn(r) = Cardinality(later)
    <2> HIDE DEF later, f
    <2> QED BY <1>4, <1>5, FS_Bijection DEF FlushesIn
<1>7. 1 \in FlushesAt(q) <=> Head(q).cmd = "Flush"
    BY <1>2 DEF FlushesAt
<1> QED BY <1>1, <1>5, <1>6, <1>7 DEF FlushesIn

\* No Flush is queued exactly if the count is nothing.
LEMMA NoFlush ==
    ASSUME NEW q \in Seq(Command), FlushesIn(q) = 0
    PROVE  \A i \in 1..Len(q) : q[i].cmd # "Flush"
<1>1. FlushesAt(q) = {}
    BY FlushesFinite, FS_EmptySet DEF FlushesIn
<1> QED BY <1>1 DEF FlushesAt

Owing == FlushesIn(inbox) + Flushed + pending + Len(results)

LEMMA StaleIsOwing == StaleIsOwed <=> stale + Waiting = Owing
BY DEF StaleIsOwed, UnhandledFlushes, FlushesIn, FlushesAt, Owing, Waiting, Flushed

LEMMA OwingTypes ==
    ASSUME IInv
    PROVE  /\ FlushesIn(inbox) \in Nat /\ Flushed \in {0, 1} /\ pending \in Nat
           /\ Len(results) \in Nat /\ stale \in Nat /\ Waiting \in {0, 1}
           /\ inbox \in Seq(Command) /\ results \in Seq(Result)
<1>1. inbox \in Seq(Command) /\ results \in Seq(Result) /\ pending \in Nat /\ stale \in Nat
    BY DEF IInv, TypeOK, ChannelsOK, LedgerOK, ControlOK
<1> QED BY <1>1, FlushesFinite, LenProperties DEF Flushed, Waiting

\* The head of the queue, taken.
LEMMA TakeCounts ==
    ASSUME IInv, inbox # <<>>, inbox' = Tail(inbox)
    PROVE  FlushesIn(inbox) = FlushesIn(inbox)' + (IF Head(inbox).cmd = "Flush" THEN 1 ELSE 0)
<1>1. inbox \in Seq(Command)
    BY OwingTypes
<1>2. FlushesIn(inbox) = FlushesIn(inbox') + (IF Head(inbox).cmd = "Flush" THEN 1 ELSE 0)
    BY <1>1, FlushesTail
<1> QED BY <1>2 DEF FlushesIn, FlushesAt

LEMMA FeedCounts ==
    ASSUME IInv, NEW m \in Command, inbox' = Append(inbox, m)
    PROVE  FlushesIn(inbox)' = FlushesIn(inbox) + (IF m.cmd = "Flush" THEN 1 ELSE 0)
<1>1. inbox \in Seq(Command)
    BY OwingTypes
<1>2. FlushesIn(inbox') = FlushesIn(inbox) + (IF m.cmd = "Flush" THEN 1 ELSE 0)
    BY <1>1, FlushesAppend
<1> QED BY <1>2 DEF FlushesIn, FlushesAt

LEMMA ResultCounts ==
    ASSUME IInv
    PROVE  /\ \A x \in Result : results' = Append(results, x) => Len(results') = Len(results) + 1
           /\ results # <<>> /\ results' = Tail(results) => Len(results') = Len(results) - 1
           /\ results = <<>> <=> Len(results) = 0
<1>1. results \in Seq(Result)
    BY OwingTypes
<1>2. results = <<>> <=> Len(results) = 0
    BY <1>1, EmptySeq
<1> QED BY <1>1, <1>2, AppendProperties, HeadTailProperties

\* An answer read from a connection.
LEMMA AnswerTypes ==
    ASSUME IInv, NEW c \in DOMAIN net.links, ReadAnswer(c)
    PROVE  \E res \in Result : Deliver(res) /\ res.of = Head(net.links[c].down).of
                               /\ (res.kind = "final" <=> Head(net.links[c].down).msg = "Final")
<1> DEFINE f == Head(net.links[c].down)
           res == [kind |-> IF f.msg = "Final" THEN "final" ELSE "failed",
                   of |-> f.of, text |-> f.text]
<1>1. net.links[c].down # <<>> /\ f.msg \in {"Final", "Error"} /\ Deliver(res)
    BY DEF ReadAnswer
<1>2. res \in Result
    BY <1>1, FrameTypes DEF DaemonFrame, Result
<1>3. res.of = f.of /\ (res.kind = "final" <=> f.msg = "Final")
    OBVIOUS
<1> QED BY <1>1, <1>2, <1>3

\* What the queue has next, of the dictation being handled.
LEMMA NextOfSession ==
    ASSUME IInv, NEW n, Queued(n), inbox # <<>>
    PROVE  /\ Head(inbox) \in Command
           /\ Head(inbox).cmd = "Start" => Head(inbox).of.id \in n + 1..cur
           /\ Head(inbox).cmd \in {"Chunk", "Flush", "Cancel"} => InSession /\ Head(inbox).of.id = n
<1>1. /\ inbox \in Seq(Command) /\ n \in Nat /\ InSession \in BOOLEAN /\ cur \in Nat
      /\ Orderly(inbox, n, InSession)
    BY QueuedTypes DEF Queued
<1>2. Head(inbox) \in Command
    BY <1>1, Tails
<1> QED BY <1>1, <1>2, OrderlyTail

\* What a rerun in progress does when a Flush comes: it fails it, as the Start
\* that came before was failed.
LEMMA DrainedFlush ==
    ASSUME QInv, RerunDrains, Head(inbox).cmd = "Flush"
    PROVE  FailDictation(Head(inbox).of)
<1>1. PICK n : Queued(n)
    BY DEF QInv
<1>2. InSession
    BY <1>1, NextOfSession DEF QInv, RerunDrains
<1>3. session = "failed"
    BY <1>2 DEF InSession, QInv, Driven, RerunDrains, Drive
<1> QED BY <1>3 DEF RerunDrains

LEMMA StaleHolds ==
    ASSUME QInv, [Next]_vars, StaleIsOwed PROVE StaleIsOwed'
<1> USE DEF Drive
<1>0. /\ FlushesIn(inbox) \in Nat /\ Flushed \in {0, 1} /\ pending \in Nat
      /\ Len(results) \in Nat /\ stale \in Nat /\ Waiting \in {0, 1}
      /\ stale + Waiting = Owing /\ IInv
    BY OwingTypes, StaleIsOwing DEF QInv
<1>a. FlushesIn(inbox)' \in Nat
    <2>1. inbox' \in Seq(Command)
        BY <1>0, StepIInv DEF IInv, TypeOK, ChannelsOK
    <2>2. FlushesIn(inbox') \in Nat
        BY <2>1, FlushesFinite
    <2> QED BY <2>2 DEF FlushesIn, FlushesAt
<1>1. ASSUME (stale + Waiting = Owing)' PROVE StaleIsOwed'
    BY <1>1 DEF StaleIsOwed, UnhandledFlushes, FlushesIn, FlushesAt, Owing, Waiting, Flushed
<1> USE <1>0, <1>a
\* A step that moves nothing that is counted, and one that takes no Flush.
<1>2. ASSUME UNCHANGED <<stale, ctl, inbox, pending, results>>, Flushed' = Flushed
      PROVE  StaleIsOwed'
    BY <1>1, <1>2 DEF Owing, Waiting, FlushesIn, FlushesAt
<1>3. ASSUME UNCHANGED <<stale, ctl, pending, results>>, Flushed' = Flushed,
             inbox # <<>>, inbox' = Tail(inbox), Head(inbox).cmd # "Flush"
      PROVE  StaleIsOwed'
    <2>1. FlushesIn(inbox)' = FlushesIn(inbox)
        <3>1. FlushesIn(inbox) = FlushesIn(inbox)' + 0
            BY <1>3, TakeCounts
        <3> QED BY <3>1
    <2> QED BY <1>1, <1>3, <2>1 DEF Owing, Waiting
\* A step that takes a Flush and fails it.
<1>4. ASSUME UNCHANGED <<stale, ctl, pending>>, Flushed' = Flushed,
             inbox # <<>>, inbox' = Tail(inbox), Head(inbox).cmd = "Flush",
             FailDictation(Head(inbox).of)
      PROVE  StaleIsOwed'
    <2>1. FlushesIn(inbox) = FlushesIn(inbox)' + 1
        BY <1>4, TakeCounts
    <2>2. Head(inbox) \in Command /\ Head(inbox).of \in Owner
        BY <1>4, InboxTypes, CommandTypes
    <2>3. Len(results') = Len(results) + 1
        BY <1>4, <2>2, ResultCounts, FailTypes DEF FailDictation
    <2> QED BY <1>1, <1>4, <2>1, <2>3 DEF Owing, Waiting
<1>5. /\ UNCHANGED thread => Flushed' = Flushed
      /\ UNCHANGED control => UNCHANGED <<stale, ctl>>
      /\ UNCHANGED ledger => UNCHANGED pending
    BY DEF thread, control, ledger, Flushed
<1>6. CASE Feeds
    <2>1. PICK n : Queued(n)
        BY DEF QInv
    <2>2. InSession' = InSession /\ Flushed' = Flushed /\ UNCHANGED <<stale, pending, results>>
        BY <1>5, <1>6 DEF Feeds, Press, Speak, Release, CancelDictation, RequestRerun, InSession, thread
    <2>3. PICK m \in Command : Feeding(m)
        BY <1>6, <2>1, <2>2, FeedsOne
    <2>4. FlushesIn(inbox)' = FlushesIn(inbox) + (IF m.cmd = "Flush" THEN 1 ELSE 0)
        BY <2>3, FeedCounts DEF Feeding
    <2>5. Waiting' = Waiting + (IF m.cmd = "Flush" THEN 1 ELSE 0)
        BY <1>6, <2>3 DEF Feeding, Press, Waiting, Cmd
    <2> QED BY <1>1, <2>2, <2>4, <2>5 DEF Owing
<1>7. CASE Control /\ ~Feeds
    <2>1. CASE FinishReceives
        <3>1. Len(results') = Len(results) - 1 /\ UNCHANGED <<inbox, pending>> /\ Flushed' = Flushed
            BY <1>5, <2>1, ResultCounts DEF FinishReceives
        <3>2. stale' + Waiting' = stale + Waiting - 1
            BY <2>1 DEF FinishReceives, Waiting
        <3> QED BY <1>1, <3>1, <3>2 DEF Owing, FlushesIn, FlushesAt
    <2>2. CASE FinishTimesOut
        <3>1. UNCHANGED <<inbox, pending, results>> /\ Flushed' = Flushed
            BY <1>5, <2>2 DEF FinishTimesOut
        <3>2. stale' + Waiting' = stale + Waiting
            BY <2>2 DEF FinishTimesOut, Waiting
        <3> QED BY <1>1, <3>1, <3>2 DEF Owing, FlushesIn, FlushesAt
    <2> QED BY <1>7, <2>1, <2>2 DEF Control, Feeds
<1>8. CASE Settings /\ ~Feeds
    BY <1>2, <1>5, <1>8 DEF Settings, Feeds, SwitchModels
<1>9. CASE Commands
    <2>1. CASE Boot \/ RefreshModels
        BY <1>2, <1>5, <2>1 DEF Boot, RefreshModels, Flushed
    <2>2. CASE HandleStart \/ HandleChunk \/ HandleCancel
        <3>1. /\ inbox # <<>> /\ inbox' = Tail(inbox) /\ Head(inbox).cmd # "Flush"
              /\ tpc = "loop" /\ tpc' # "flushed" /\ UNCHANGED <<control, ledger, results>>
            BY <2>2, AfterTypes DEF HandleStart, HandleChunk, HandleCancel, Take
        <3> QED BY <1>3, <1>5, <3>1 DEF Flushed
    <2>3. CASE FlushFails
        <3>1. /\ inbox # <<>> /\ inbox' = Tail(inbox) /\ Head(inbox).cmd = "Flush"
              /\ tpc = "loop" /\ tpc' # "flushed" /\ UNCHANGED <<control, ledger>>
              /\ FailDictation(Head(inbox).of)
            BY <2>3, AfterTypes DEF FlushFails, Take
        <3> QED BY <1>4, <1>5, <3>1 DEF Flushed
    <2>4. CASE FlushWritten
        <3>1. /\ inbox # <<>> /\ inbox' = Tail(inbox) /\ Head(inbox).cmd = "Flush"
              /\ tpc = "loop" /\ tpc' = "flushed" /\ UNCHANGED <<control, ledger, results>>
            BY <2>4 DEF FlushWritten, Take
        <3>2. FlushesIn(inbox) = FlushesIn(inbox)' + 1
            BY <3>1, TakeCounts
        <3>3. Flushed = 0 /\ Flushed' = 1
            BY <3>1 DEF Flushed
        <3> QED BY <1>1, <1>5, <3>1, <3>2, <3>3 DEF Owing, Waiting
    <2>5. CASE BeginFlush
        <3>1. Flushed = 1 /\ Flushed' = 0
            BY <2>5, AfterTypes DEF BeginFlush, Flushed
        <3>2. UNCHANGED <<control, inbox, results>> /\ pending' = pending + 1
            BY <2>5 DEF BeginFlush
        <3> QED BY <1>1, <1>5, <3>1, <3>2 DEF Owing, Waiting, FlushesIn, FlushesAt
    <2> QED BY <1>9, <2>1, <2>2, <2>3, <2>4, <2>5 DEF Commands
<1>10. CASE Driving
    <2>1. CASE RefuseRerun \/ BeginRerun
        <3>1. /\ inbox # <<>> /\ inbox' = Tail(inbox) /\ Head(inbox).cmd # "Flush"
              /\ tpc = "loop" /\ tpc' # "flushed" /\ UNCHANGED <<control, ledger, results>>
            BY <2>1 DEF RefuseRerun, BeginRerun, Take
        <3> QED BY <1>3, <1>5, <3>1 DEF Flushed
    <2>2. CASE RerunDrains
        <3>1. /\ inbox # <<>> /\ inbox' = Tail(inbox) /\ tpc' = tpc
              /\ UNCHANGED <<control, ledger>> /\ Flushed' = Flushed
            BY <2>2 DEF RerunDrains, Flushed
        <3>2. CASE Head(inbox).cmd = "Flush"
            BY <1>4, <1>5, <2>2, <3>1, <3>2, DrainedFlush
        <3>3. CASE Head(inbox).cmd # "Flush"
            <4>1. UNCHANGED results
                BY <2>2, <3>3 DEF RerunDrains
            <4> QED BY <1>3, <1>5, <3>1, <3>3, <4>1
        <3> QED BY <3>2, <3>3
    <2>3. CASE RerunArm
        BY <1>2, <1>5, <2>3 DEF RerunArm, Flushed
    <2>4. CASE RerunStart \/ RerunChunk \/ RerunFlush \/ RerunAnswered \/ RerunAbandoned
        <3>1. UNCHANGED <<control, inbox, pending, results>> /\ tpc # "flushed" /\ tpc' # "flushed"
            BY <2>4, AfterTypes DEF RerunStart, RerunChunk, RerunFlush, RerunAnswered, RerunAbandoned,
                GiveUp, EndRerun
        <3> QED BY <1>2, <1>5, <3>1 DEF Flushed
    <2> QED BY <1>10, <2>1, <2>2, <2>3, <2>4 DEF Driving
<1>11. ASSUME NEW c \in DOMAIN net.links, Reader(c) PROVE StaleIsOwed'
    <2>1. CASE ReadAnswer(c)
        <3>1. PICK res \in Result : Deliver(res)
            BY <2>1, AnswerTypes DEF ReadAnswer
        <3>2. /\ UNCHANGED <<control, inbox>> /\ Flushed' = Flushed
              /\ pending' + Len(results') = pending + Len(results)
            <4>1. results' = Append(results, res) => Len(results') = Len(results) + 1
                BY ResultCounts
            <4> QED BY <1>5, <2>1, <3>1, <4>1 DEF ReadAnswer, Deliver
        <3>3. pending' \in Nat /\ Len(results') \in Nat
            BY <3>1, DeliverTypes, LenProperties
        <3> QED BY <1>1, <1>5, <3>2, <3>3 DEF Owing, Waiting, FlushesIn, FlushesAt
    <2>2. CASE FailOwed(c)
        <3>1. /\ UNCHANGED <<control, inbox>> /\ Flushed' = Flushed
              /\ pending' = 0 /\ results' = results \o [i \in 1..pending |-> Failed(Lost)]
            BY <1>5, <2>2 DEF FailOwed
        <3>2. Failed(Lost) \in Result
            BY EmptySeq DEF Failed, Result, Text
        <3>3. /\ [i \in 1..pending |-> Failed(Lost)] \in Seq(Result)
              /\ Len([i \in 1..pending |-> Failed(Lost)]) = pending
            BY <3>2, SeqDef, LenProperties
        <3>4. Len(results') = Len(results) + pending
            BY <3>1, <3>3, OwingTypes, ConcatProperties
        <3> QED BY <1>1, <1>5, <3>1, <3>4 DEF Owing, Waiting, FlushesIn, FlushesAt
    <2>3. CASE ReadPartial(c) \/ ReadEnd(c) \/ MarkDead(c) \/ CheckEpoch(c)
        BY <1>2, <1>5, <2>3 DEF ReadPartial, ReadEnd, MarkDead, CheckEpoch
    <2> QED BY <1>11, <2>1, <2>2, <2>3 DEF Reader
<1>12. ASSUME NEW c, DaemonHandles(c) \/ DaemonFails(c) \/ DaemonCloses(c) PROVE StaleIsOwed'
    BY <1>2, <1>5, <1>12 DEF DaemonHandles, DaemonFails, DaemonCloses
<1>13. CASE UNCHANGED vars
    BY <1>2, <1>5, <1>13 DEF vars
<1> QED BY <1>6, <1>7, <1>8, <1>9, <1>10, <1>11, <1>12, <1>13 DEF Next

LEMMA InitOwed == Init => StaleIsOwed
<1> SUFFICES ASSUME Init PROVE StaleIsOwed
    OBVIOUS
<1>1. {i \in 1..Len(inbox) : inbox[i].cmd = "Flush"} = {}
    BY DEF Init, ClientInit
<1> QED BY <1>1, FS_EmptySet DEF Init, ClientInit, ThreadInit, LedgerInit, StaleIsOwed, UnhandledFlushes

\* For any number of dictations, reruns, lost connections and timeouts: what the
\* stale counter and the finish now waiting expect is exactly what is still
\* queued, pending or in the channel (transport.rs 122-125).
THEOREM StaleCountsRight == Spec => []StaleIsOwed
<1>1. QInv /\ StaleIsOwed /\ [Next]_vars => QInv' /\ StaleIsOwed'
    BY StepQInv, StaleHolds
<1> QED BY <1>1, InitOwed, InitQInv, PTL DEF Spec

-----------------------------------------------------------------------------
(* The answers to come on every stream, and on the newest *)

\* The newest generation.
Line(n) == IF Len(n.links) = 0 THEN NoStream ELSE n.links[Len(n.links)]

Bare(l) == l.up = <<>> /\ l.down = <<>>

\* The answer to o's Flush is to come on stream l, on some stream of n.
Coming(l, o) ==
    \/ \E i \in 1..Len(l.up) : l.up[i].cmd = "Flush" /\ l.up[i].of = o
    \/ \E i \in 1..Len(l.down) : l.down[i].msg # "Partial" /\ l.down[i].of = o
Comes(n, o) == \E c \in DOMAIN n.links : Coming(n.links[c], o)

\* Nothing is on its way on a closed stream or to a reader that has left, only
\* the connection held is open, and without one the newest generation is over.
Tidy(n) ==
    /\ \A c \in DOMAIN n.links :
          /\ ~n.links[c].open => n.links[c].up = <<>>
          /\ n.links[c].reader # "reading" => n.links[c].down = <<>>
          /\ c # n.conn => ~n.links[c].open
    /\ n.conn = 0 => Line(n).reader = "done"

\* From n to m nothing is written.
Quieter(n, m) ==
    /\ Tidy(m)
    /\ \A o : Comes(m, o) => Comes(n, o)
    /\ \/ Line(m).up = Line(n).up /\ Line(m).down = Line(n).down
       \/ Bare(Line(m))

\* From n to m frame f is written, on the newest connection or on one just made.
Wrote(n, m, f) ==
    /\ Tidy(m)
    /\ \A o : Comes(m, o) => Comes(n, o) \/ (f.cmd = "Flush" /\ o = f.of)
    /\ \/ Line(m).up = Append(Line(n).up, f) /\ Line(m).down = Line(n).down
       \/ Line(m).up = Append(<<>>, f) /\ Line(m).down = <<>>

LEMMA BareComing == \A l, o : Bare(l) => ~Coming(l, o)
BY EmptySeq DEF Bare, Coming

LEMMA LineTypes ==
    ASSUME NEW n, Sound(n)
    PROVE  /\ n.links \in Seq(Link) /\ Len(n.links) \in Nat /\ DOMAIN n.links = 1..Len(n.links)
           /\ Line(n) \in Link /\ Line(n).up \in Seq(ClientFrame) /\ Line(n).down \in Seq(DaemonFrame)
           /\ \A c \in DOMAIN n.links : n.links[c] \in Link
           /\ n.conn # 0 => n.conn = Len(n.links) /\ n.conn \in DOMAIN n.links /\ Line(n) = n.links[n.conn]
           /\ Len(n.links) # 0 => Line(n) = n.links[Len(n.links)] /\ Len(n.links) \in DOMAIN n.links
<1>1. n.links \in Seq(Link) /\ Len(n.links) \in Nat /\ DOMAIN n.links = 1..Len(n.links) /\ n.conn \in Nat
    BY LenProperties DEF Sound, Net
<1>2. \A c \in DOMAIN n.links : n.links[c] \in Link
    BY <1>1, ElementOfSeq
<1>3. Len(n.links) # 0 => Line(n) = n.links[Len(n.links)] /\ Len(n.links) \in DOMAIN n.links
    BY <1>1 DEF Line
<1>4. Line(n) \in Link
    BY <1>1, <1>2, <1>3, LinkTypes DEF Line
<1>5. n.conn # 0 => n.conn = Len(n.links) /\ n.conn \in 1..Len(n.links)
    BY <1>1 DEF Sound, Epoch
<1> QED BY <1>1, <1>2, <1>3, <1>4, <1>5 DEF Link

\* Without a connection, the newest generation is bare.
LEMMA NoConnBare ==
    ASSUME NEW n, Sound(n), Tidy(n), n.conn = 0
    PROVE  Bare(Line(n))
<1>1. CASE Len(n.links) = 0
    BY <1>1 DEF Line, NoStream, FreshLink, Bare
<1>2. CASE Len(n.links) # 0
    <2>1. Line(n) = n.links[Len(n.links)] /\ Len(n.links) \in DOMAIN n.links
        BY <1>2, LineTypes
    <2>2. ~Line(n).open /\ Line(n).reader = "done"
        BY <1>2, <2>1 DEF Tidy
    <2> QED BY <2>1, <2>2 DEF Tidy, Bare
<1> QED BY <1>1, <1>2

LEMMA DroppedTidy ==
    ASSUME NEW n, Sound(n), Tidy(n)
    PROVE  Quieter(n, Dropped(n)) /\ Bare(Line(Dropped(n)))
<1> DEFINE left == IF n.conn = 0 THEN n.links ELSE [n.links EXCEPT ![n.conn] = Closed(@)]
           ls == Append(left, NoStream)
<1>1. /\ n.links \in Seq(Link) /\ Len(n.links) \in Nat /\ DOMAIN n.links = 1..Len(n.links)
      /\ \A c \in DOMAIN n.links : n.links[c] \in Link
      /\ n.conn # 0 => n.conn \in DOMAIN n.links
    BY LineTypes
<1>2. /\ left \in Seq(Link) /\ Len(left) = Len(n.links)
      /\ \A c \in 1..Len(n.links) : left[c] = IF c = n.conn THEN Closed(n.links[c]) ELSE n.links[c]
    <2>1. CASE n.conn = 0
        BY <2>1, <1>1
    <2>2. CASE n.conn # 0
        <3>1. Closed(n.links[n.conn]) \in Link
            BY <1>1, <2>2, LinkTypes
        <3> QED BY <2>2, <3>1, <1>1, ExceptSeq
    <2> QED BY <2>1, <2>2
<1> HIDE DEF left
<1>3. /\ Len(ls) = Len(n.links) + 1 /\ ls[Len(ls)] = NoStream /\ DOMAIN ls = 1..Len(ls)
      /\ \A c \in 1..Len(n.links) : ls[c] = IF c = n.conn THEN Closed(n.links[c]) ELSE n.links[c]
      /\ \A c \in 1..Len(ls) : c \in 1..Len(n.links) \/ c = Len(ls)
    BY <1>1, <1>2, LinkTypes, Appends, LenProperties
<1>4. Dropped(n).links = ls /\ Dropped(n).conn = 0
    BY DEF Dropped, left, Sound, Net
<1> HIDE DEF ls
<1>5. NoStream.up = <<>> /\ NoStream.down = <<>> /\ ~NoStream.open /\ NoStream.reader = "done"
    BY DEF NoStream, FreshLink
<1>6. Line(Dropped(n)) = NoStream
    BY <1>1, <1>3, <1>4 DEF Line
<1>7. \A l \in Link : /\ Closed(l).up = <<>> /\ Closed(l).down = l.down /\ ~Closed(l).open
                      /\ Closed(l).reader = l.reader
    BY DEF Closed, Link
<1>8. ASSUME NEW c \in 1..Len(ls)
      PROVE  /\ ls[c].up = <<>> /\ ~ls[c].open
             /\ ls[c].reader # "reading" => ls[c].down = <<>>
             /\ \A o : Coming(ls[c], o) => Comes(n, o)
    <2>1. CASE c \in 1..Len(n.links)
        <3>1. \/ c = n.conn /\ ls[c] = Closed(n.links[c])
              \/ c # n.conn /\ ls[c] = n.links[c]
            BY <1>3, <2>1
        <3>2. /\ ls[c].up = <<>> /\ ~ls[c].open /\ ls[c].down = n.links[c].down
              /\ ls[c].reader = n.links[c].reader
            BY <1>1, <1>7, <2>1, <3>1 DEF Tidy
        <3>3. \A o : Coming(ls[c], o) => Coming(n.links[c], o)
            BY <3>2, EmptySeq DEF Coming
        <3> QED BY <1>1, <2>1, <3>2, <3>3 DEF Tidy, Comes
    <2>2. CASE c = Len(ls)
        BY <1>3, <1>5, <2>2, BareComing DEF Bare
    <2> QED BY <1>3, <2>1, <2>2
<1>9. Tidy(Dropped(n))
    BY <1>3, <1>4, <1>5, <1>6, <1>8 DEF Tidy
<1>10. \A o : Comes(Dropped(n), o) => Comes(n, o)
    BY <1>3, <1>4, <1>8 DEF Comes
<1> QED BY <1>5, <1>6, <1>9, <1>10 DEF Quieter, Bare

LEMMA ConnectedTidy ==
    ASSUME NEW n, Sound(n), Tidy(n), n.conn = 0
    PROVE  Quieter(n, Connected(n)) /\ Bare(Line(Connected(n)))
<1> DEFINE ls == Append(n.links, FreshLink)
<1>1. /\ n.links \in Seq(Link) /\ Len(n.links) \in Nat /\ DOMAIN n.links = 1..Len(n.links)
    BY LineTypes
<1>2. /\ Len(ls) = Len(n.links) + 1 /\ ls[Len(ls)] = FreshLink /\ DOMAIN ls = 1..Len(ls)
      /\ \A c \in 1..Len(n.links) : ls[c] = n.links[c]
      /\ \A c \in 1..Len(ls) : c \in 1..Len(n.links) \/ c = Len(ls)
    BY <1>1, LinkTypes, Appends, LenProperties
<1>3. Connected(n).links = ls /\ Connected(n).conn = Len(ls)
    BY <1>2 DEF Connected, Epoch, Sound, Net
<1> HIDE DEF ls
<1>4. FreshLink.up = <<>> /\ FreshLink.down = <<>> /\ FreshLink.open /\ FreshLink.reader = "reading"
    BY DEF FreshLink
<1>5. Line(Connected(n)) = FreshLink
    BY <1>1, <1>2, <1>3 DEF Line
<1>6. \A c \in 1..Len(n.links) : ~n.links[c].open
    BY <1>1 DEF Tidy
<1>7. Tidy(Connected(n))
    BY <1>1, <1>2, <1>3, <1>4, <1>6 DEF Tidy
<1>8. \A o : Comes(Connected(n), o) => Comes(n, o)
    BY <1>1, <1>2, <1>3, <1>4, BareComing DEF Comes, Bare
<1> QED BY <1>4, <1>5, <1>7, <1>8 DEF Quieter, Bare

\* A change of the mark or of the fault count.
LEMMA SameStreams ==
    ASSUME NEW n, NEW m, Tidy(n), m.links = n.links, m.conn = n.conn
    PROVE  Quieter(n, m) /\ Line(m) = Line(n)
BY DEF Quieter, Tidy, Line, Comes

LEMMA QuieterTwice ==
    ASSUME NEW n, NEW m, NEW p, Quieter(n, m), Quieter(m, p)
    PROVE  Quieter(n, p)
BY DEF Quieter, Bare

LEMMA EnsureTidy ==
    ASSUME NEW n, Sound(n), Tidy(n), desired \in Models, NEW a \in EnsureConnected(n)
    PROVE  Quieter(n, a.net) /\ (~a.ok => Bare(Line(a.net)))
<1> DEFINE unmarked == [n EXCEPT !.mark = 0]
           swept == IF n.conn = 0 THEN n
                    ELSE IF DeathMarked(n) THEN Dropped(unmarked) ELSE unmarked
           given == [swept EXCEPT !.faults = @ + 1]
<1>1. Sound(unmarked) /\ unmarked.conn = n.conn /\ unmarked.links = n.links
    BY MarkTaken DEF Sound, Net
<1>2. Quieter(n, unmarked)
    BY <1>1, SameStreams
<1>3. Quieter(n, n)
    BY SameStreams
<1> HIDE DEF unmarked
<1>4. Sound(swept) /\ Quieter(n, swept)
    <2>1. Sound(Dropped(unmarked)) /\ Quieter(unmarked, Dropped(unmarked))
        BY <1>1, <1>2, DroppedSound, DroppedTidy DEF Quieter
    <2> QED BY <1>1, <1>2, <1>3, <2>1, QuieterTwice
<1>5. \/ a = [net |-> swept, ok |-> TRUE]
      \/ a = [net |-> Connected(swept), ok |-> TRUE] /\ swept.conn = 0
      \/ a = [net |-> given, ok |-> FALSE] /\ swept.conn = 0
    BY DEF EnsureConnected, unmarked
<1> HIDE DEF swept
<1>6. Tidy(swept)
    BY <1>4 DEF Quieter
<1>7. swept.conn = 0 => Quieter(n, Connected(swept))
    BY <1>4, <1>6, ConnectedTidy, QuieterTwice
<1>8. swept.conn = 0 => Quieter(n, given) /\ Bare(Line(given))
    <2>1. given.links = swept.links /\ given.conn = swept.conn
        BY <1>4 DEF Sound, Net
    <2> HIDE DEF given
    <2> QED BY <1>4, <1>6, <2>1, SameStreams, NoConnBare, QuieterTwice
<1> QED BY <1>4, <1>5, <1>7, <1>8

LEMMA WrittenTidy ==
    ASSUME NEW n, Sound(n), Tidy(n), n.conn # 0, NEW f \in ClientFrame
    PROVE  LET w == Written(n, f)
           IN  /\ w.ok => Wrote(n, w.net, f)
               /\ ~w.ok => Quieter(n, w.net) /\ Bare(Line(w.net))
<1> DEFINE old == n.links[n.conn]
           l == [old EXCEPT !.up = Append(@, f)]
           ls == [n.links EXCEPT ![n.conn] = l]
           m == [n EXCEPT !.links = ls]
<1>1. /\ n.links \in Seq(Link) /\ Len(n.links) \in Nat /\ DOMAIN n.links = 1..Len(n.links)
      /\ n.conn = Len(n.links) /\ n.conn \in DOMAIN n.links /\ Line(n) = old /\ old \in Link
    BY LineTypes
<1>2. CASE ~old.open
    BY <1>2, DroppedTidy DEF Written
<1>3. CASE old.open
    <2>1. Written(n, f) = [net |-> m, ok |-> TRUE]
        BY <1>3 DEF Written
    <2>2. old.up \in Seq(ClientFrame)
        BY <1>1 DEF Link
    <2>3. /\ l.up = Append(old.up, f) /\ l.down = old.down /\ l.open = old.open /\ l.reader = old.reader
        BY <1>1 DEF Link
    <2> HIDE DEF l
    <2>4. /\ DOMAIN ls = 1..Len(n.links) /\ ls[n.conn] = l /\ Len(ls) = Len(n.links)
          /\ \A c \in 1..Len(n.links) : c # n.conn => ls[c] = n.links[c]
        BY <1>1, LenProperties
    <2> HIDE DEF ls
    <2>5. m.links = ls /\ m.conn = n.conn
        BY DEF Sound, Net
    <2> HIDE DEF m
    <2>6. Line(m) = l
        BY <1>1, <2>4, <2>5 DEF Line
    <2>7. Tidy(m)
        BY <1>1, <1>3, <2>3, <2>4, <2>5 DEF Tidy
    <2>8. \A o : Coming(l, o) => Coming(old, o) \/ (f.cmd = "Flush" /\ o = f.of)
        <3>1. \A i \in 1..Len(l.up) : (i \in 1..Len(old.up) /\ l.up[i] = old.up[i]) \/ l.up[i] = f
            BY <2>2, <2>3, Appends
        <3> QED BY <2>3, <3>1 DEF Coming
    <2>9. \A o : Comes(m, o) => Comes(n, o) \/ (f.cmd = "Flush" /\ o = f.of)
        BY <1>1, <2>4, <2>5, <2>8 DEF Comes
    <2> HIDE DEF old
    <2>10. Wrote(n, m, f)
        BY <1>1, <2>3, <2>6, <2>7, <2>9 DEF Wrote
    <2> QED BY <2>1, <2>10
<1> QED BY <1>2, <1>3

LEMMA SendTidy ==
    ASSUME NEW n, Sound(n), Tidy(n), desired \in Models, NEW f \in ClientFrame,
           NEW s \in Send(n, f)
    PROVE  /\ s.ok => Wrote(n, s.net, f)
           /\ ~s.ok => Quieter(n, s.net) /\ Bare(Line(s.net))
<1>1. PICK a \in EnsureConnected(n) : s = IF a.ok THEN Written(a.net, f) ELSE a
    BY DEF Send
<1>2. Sound(a.net) /\ a.ok \in BOOLEAN /\ (a.ok => a.net.conn # 0)
    BY EnsureConnectedSound
<1>3. Quieter(n, a.net) /\ (~a.ok => Bare(Line(a.net))) /\ Tidy(a.net)
    BY EnsureTidy DEF Quieter
<1>4. CASE ~a.ok
    BY <1>1, <1>3, <1>4
<1>5. CASE a.ok
    <2>1. /\ s.ok => Wrote(a.net, s.net, f)
          /\ ~s.ok => Quieter(a.net, s.net) /\ Bare(Line(s.net))
        BY <1>1, <1>2, <1>3, <1>5, WrittenTidy
    <2>2. Wrote(a.net, s.net, f) => Wrote(n, s.net, f)
        BY <1>3 DEF Wrote, Quieter, Bare
    <2> QED BY <1>3, <2>1, <2>2, QuieterTwice
<1> QED BY <1>2, <1>4, <1>5

LEMMA SendStartTidy ==
    ASSUME NEW n, Sound(n), Tidy(n), desired \in Models, NEW f \in ClientFrame,
           NEW s \in SendStart(n, f)
    PROVE  /\ s.ok => Wrote(n, s.net, f)
           /\ ~s.ok => Quieter(n, s.net) /\ Bare(Line(s.net))
<1>1. PICK t \in Send(n, f) : s \in IF t.ok THEN {t} ELSE Send(t.net, f)
    BY DEF SendStart
<1>2. CASE t.ok
    BY <1>1, <1>2, SendTidy
<1>3. CASE ~t.ok
    <2>1. Sound(t.net) /\ Quieter(n, t.net) /\ Bare(Line(t.net)) /\ Tidy(t.net)
        BY <1>3, SendSound, SendTidy DEF Quieter
    <2>2. /\ s.ok => Wrote(t.net, s.net, f)
          /\ ~s.ok => Quieter(t.net, s.net) /\ Bare(Line(s.net))
        BY <1>1, <1>3, <2>1, SendTidy
    <2>3. Wrote(t.net, s.net, f) => Wrote(n, s.net, f)
        BY <2>1 DEF Wrote, Quieter, Bare
    <2> QED BY <2>1, <2>2, <2>3, QuieterTwice
<1> QED BY <1>2, <1>3

\* The dictations' answers come in the order of the dictations: those the daemon
\* wrote, then those of the Flushes it has not handled.
Spoken(o) == o.type = "dictation"
InOrder(l) ==
    /\ \A i, j \in 1..Len(l.up) :
          i < j /\ l.up[i].cmd = "Flush" /\ l.up[j].cmd = "Flush"
                /\ Spoken(l.up[i].of) /\ Spoken(l.up[j].of) => l.up[i].of.id < l.up[j].of.id
    /\ \A i, j \in 1..Len(l.down) :
          i < j /\ l.down[i].msg # "Partial" /\ l.down[j].msg # "Partial"
                /\ Spoken(l.down[i].of) /\ Spoken(l.down[j].of) => l.down[i].of.id < l.down[j].of.id
    /\ \A i \in 1..Len(l.down), j \in 1..Len(l.up) :
          l.down[i].msg # "Partial" /\ l.up[j].cmd = "Flush"
                /\ Spoken(l.down[i].of) /\ Spoken(l.up[j].of) => l.down[i].of.id < l.up[j].of.id

\* From n to m no Flush is written and none is overtaken.
Calm(n, m) ==
    /\ Tidy(m)
    /\ \A o : Comes(m, o) => Comes(n, o)
    /\ \A o : Coming(Line(m), o) => Coming(Line(n), o)
    /\ InOrder(Line(n)) => InOrder(Line(m))

LEMMA SpokenOwner == \A o \in Owner : Spoken(o) => o.id \in Dictations /\ o = Dictation(o.id)
BY DEF Owner, Spoken, Dictation

LEMMA QuieterCalm ==
    ASSUME NEW n, NEW m, Quieter(n, m)
    PROVE  Calm(n, m)
<1>1. CASE Line(m).up = Line(n).up /\ Line(m).down = Line(n).down
    BY <1>1 DEF Quieter, Calm, Coming, InOrder
<1>2. CASE Bare(Line(m))
    <2>1. InOrder(Line(m))
        BY <1>2, EmptySeq DEF Bare, InOrder
    <2> QED BY <1>2, <2>1, BareComing DEF Quieter, Calm
<1> QED BY <1>1, <1>2 DEF Quieter

\* A frame written at the end of a stream.
LEMMA FrameWritten ==
    ASSUME NEW l, NEW k, l.up \in Seq(ClientFrame), l.down \in Seq(DaemonFrame),
           NEW f \in ClientFrame, k.up = Append(l.up, f), k.down = l.down
    PROVE  /\ \A o : Coming(k, o) => Coming(l, o) \/ (f.cmd = "Flush" /\ o = f.of)
           /\ /\ InOrder(l)
              /\ f.cmd = "Flush" /\ Spoken(f.of) =>
                    \A d \in Dictations : Coming(l, Dictation(d)) => d < f.of.id
              => InOrder(k)
<1> DEFINE u == l.up
           v == k.up
<1>1. \A i \in 1..Len(v) : \/ i \in 1..Len(u) /\ v[i] = u[i]
                           \/ i = Len(u) + 1 /\ v[i] = f
    BY Appends
<1>2. Len(u) \in Nat
    BY LenProperties
<1>a. /\ \A i \in 1..Len(u) : u[i] \in ClientFrame
      /\ \A i \in 1..Len(l.down) : l.down[i] \in DaemonFrame
    BY ElementOfSeq
<1>3. \A i \in 1..Len(u) : u[i].cmd = "Flush" => Coming(l, u[i].of) /\ u[i].of \in Owner
    BY <1>a DEF Coming, ClientFrame
<1>4. \A i \in 1..Len(l.down) : l.down[i].msg # "Partial" => Coming(l, l.down[i].of) /\ l.down[i].of \in Owner
    BY <1>a DEF Coming, DaemonFrame
<1> HIDE DEF v, u
<1>5. \A o : Coming(k, o) => Coming(l, o) \/ (f.cmd = "Flush" /\ o = f.of)
    BY <1>1 DEF Coming, v, u
<1>6. ASSUME InOrder(l),
             f.cmd = "Flush" /\ Spoken(f.of) =>
                    \A d \in Dictations : Coming(l, Dictation(d)) => d < f.of.id
      PROVE  InOrder(k)
    <2>1. ASSUME NEW i \in 1..Len(v), NEW j \in 1..Len(v), i < j,
                 v[i].cmd = "Flush", v[j].cmd = "Flush", Spoken(v[i].of), Spoken(v[j].of)
          PROVE  v[i].of.id < v[j].of.id
        <3>1. i \in 1..Len(u) /\ v[i] = u[i]
            BY <1>1, <1>2, <2>1
        <3>2. CASE j \in 1..Len(u) /\ v[j] = u[j]
            BY <1>6, <2>1, <3>1, <3>2 DEF InOrder, u
        <3>3. CASE v[j] = f
            <4>1. u[i].of \in Owner /\ Coming(l, u[i].of)
                BY <1>3, <2>1, <3>1
            <4>2. u[i].of.id \in Dictations /\ Coming(l, Dictation(u[i].of.id))
                BY <4>1, <2>1, <3>1, SpokenOwner
            <4> QED BY <1>6, <2>1, <3>1, <3>3, <4>2
        <3> QED BY <1>1, <3>2, <3>3
    <2>2. ASSUME NEW i \in 1..Len(l.down), NEW j \in 1..Len(v),
                 l.down[i].msg # "Partial", v[j].cmd = "Flush", Spoken(l.down[i].of), Spoken(v[j].of)
          PROVE  l.down[i].of.id < v[j].of.id
        <3>2. CASE j \in 1..Len(u) /\ v[j] = u[j]
            BY <1>6, <2>2, <3>2 DEF InOrder, u
        <3>3. CASE v[j] = f
            <4>1. l.down[i].of \in Owner /\ Coming(l, l.down[i].of)
                BY <1>4, <2>2
            <4>2. l.down[i].of.id \in Dictations /\ Coming(l, Dictation(l.down[i].of.id))
                BY <4>1, <2>2, SpokenOwner
            <4> QED BY <1>6, <2>2, <3>3, <4>2
        <3> QED BY <1>1, <3>2, <3>3
    <2> QED BY <1>6, <2>1, <2>2 DEF InOrder, v
<1> QED BY <1>5, <1>6

LEMMA BareInOrder == \A l : Bare(l) => InOrder(l)
BY EmptySeq DEF Bare, InOrder

\* A frame sent, on the newest stream or on a new one.
LEMMA WroteOrder ==
    ASSUME NEW n, Sound(n), NEW m, NEW f \in ClientFrame, Wrote(n, m, f)
    PROVE  /\ \A o : Coming(Line(m), o) => Coming(Line(n), o) \/ (f.cmd = "Flush" /\ o = f.of)
           /\ /\ InOrder(Line(n))
              /\ f.cmd = "Flush" /\ Spoken(f.of) =>
                    \A d \in Dictations : Coming(Line(n), Dictation(d)) => d < f.of.id
              => InOrder(Line(m))
<1>1. CASE Line(m).up = Append(Line(n).up, f) /\ Line(m).down = Line(n).down
    BY <1>1, LineTypes, FrameWritten
<1>2. CASE Line(m).up = Append(<<>>, f) /\ Line(m).down = <<>>
    <2>1. Bare(NoStream) /\ NoStream.up = <<>> /\ NoStream.down = <<>>
        BY DEF Bare, NoStream, FreshLink
    <2>2. \A o : ~Coming(NoStream, o)
        BY <2>1, BareComing
    <2>3. InOrder(NoStream)
        BY <2>1, BareInOrder
    <2>4. NoStream.up \in Seq(ClientFrame) /\ NoStream.down \in Seq(DaemonFrame)
        BY LinkTypes DEF Link
    <2> QED BY <1>2, <2>1, <2>2, <2>3, <2>4, FrameWritten
<1> QED BY <1>1, <1>2 DEF Wrote

LEMMA WroteCalm ==
    ASSUME NEW n, Sound(n), NEW m, NEW f \in ClientFrame, Wrote(n, m, f), f.cmd # "Flush"
    PROVE  Calm(n, m)
BY WroteOrder DEF Wrote, Calm

\* A send of a frame that is no Flush.
LEMMA SendCalm ==
    ASSUME NEW n, Sound(n), Tidy(n), desired \in Models, NEW f \in ClientFrame, f.cmd # "Flush",
           NEW s, s \in Send(n, f) \cup SendStart(n, f)
    PROVE  Calm(n, s.net) /\ (~s.ok => Bare(Line(s.net))) /\ s.ok \in BOOLEAN
<1>1. s.ok \in BOOLEAN
    BY SendSound, SendStartSound
<1>2. s.ok => Wrote(n, s.net, f)
    BY SendTidy, SendStartTidy
<1>3. ~s.ok => Quieter(n, s.net) /\ Bare(Line(s.net))
    BY SendTidy, SendStartTidy
<1> QED BY <1>1, <1>2, <1>3, WroteCalm, QuieterCalm

\* One stream replaced by a calmer one.
LEMMA LinkCalm ==
    ASSUME NEW n, Sound(n), Tidy(n), NEW c \in DOMAIN n.links, NEW l, NEW m,
           m.links = [n.links EXCEPT ![c] = l], m.conn = n.conn,
           ~l.open => l.up = <<>>, l.reader # "reading" => l.down = <<>>,
           l.open => n.links[c].open, n.links[c].reader = "done" => l.reader = "done",
           \A o : Coming(l, o) => Coming(n.links[c], o),
           InOrder(n.links[c]) => InOrder(l)
    PROVE  Calm(n, m)
<1>1. /\ n.links \in Seq(Link) /\ Len(n.links) \in Nat /\ DOMAIN n.links = 1..Len(n.links)
      /\ Len(n.links) # 0 /\ Line(n) = n.links[Len(n.links)] /\ Len(n.links) \in DOMAIN n.links
    <2>1. n.links \in Seq(Link) /\ Len(n.links) \in Nat /\ DOMAIN n.links = 1..Len(n.links)
        BY LineTypes
    <2> QED BY <2>1, LineTypes
<1>2. /\ DOMAIN m.links = 1..Len(n.links) /\ Len(m.links) = Len(n.links)
      /\ m.links[c] = l /\ \A j \in 1..Len(n.links) : j # c => m.links[j] = n.links[j]
    BY <1>1, LenProperties
<1>3. Line(m) = m.links[Len(n.links)]
    BY <1>1, <1>2 DEF Line
<1>4. Tidy(m)
    <2>1. \A j \in DOMAIN m.links :
             /\ ~m.links[j].open => m.links[j].up = <<>>
             /\ m.links[j].reader # "reading" => m.links[j].down = <<>>
             /\ j # m.conn => ~m.links[j].open
        BY <1>1, <1>2 DEF Tidy
    <2>2. m.conn = 0 => Line(m).reader = "done"
        BY <1>1, <1>2, <1>3 DEF Tidy
    <2> QED BY <2>1, <2>2 DEF Tidy
<1>5. \A o : Comes(m, o) => Comes(n, o)
    BY <1>1, <1>2 DEF Comes
<1>6. \A o : Coming(Line(m), o) => Coming(Line(n), o)
    BY <1>1, <1>2, <1>3
<1>7. InOrder(Line(n)) => InOrder(Line(m))
    BY <1>1, <1>2, <1>3
<1> QED BY <1>4, <1>5, <1>6, <1>7 DEF Calm

\* The first frame the daemon wrote is read.
LEMMA FrameRead ==
    ASSUME NEW l \in Link, l.down # <<>>, NEW k, k.up = l.up, k.down = Tail(l.down)
    PROVE  /\ \A o : Coming(k, o) => Coming(l, o)
           /\ InOrder(l) => InOrder(k)
           /\ InOrder(l) /\ Head(l.down).msg # "Partial" /\ Spoken(Head(l.down).of) =>
                \A d \in Dictations : Coming(k, Dictation(d)) => Head(l.down).of.id < d
           /\ Head(l.down).msg # "Partial" => Coming(l, Head(l.down).of)
<1> DEFINE u == l.down
           v == k.down
<1>1. /\ Len(u) \in Nat \ {0} /\ 1 \in 1..Len(u) /\ Head(u) = u[1]
      /\ \A i \in 1..Len(v) : i + 1 \in 1..Len(u) /\ v[i] = u[i + 1] /\ i \in Nat
    BY Tails DEF Link
<1> HIDE DEF v, u
<1>2. \A o : Coming(k, o) => Coming(l, o)
    BY <1>1 DEF Coming, v, u
<1>3. ASSUME InOrder(l) PROVE InOrder(k)
    <2>1. ASSUME NEW i \in 1..Len(v), NEW j \in 1..Len(v), i < j,
                 v[i].msg # "Partial", v[j].msg # "Partial", Spoken(v[i].of), Spoken(v[j].of)
          PROVE  v[i].of.id < v[j].of.id
        <3>1. v[i] = u[i + 1] /\ v[j] = u[j + 1] /\ i + 1 \in 1..Len(u) /\ j + 1 \in 1..Len(u)
              /\ i + 1 < j + 1
            BY <1>1, <2>1
        <3> QED BY <1>3, <2>1, <3>1 DEF InOrder, u
    <2>2. ASSUME NEW i \in 1..Len(v), NEW j \in 1..Len(l.up),
                 v[i].msg # "Partial", l.up[j].cmd = "Flush", Spoken(v[i].of), Spoken(l.up[j].of)
          PROVE  v[i].of.id < l.up[j].of.id
        BY <1>1, <1>3, <2>2 DEF InOrder, u
    <2> QED BY <1>3, <2>1, <2>2 DEF InOrder, v
<1>4. ASSUME InOrder(l), u[1].msg # "Partial", Spoken(u[1].of),
             NEW d \in Dictations, Coming(k, Dictation(d))
      PROVE  u[1].of.id < d
    <2>1. Spoken(Dictation(d)) /\ Dictation(d).id = d
        BY DEF Spoken, Dictation
    <2>2. CASE \E i \in 1..Len(l.up) : l.up[i].cmd = "Flush" /\ l.up[i].of = Dictation(d)
        BY <1>1, <1>4, <2>1, <2>2 DEF InOrder, u
    <2>3. CASE \E i \in 1..Len(v) : v[i].msg # "Partial" /\ v[i].of = Dictation(d)
        <3>1. PICK i \in 1..Len(v) : v[i].msg # "Partial" /\ v[i].of = Dictation(d)
            BY <2>3
        <3>2. v[i] = u[i + 1] /\ i + 1 \in 1..Len(u) /\ 1 < i + 1
            BY <1>1, <3>1
        <3> QED BY <1>1, <1>4, <2>1, <3>1, <3>2 DEF InOrder, u
    <2> QED BY <1>4, <2>2, <2>3 DEF Coming, v
<1> QED BY <1>1, <1>2, <1>3, <1>4 DEF Coming, u

\* The daemon takes the first frame written to it, and may answer it.
LEMMA FrameHandled ==
    ASSUME NEW l \in Link, l.up # <<>>, NEW k, k.up = Tail(l.up),
           \/ k.down = l.down
           \/ \E x \in DaemonFrame :
                 /\ k.down = Append(l.down, x)
                 /\ x.msg = "Partial" \/ (Head(l.up).cmd = "Flush" /\ x.of = Head(l.up).of)
    PROVE  /\ \A o : Coming(k, o) => Coming(l, o)
           /\ InOrder(l) => InOrder(k)
<1> DEFINE u == l.up
           v == k.up
           p == l.down
           q == k.down
<1>1. /\ Len(u) \in Nat \ {0} /\ 1 \in 1..Len(u) /\ Head(u) = u[1]
      /\ \A i \in 1..Len(v) : i + 1 \in 1..Len(u) /\ v[i] = u[i + 1] /\ i \in Nat
    BY Tails DEF Link
<1>2. \A j \in 1..Len(q) : \/ j \in 1..Len(p) /\ q[j] = p[j]
                           \/ j = Len(p) + 1 /\ q[j].msg = "Partial"
                           \/ j = Len(p) + 1 /\ u[1].cmd = "Flush" /\ q[j].of = u[1].of
    <2>1. CASE k.down = l.down
        BY <2>1
    <2>2. CASE \E x \in DaemonFrame :
                 /\ k.down = Append(l.down, x)
                 /\ x.msg = "Partial" \/ (Head(l.up).cmd = "Flush" /\ x.of = Head(l.up).of)
        <3>1. PICK x \in DaemonFrame :
                 /\ k.down = Append(l.down, x)
                 /\ x.msg = "Partial" \/ (Head(l.up).cmd = "Flush" /\ x.of = Head(l.up).of)
            BY <2>2
        <3>2. l.down \in Seq(DaemonFrame)
            BY DEF Link
        <3> QED BY <1>1, <3>1, <3>2, Appends
    <2> QED BY <2>1, <2>2
<1>3. Len(p) \in Nat
    BY LenProperties DEF Link
<1> HIDE DEF v, u, p, q
<1>4. \A o : Coming(k, o) => Coming(l, o)
    BY <1>1, <1>2 DEF Coming, v, u, p, q
<1>5. ASSUME InOrder(l) PROVE InOrder(k)
    <2>1. ASSUME NEW i \in 1..Len(v), NEW j \in 1..Len(v), i < j,
                 v[i].cmd = "Flush", v[j].cmd = "Flush", Spoken(v[i].of), Spoken(v[j].of)
          PROVE  v[i].of.id < v[j].of.id
        <3>1. v[i] = u[i + 1] /\ v[j] = u[j + 1] /\ i + 1 \in 1..Len(u) /\ j + 1 \in 1..Len(u)
              /\ i + 1 < j + 1
            BY <1>1, <2>1
        <3> QED BY <1>5, <2>1, <3>1 DEF InOrder, u
    <2>2. ASSUME NEW i \in 1..Len(q), NEW j \in 1..Len(q), i < j,
                 q[i].msg # "Partial", q[j].msg # "Partial", Spoken(q[i].of), Spoken(q[j].of)
          PROVE  q[i].of.id < q[j].of.id
        <3>1. i \in 1..Len(p) /\ q[i] = p[i]
            BY <1>2, <1>3, <2>2
        <3>2. CASE j \in 1..Len(p) /\ q[j] = p[j]
            BY <1>5, <2>2, <3>1, <3>2 DEF InOrder, p
        <3>3. CASE u[1].cmd = "Flush" /\ q[j].of = u[1].of
            BY <1>1, <1>5, <2>2, <3>1, <3>3 DEF InOrder, p, u
        <3> QED BY <1>2, <2>2, <3>2, <3>3
    <2>3. ASSUME NEW i \in 1..Len(q), NEW j \in 1..Len(v),
                 q[i].msg # "Partial", v[j].cmd = "Flush", Spoken(q[i].of), Spoken(v[j].of)
          PROVE  q[i].of.id < v[j].of.id
        <3>1. v[j] = u[j + 1] /\ j + 1 \in 1..Len(u) /\ 1 < j + 1
            BY <1>1, <2>3
        <3>2. CASE i \in 1..Len(p) /\ q[i] = p[i]
            BY <1>5, <2>3, <3>1, <3>2 DEF InOrder, p, u
        <3>3. CASE u[1].cmd = "Flush" /\ q[i].of = u[1].of
            BY <1>1, <1>5, <2>3, <3>1, <3>3 DEF InOrder, u
        <3> QED BY <1>2, <2>3, <3>2, <3>3
    <2> QED BY <1>5, <2>1, <2>2, <2>3 DEF InOrder, v, q
<1> QED BY <1>4, <1>5

\* What a step of the network is: a Flush is written, or nothing is overtaken.
LEMMA SwitchedCalm ==
    ASSUME NEW n, Sound(n), Tidy(n)
    PROVE  LET m == IF n.models = desired THEN n ELSE Dropped(n)
           IN  Sound(m) /\ Tidy(m) /\ Calm(n, m)
<1>1. Calm(n, n)
    BY SameStreams, QuieterCalm
<1>2. Sound(Dropped(n)) /\ Calm(n, Dropped(n)) /\ Tidy(Dropped(n))
    BY DroppedSound, DroppedTidy, QuieterCalm DEF Quieter
<1> QED BY <1>1, <1>2

LEMMA CalmTwice ==
    ASSUME NEW n, NEW m, NEW p, Calm(n, m), Calm(m, p)
    PROVE  Calm(n, p)
BY DEF Calm

LEMMA NetStill ==
    ASSUME NEW n, NEW m, Tidy(n), m.links = n.links, m.conn = n.conn
    PROVE  Calm(n, m)
BY SameStreams, QuieterCalm

LEMMA FaultCalm == ASSUME IInv, Tidy(net), Fault PROVE Calm(net, net')
<1>1. net'.links = net.links /\ net'.conn = net.conn
    BY DEF Fault, IInv, Sound, Net
<1> QED BY <1>1, NetStill

\* The frames sent.
LEMMA RerunFrames ==
    ASSUME IInv, tpc \in Drive
    PROVE  \A c \in {"Start", "Chunk", "Flush"}, k \in Nat :
              /\ Cmd(c, Rerun(run.id), k) \in ClientFrame
              /\ Cmd(c, Rerun(run.id), k).cmd = c /\ Cmd(c, Rerun(run.id), k).of = Rerun(run.id)
<1>1. run.id \in Reruns
    BY DEF IInv, TypeOK, ThreadOK
<1> QED BY <1>1 DEF Cmd, Rerun, ClientFrame, Owner

LEMMA CommandsCalm ==
    ASSUME IInv, Tidy(net), Commands
    PROVE  Calm(net, net') \/ (FlushWritten /\ Wrote(net, net', Head(inbox)))
<1>0. Sound(net) /\ desired \in Models /\ Calm(net, net)
    BY NetStill DEF IInv, TypeOK, SettingsOK
<1> USE <1>0
<1>1. CASE Boot
    BY <1>1, EnsureTidy, QuieterCalm DEF Boot
<1>2. CASE HandleStart
    <2> DEFINE n == IF net.models = desired THEN net ELSE Dropped(net)
    <2>1. PICK s \in SendStart(n, Head(inbox)) : net' = s.net
        BY <1>2 DEF HandleStart
    <2>2. Head(inbox) \in ClientFrame /\ Head(inbox).cmd = "Start"
        BY <1>2, TakeTypes DEF HandleStart
    <2>3. Sound(n) /\ Tidy(n) /\ Calm(net, n)
        BY SwitchedCalm
    <2> HIDE DEF n
    <2>4. Calm(n, s.net)
        BY <2>1, <2>2, <2>3, SendCalm
    <2> QED BY <2>1, <2>3, <2>4, CalmTwice
<1>3. CASE HandleChunk
    <2>1. CASE session = "failed"
        BY <1>3, <2>1 DEF HandleChunk
    <2>2. CASE session # "failed"
        <3>1. PICK s \in Send(net, Head(inbox)) : net' = s.net
            BY <1>3, <2>2 DEF HandleChunk
        <3>2. Head(inbox) \in ClientFrame /\ Head(inbox).cmd = "Chunk"
            BY <1>3, TakeTypes DEF HandleChunk
        <3> QED BY <3>1, <3>2, SendCalm
    <2> QED BY <2>1, <2>2
<1>4. CASE HandleCancel
    <2>1. CASE session = "failed"
        BY <1>4, <2>1 DEF HandleCancel
    <2>2. CASE session # "failed"
        <3>1. PICK s \in Send(net, Head(inbox)) : net' = s.net
            BY <1>4, <2>2 DEF HandleCancel
        <3>2. Head(inbox) \in ClientFrame /\ Head(inbox).cmd = "Cancel"
            BY <1>4, TakeTypes DEF HandleCancel
        <3> QED BY <3>1, <3>2, SendCalm
    <2> QED BY <2>1, <2>2
<1>5. CASE FlushFails
    <2> DEFINE o == Head(inbox).of
    <2>1. Head(inbox) \in ClientFrame /\ Head(inbox).cmd = "Flush" /\ o \in Owner
        BY <1>5, TakeTypes DEF FlushFails
    <2>2. Cmd("Cancel", o, 0) \in ClientFrame /\ Cmd("Cancel", o, 0).cmd = "Cancel"
        BY <2>1 DEF Cmd, ClientFrame
    <2>3. \/ UNCHANGED net
          \/ \E s \in Send(net, Cmd("Cancel", o, 0)) : net' = s.net
          \/ \E s \in Send(net, Head(inbox)) : ~s.ok /\ net' = s.net
        BY <1>5 DEF FlushFails
    <2> QED BY <2>1, <2>2, <2>3, SendCalm, SendTidy, QuieterCalm
<1>6. CASE FlushWritten
    <2>1. PICK s \in Send(net, Head(inbox)) : s.ok /\ net' = s.net
        BY <1>6 DEF FlushWritten
    <2>2. Head(inbox) \in ClientFrame
        BY <1>6, TakeTypes DEF FlushWritten
    <2> QED BY <1>6, <2>1, <2>2, SendTidy
<1>7. CASE BeginFlush
    BY <1>7 DEF BeginFlush
<1>8. CASE RefreshModels
    <2> DEFINE n == IF net.models = desired THEN net ELSE Dropped(net)
    <2>1. UNCHANGED net \/ \E a \in EnsureConnected(n) : net' = a.net
        BY <1>8 DEF RefreshModels
    <2>2. Sound(n) /\ Tidy(n) /\ Calm(net, n)
        BY SwitchedCalm
    <2> HIDE DEF n
    <2> QED BY <2>1, <2>2, EnsureTidy, QuieterCalm, CalmTwice
<1> QED BY <1>1, <1>2, <1>3, <1>4, <1>5, <1>6, <1>7, <1>8 DEF Commands

LEMMA DrivingCalm ==
    ASSUME IInv, Tidy(net), Driving
    PROVE  \/ Calm(net, net')
           \/ RerunFlush /\ tpc' = "rerunWait" /\ Wrote(net, net', Cmd("Flush", Rerun(run.id), 0))
<1>0. Sound(net) /\ desired \in Models /\ Calm(net, net)
    BY NetStill DEF IInv, TypeOK, SettingsOK
<1> USE <1>0 DEF Drive
<1>1. CASE RerunStart
    <2>1. PICK s \in Send(net, Cmd("Start", Rerun(run.id), 0)) : net' = s.net
        BY <1>1 DEF RerunStart
    <2>2. Cmd("Start", Rerun(run.id), 0) \in ClientFrame /\ Cmd("Start", Rerun(run.id), 0).cmd = "Start"
        BY <1>1, RerunFrames DEF RerunStart
    <2> QED BY <2>1, <2>2, SendCalm
<1>2. CASE RerunChunk
    <2> DEFINE f == Cmd("Chunk", Rerun(run.id), run.sent + 1)
    <2>1. PICK s \in Send(net, f) : net' = s.net
        BY <1>2 DEF RerunChunk
    <2>2. run.sent \in Nat
        BY BoundsAssumption DEF IInv, TypeOK, ThreadOK
    <2>3. f \in ClientFrame /\ f.cmd = "Chunk"
        BY <1>2, <2>2, RerunFrames DEF RerunChunk
    <2> QED BY <2>1, <2>3, SendCalm
<1>3. CASE RerunFlush
    <2> DEFINE f == Cmd("Flush", Rerun(run.id), 0)
    <2>1. PICK s \in Send(net, f) : net' = s.net /\ (s.ok => tpc' = "rerunWait")
        BY <1>3 DEF RerunFlush
    <2>2. f \in ClientFrame
        BY <1>3, RerunFrames DEF RerunFlush
    <2> QED BY <1>3, <2>1, <2>2, SendTidy, QuieterCalm
<1>4. CASE RefuseRerun \/ BeginRerun \/ RerunArm \/ RerunDrains \/ RerunAnswered \/ RerunAbandoned
    <2>1. UNCHANGED net
        BY <1>4 DEF RefuseRerun, BeginRerun, RerunArm, RerunDrains, RerunAnswered, RerunAbandoned
    <2> QED BY <2>1
<1> QED BY <1>1, <1>2, <1>3, <1>4 DEF Driving

LEMMA ReaderCalm ==
    ASSUME IInv, Tidy(net), NEW c \in DOMAIN net.links, Reader(c)
    PROVE  Calm(net, net')
<1> DEFINE old == net.links[c]
<1>0. Sound(net) /\ old \in Link /\ net \in Net
    BY LinkFacts DEF IInv, Sound
<1>1. CASE ReadPartial(c) \/ ReadAnswer(c)
    <2> DEFINE l == [old EXCEPT !.down = Tail(@)]
               m == [net EXCEPT !.links[c].down = Tail(@)]
    <2>1. old.reader = "reading" /\ old.down # <<>> /\ net' = m
        BY <1>1 DEF ReadPartial, ReadAnswer, ReaderAt
    <2>2. /\ l.up = old.up /\ l.down = Tail(old.down) /\ l.open = old.open /\ l.reader = old.reader
        BY <1>0 DEF Link
    <2>3. m.links = [net.links EXCEPT ![c] = l] /\ m.conn = net.conn
        BY <1>0 DEF Net
    <2> HIDE DEF l, m
    <2>4. (\A o : Coming(l, o) => Coming(old, o)) /\ (InOrder(old) => InOrder(l))
        BY <1>0, <2>1, <2>2, FrameRead
    <2>5. (~l.open => l.up = <<>>) /\ (l.reader # "reading" => l.down = <<>>)
        BY <2>1, <2>2 DEF Tidy
    <2>6. Calm(net, m)
        BY <1>0, <2>1, <2>2, <2>3, <2>4, <2>5, LinkCalm
    <2> QED BY <2>1, <2>6
<1>2. CASE ReadEnd(c)
    <2> DEFINE at == IF c = Epoch(net) THEN "marking" ELSE "checking"
               l == [old EXCEPT !.down = <<>>, !.reader = at]
               m == [net EXCEPT !.links[c].down = <<>>, !.links[c].reader = at]
    <2>1. old.reader = "reading" /\ net' = m
        BY <1>2 DEF ReadEnd, ReaderAt
    <2>2. /\ l.up = old.up /\ l.down = <<>> /\ l.open = old.open
        BY <1>0 DEF Link
    <2>3. m.links = [net.links EXCEPT ![c] = l] /\ m.conn = net.conn
        BY <1>0 DEF Net
    <2> HIDE DEF l, m
    <2>4. (\A o : Coming(l, o) => Coming(old, o)) /\ (InOrder(old) => InOrder(l))
        BY <2>2, EmptySeq DEF Coming, InOrder
    <2>5. /\ ~l.open => l.up = <<>>
          /\ l.reader # "reading" => l.down = <<>>
          /\ l.open => old.open
          /\ old.reader = "done" => l.reader = "done"
        BY <2>1, <2>2 DEF Tidy
    <2> HIDE DEF old
    <2>6. Calm(net, m)
        BY <1>0, <2>3, <2>4, <2>5, LinkCalm DEF old
    <2> QED BY <2>1, <2>6
<1>3. CASE MarkDead(c) \/ CheckEpoch(c) \/ FailOwed(c)
    <2>1. PICK at \in {"checking", "failing", "done"} :
             /\ old.reader \in {"marking", "checking", "failing"}
             /\ \/ net' = [net EXCEPT !.links[c].reader = at]
                \/ net' = [net EXCEPT !.mark = c + 1, !.links[c].reader = at]
        BY <1>3 DEF MarkDead, CheckEpoch, FailOwed, ReaderAt
    <2> DEFINE l == [old EXCEPT !.reader = at]
    <2>2. /\ l.up = old.up /\ l.down = old.down /\ l.open = old.open /\ l.reader = at
        BY <1>0 DEF Link
    <2>3. net'.links = [net.links EXCEPT ![c] = l] /\ net'.conn = net.conn
        BY <1>0, <2>1 DEF Net
    <2> HIDE DEF l
    <2>4. (\A o : Coming(l, o) => Coming(old, o)) /\ (InOrder(old) => InOrder(l))
        BY <2>2 DEF Coming, InOrder
    <2>5. (~l.open => l.up = <<>>) /\ l.down = <<>> /\ old.reader # "done"
        BY <2>1, <2>2 DEF Tidy
    <2> QED BY <1>0, <2>2, <2>3, <2>4, <2>5, LinkCalm
<1> QED BY <1>1, <1>2, <1>3 DEF Reader

LEMMA DaemonCalm ==
    ASSUME IInv, Tidy(net), NEW c \in DOMAIN net.links,
           DaemonHandles(c) \/ DaemonFails(c) \/ DaemonCloses(c)
    PROVE  Calm(net, net')
<1> DEFINE old == net.links[c]
           f == Head(old.up)
<1>0. Sound(net) /\ old \in Link /\ net \in Net /\ old.open /\ old.reader = "reading"
    BY LinkFacts DEF IInv, Sound, DaemonHandles, DaemonFails, DaemonCloses, Tidy
\* The daemon's end handles a frame, and maybe answers it.
<1>1. ASSUME NEW l, NEW m, m.links = [net.links EXCEPT ![c] = l], m.conn = net.conn,
             l.open = old.open, l.reader = old.reader, old.up # <<>>, l.up = Tail(old.up),
             \/ l.down = old.down
             \/ \E x \in DaemonFrame :
                   /\ l.down = Append(old.down, x)
                   /\ x.msg = "Partial" \/ (f.cmd = "Flush" /\ x.of = f.of)
      PROVE  Calm(net, m)
    <2>1. (\A o : Coming(l, o) => Coming(old, o)) /\ (InOrder(old) => InOrder(l))
        BY <1>0, <1>1, FrameHandled
    <2>2. /\ ~l.open => l.up = <<>>
          /\ l.reader # "reading" => l.down = <<>>
          /\ l.open => old.open
          /\ old.reader = "done" => l.reader = "done"
        BY <1>0, <1>1
    <2>3. m.links = [net.links EXCEPT ![c] = l] /\ m.conn = net.conn
        BY <1>1
    <2> QED BY <1>0, <2>1, <2>2, <2>3, LinkCalm
<1>2. old.up # <<>> => f \in ClientFrame
    BY <1>0, HeadTailProperties DEF Link
<1>3. CASE DaemonHandles(c)
    <2> DEFINE piece == <<[of |-> f.of, k |-> f.k]>>
               left == [old EXCEPT !.up = Tail(@)]
               next == CASE f.cmd = "Chunk" -> [left EXCEPT !.parts = @ \o piece,
                                                            !.down = Said(old, f, "Partial", piece)]
                         [] f.cmd = "Flush" -> [left EXCEPT !.parts = <<>>,
                                                            !.down = Said(old, f, "Final", old.parts)]
                         [] OTHER           -> [left EXCEPT !.parts = <<>>]
               m == [net EXCEPT !.links[c] = next]
    <2>1. old.up # <<>> /\ net' = m
        BY <1>3 DEF DaemonHandles
    <2>2. /\ [msg |-> "Partial", of |-> f.of, text |-> piece] \in DaemonFrame
          /\ [msg |-> "Final", of |-> f.of, text |-> old.parts] \in DaemonFrame
        <3>1. [of |-> f.of, k |-> f.k] \in Piece
            BY <1>2, <2>1 DEF ClientFrame, Piece
        <3>2. piece \in Text
            BY <3>1, SeqDef DEF Text
        <3> HIDE DEF piece
        <3> QED BY <1>0, <1>2, <2>1, <3>2 DEF DaemonFrame, ClientFrame, Link
    <2> HIDE DEF piece, f
    <2>3. /\ left.up = Tail(old.up) /\ left.down = old.down /\ left.open = old.open
          /\ left.reader = old.reader /\ left \in [up : {Tail(old.up)}, down : Seq(DaemonFrame),
             open : BOOLEAN, parts : Text, reader : {"reading", "marking", "checking", "failing", "done"}]
        BY <1>0 DEF Link
    <2> HIDE DEF left
    <2>4. next.open = old.open /\ next.reader = old.reader /\ next.up = Tail(old.up)
        <3>1. CASE f.cmd = "Chunk"
            BY <2>3, <3>1
        <3>2. CASE f.cmd = "Flush"
            BY <2>3, <3>2
        <3>3. CASE f.cmd # "Chunk" /\ f.cmd # "Flush"
            BY <2>3, <3>3
        <3> QED BY <3>1, <3>2, <3>3
    <2>5. \/ next.down = old.down
          \/ \E x \in DaemonFrame :
                /\ next.down = Append(old.down, x)
                /\ x.msg = "Partial" \/ (f.cmd = "Flush" /\ x.of = f.of)
        <3>1. CASE f.cmd = "Chunk"
            BY <2>2, <2>3, <3>1 DEF Said
        <3>2. CASE f.cmd = "Flush"
            BY <2>2, <2>3, <3>2 DEF Said
        <3>3. CASE f.cmd # "Chunk" /\ f.cmd # "Flush"
            BY <2>3, <3>3
        <3> QED BY <3>1, <3>2, <3>3
    <2> HIDE DEF next
    <2>6. m.links = [net.links EXCEPT ![c] = next] /\ m.conn = net.conn
        BY <1>0 DEF Net
    <2> HIDE DEF m
    <2> QED BY <1>1, <2>1, <2>4, <2>5, <2>6 DEF f
<1>4. CASE DaemonFails(c)
    <2> DEFINE x == [msg |-> "Error", of |-> f.of, text |-> <<>>]
               l == [old EXCEPT !.up = Tail(@), !.parts = <<>>, !.down = Append(old.down, x)]
    <2>1. /\ old.up # <<>> /\ f.cmd = "Flush"
          /\ net' = [net EXCEPT !.faults = @ + 1, !.links[c].up = Tail(@),
                                !.links[c].parts = <<>>,
                                !.links[c].down = Append(old.down, x)]
        BY <1>4 DEF DaemonFails, Said
    <2>2. x \in DaemonFrame /\ x.of = f.of
        BY <1>2, <2>1, EmptySeq DEF DaemonFrame, ClientFrame, Text
    <2> HIDE DEF x
    <2>3. net'.links = [net.links EXCEPT ![c] = l] /\ net'.conn = net.conn
        BY <1>0, <2>1 DEF Net
    <2>4. /\ l.up = Tail(old.up) /\ l.down = Append(old.down, x)
          /\ l.open = old.open /\ l.reader = old.reader
        BY <1>0 DEF Link
    <2> HIDE DEF l, f
    <2> QED BY <1>1, <2>1, <2>2, <2>3, <2>4 DEF f
<1>5. CASE DaemonCloses(c)
    <2> DEFINE l == Closed(old)
    <2>1. net'.links = [net.links EXCEPT ![c] = l] /\ net'.conn = net.conn
        BY <1>0, <1>5 DEF DaemonCloses, Net
    <2>2. ~l.open /\ l.up = <<>> /\ l.down = old.down /\ l.reader = old.reader
        BY <1>0 DEF Closed, Link
    <2> HIDE DEF l
    <2>3. (\A o : Coming(l, o) => Coming(old, o)) /\ (InOrder(old) => InOrder(l))
        BY <2>2, EmptySeq DEF Coming, InOrder
    <2> QED BY <1>0, <2>1, <2>2, <2>3, LinkCalm
<1> QED BY <1>3, <1>4, <1>5

LEMMA NetMoves ==
    ASSUME IInv, Tidy(net), [Next]_vars
    PROVE  \/ Calm(net, net')
           \/ FlushWritten /\ Wrote(net, net', Head(inbox))
           \/ RerunFlush /\ tpc' = "rerunWait" /\ Wrote(net, net', Cmd("Flush", Rerun(run.id), 0))
<1>1. UNCHANGED net => Calm(net, net')
    BY NetStill
<1>2. CASE Control
    BY <1>1, <1>2 DEF Control, Press, Speak, Release, CancelDictation, FinishReceives, FinishTimesOut
<1>3. CASE Settings
    BY <1>1, <1>3, FaultCalm DEF Settings, SwitchModels, RequestRerun
<1>4. CASE UNCHANGED vars
    BY <1>1, <1>4 DEF vars
<1> QED BY <1>2, <1>3, <1>4, CommandsCalm, DrivingCalm, ReaderCalm, DaemonCalm DEF Next

-----------------------------------------------------------------------------
(* What lost a chunk is never heard as text *)

\* Dictation d was started and its session is over.
Over(n, d) == d <= n /\ (d = n => ~InSession)

\* The session being handled ends without a text.
Blemished == dropped > 0 \/ session = "failed"

\* A result is of a session that is over, and no text if a chunk of it was lost.
Told(n, res) ==
    \A d \in Dictations : res.of = Dictation(d) =>
        Over(n, d) /\ (res.kind = "final" => d \notin seen.lost)

\* Behind the last dictation started, n: a dictation that lost a chunk is over,
\* or will end without a text; its answer comes on no stream and was not given.
Loss(n) ==
    /\ \A d \in seen.lost : d <= n /\ (d = n /\ InSession => Blemished)
    /\ \A d \in Dictations : Comes(net, Dictation(d)) => Over(n, d) /\ d \notin seen.lost
    /\ \A i \in 1..Len(results) : Told(n, results[i])
    /\ \A e \in Dictations : \A res \in heard[e] : Told(n, res)

LEMMA StartedSteps ==
    ASSUME IInv, Driven, [Next]_vars, NEW n, Queued(n), NEW n2, Started(n, n2)
    PROVE  /\ n \in Nat /\ n2 \in Nat /\ n <= n2
           /\ (inbox # <<>> /\ inbox' = Tail(inbox) /\ Head(inbox).cmd = "Start") <=> n2 # n
           /\ n2 = n /\ InSession' => InSession
<1>1. inbox \in Seq(Command) /\ cur \in Nat /\ n \in Nat
    BY QueuedTypes
<1>2. inbox # <<>> /\ Head(inbox).cmd = "Start" => Head(inbox).of.id \in n + 1..cur
    BY NextOfSession
<1>3. CASE Rests \/ (Feeds /\ InSession' = InSession)
    <2>1. inbox # <<>> => inbox' # Tail(inbox)
        <3>1. CASE Rests
            <4>1. inbox # <<>> => inbox # Tail(inbox)
                BY <1>1, Tails
            <4> QED BY <3>1, <4>1 DEF Rests
        <3>2. CASE Feeds /\ InSession' = InSession
            <4>1. PICK m \in Command : Feeding(m)
                BY <3>2, FeedsOne
            <4>2. Len(inbox') = Len(inbox) + 1 /\ Len(inbox) \in Nat
                BY <1>1, <4>1, Appends DEF Feeding
            <4> QED BY <1>1, <4>2, Tails
        <3> QED BY <1>3, <3>1, <3>2
    <2>2. n2 = n
        BY <2>1 DEF Started
    <2> QED BY <1>1, <1>3, <2>1, <2>2 DEF Rests
<1>4. CASE Takes
    <2>1. CASE Head(inbox).cmd = "Start"
        <3>1. n2 = Head(inbox).of.id /\ n2 \in n + 1..cur
            BY <1>2, <1>4, <2>1 DEF Takes, Started
        <3> QED BY <1>1, <1>4, <2>1, <3>1 DEF Takes
    <2>2. CASE Head(inbox).cmd # "Start"
        <3>1. n2 = n
            BY <2>2 DEF Started
        <3>2. Head(inbox).cmd \in {"Chunk", "Flush", "Cancel", "Reprocess"}
            BY <1>4, <2>2, NextOfSession, Ids DEF Takes
        <3>3. Head(inbox).cmd = "Flush" => InSession
            BY <1>4, NextOfSession DEF Takes
        <3> QED BY <1>1, <1>4, <2>2, <3>1, <3>2, <3>3 DEF Takes
    <2> QED BY <2>1, <2>2
<1> QED BY <1>3, <1>4, InboxMoves

LEMMA OverStays ==
    ASSUME IInv, Driven, [Next]_vars, NEW n, Queued(n), NEW n2, Started(n, n2),
           NEW d \in Nat, Over(n, d)
    PROVE  Over(n2, d)'
<1>1. /\ n \in Nat /\ n2 \in Nat /\ n <= n2 /\ (n2 = n /\ InSession' => InSession)
    BY StartedSteps
<1>2. d <= n /\ (d = n => ~InSession)
    BY DEF Over
<1>3. d <= n2 /\ (d = n2 => d = n /\ n2 = n)
    BY <1>1, <1>2
<1> QED BY <1>1, <1>2, <1>3 DEF Over

\* The Flush that ends the session being handled.
LEMMA FlushOfSession ==
    ASSUME IInv, NEW n, Queued(n), inbox # <<>>, Head(inbox).cmd \in {"Chunk", "Flush", "Cancel"}
    PROVE  InSession /\ Head(inbox).of = Dictation(n) /\ n \in Dictations
                     /\ Dictation(n) \in Owner /\ Head(inbox) \in Command
<1>1. InSession /\ Head(inbox).of.id = n /\ Head(inbox) \in Command
    BY NextOfSession
<1>2. Head(inbox).of = Dictation(Head(inbox).of.id) /\ Head(inbox).of.id \in Dictations
    BY <1>1 DEF Command, DictationCommand, RerunCommand, Dictation
<1> QED BY <1>1, <1>2 DEF Owner, Dictation

\* How a step loses a chunk, and that it does not forget one.
LEMMA LostMoves ==
    ASSUME QInv, [Next]_vars, NEW n, Queued(n), NEW n2, Started(n, n2)
    PROVE  /\ \/ seen'.lost = seen.lost
              \/ /\ seen'.lost = seen.lost \cup {n}
                 /\ InSession /\ n2 = n /\ Blemished'
           /\ InSession /\ InSession' /\ n2 = n /\ Blemished => Blemished'
<1> DEFINE Lost1 == \/ seen'.lost = seen.lost
                    \/ /\ seen'.lost = seen.lost \cup {n}
                       /\ InSession /\ n2 = n /\ Blemished'
           Kept == InSession /\ InSession' /\ n2 = n /\ Blemished => Blemished'
<1>0. /\ IInv /\ Driven /\ dropped \in Nat
      /\ SeenOK
      /\ (inbox # <<>> /\ inbox' = Tail(inbox) /\ Head(inbox).cmd = "Start") <=> n2 # n
    BY StartedSteps DEF QInv, IInv, TypeOK, ThreadOK
<1>1. ASSUME UNCHANGED <<session, dropped>>, seen'.lost = seen.lost PROVE Lost1 /\ Kept
    BY <1>1 DEF Blemished
<1>2. CASE Control \/ Settings
    BY <1>1, <1>2 DEF Control, Settings, Press, Speak, Release, CancelDictation, FinishReceives,
        FinishTimesOut, SwitchModels, RequestRerun, thread
<1>3. CASE Commands
    <2>1. CASE Boot \/ RefreshModels
        BY <1>1, <2>1 DEF Boot, RefreshModels
    <2>5. CASE FlushWritten
        BY <1>0, <1>1, <2>5, CarriedKeeps DEF FlushWritten
    <2>2. CASE HandleStart
        BY <1>0, <2>2 DEF HandleStart, Take
    <2>3. CASE HandleChunk
        <3>1. InSession /\ Head(inbox).of.id = n /\ n2 = n /\ session' = session
            BY <1>0, <2>3, NextOfSession DEF HandleChunk, Take
        <3>2. \/ UNCHANGED dropped /\ Carried(Head(inbox))
              \/ dropped' = dropped + 1 /\ seen' = [seen EXCEPT !.lost = @ \cup {n}]
            BY <2>3, <3>1 DEF HandleChunk, LoseChunk
        <3>3. CASE UNCHANGED dropped /\ Carried(Head(inbox))
            BY <1>0, <1>1, <3>1, <3>3, CarriedKeeps
        <3>4. CASE dropped' = dropped + 1 /\ seen' = [seen EXCEPT !.lost = @ \cup {n}]
            BY <1>0, <3>1, <3>4 DEF Blemished, SeenOK
        <3> QED BY <3>2, <3>3, <3>4
    <2>4. CASE HandleCancel \/ FlushFails \/ BeginFlush
        BY <2>4 DEF HandleCancel, FlushFails, BeginFlush, InSession
    <2> QED BY <1>3, <2>1, <2>2, <2>3, <2>4, <2>5 DEF Commands
<1>4. CASE Driving
    <2>1. CASE RefuseRerun \/ RerunArm
        BY <1>1, <2>1 DEF RefuseRerun, RerunArm
    <2>2. CASE BeginRerun
        BY <2>2 DEF BeginRerun, InSession
    <2>3. CASE RerunDrains
        <3>1. session # "active" /\ inbox # <<>>
            BY <1>0, <2>3 DEF RerunDrains, Driven, Drive
        <3>2. CASE Head(inbox).cmd = "Start"
            BY <1>0, <2>3, <3>2 DEF RerunDrains
        <3>3. CASE Head(inbox).cmd = "Flush"
            <4>1. InSession
                BY <1>0, <3>1, <3>3, NextOfSession
            <4>2. session = "failed"
                BY <3>1, <4>1 DEF InSession
            <4>3. session' = "idle" /\ UNCHANGED seen
                BY <2>3, <3>3, <4>2 DEF RerunDrains
            <4> QED BY <4>3 DEF InSession
        <3>4. CASE Head(inbox).cmd = "Cancel"
            BY <2>3, <3>4 DEF RerunDrains, InSession
        <3>5. CASE Head(inbox).cmd = "Reprocess"
            BY <1>1, <2>3, <3>5 DEF RerunDrains
        <3>6. CASE Head(inbox).cmd = "Chunk"
            <4>1. InSession /\ Head(inbox).of.id = n /\ n2 = n
                BY <1>0, <3>1, <3>6, NextOfSession
            <4>2. session' = session /\ session = "failed"
                BY <2>3, <3>1, <3>6, <4>1 DEF RerunDrains, InSession
            <4>3. seen' = [seen EXCEPT !.lost = @ \cup {n}]
                BY <2>3, <3>6, <4>1 DEF RerunDrains
            <4> QED BY <1>0, <4>1, <4>2, <4>3 DEF Blemished, SeenOK
        <3> QED BY <1>0, <2>3, <3>1, <3>2, <3>3, <3>4, <3>5, <3>6, NextOfSession, Ids
    <2>4. CASE RerunStart \/ RerunChunk \/ RerunFlush \/ RerunAnswered \/ RerunAbandoned
        <3>1. session # "active" /\ UNCHANGED dropped
            BY <1>0, <2>4 DEF RerunStart, RerunChunk, RerunFlush, RerunAnswered, RerunAbandoned,
                Driven, Drive
        <3>2. \/ UNCHANGED <<session, seen>>
              \/ /\ session' = IF session = "reprocessing" THEN "idle" ELSE session
                 /\ seen' = [seen EXCEPT !.abandoned = @ \/ AnswerComing(Rerun(run.id))]
            BY <2>4 DEF RerunStart, RerunChunk, RerunFlush, RerunAnswered, RerunAbandoned,
                GiveUp, EndRerun
        <3>3. seen'.lost = seen.lost
            BY <1>0, <3>2 DEF SeenOK
        <3> QED BY <3>1, <3>2, <3>3 DEF Blemished, InSession
    <2> QED BY <1>4, <2>1, <2>2, <2>3, <2>4 DEF Driving
<1>5. ASSUME NEW c, Reader(c) PROVE Lost1 /\ Kept
    <2>1. UNCHANGED <<session, dropped>>
        BY <1>5 DEF Reader, ReadPartial, ReadAnswer, ReadEnd, MarkDead, CheckEpoch, FailOwed, thread
    <2>2. UNCHANGED seen \/ seen' = [seen EXCEPT !.superseded = @ \/ c # Epoch(net)]
        BY <1>5 DEF Reader, ReadPartial, ReadAnswer, ReadEnd, MarkDead, CheckEpoch, FailOwed
    <2>3. seen'.lost = seen.lost
        BY <1>0, <2>2 DEF SeenOK
    <2> QED BY <1>1, <2>1, <2>3
<1>6. ASSUME NEW c, DaemonHandles(c) \/ DaemonFails(c) \/ DaemonCloses(c) PROVE Lost1 /\ Kept
    BY <1>1, <1>6 DEF DaemonHandles, DaemonFails, DaemonCloses, thread
<1>7. CASE UNCHANGED vars
    BY <1>1, <1>7 DEF vars, thread
<1> QED BY <1>2, <1>3, <1>4, <1>5, <1>6, <1>7 DEF Next

\* The Flush of the session being handled is failed without being sent.
Fails(n) ==
    /\ FlushFails \/ RerunDrains
    /\ inbox # <<>> /\ inbox' = Tail(inbox)
    /\ Head(inbox).cmd = "Flush" /\ Head(inbox).of = Dictation(n)
    /\ results' = Append(results, Failed(Dictation(n)))
    /\ InSession /\ ~InSession' /\ tpc # "flushed" /\ tpc' # "flushed"
    /\ UNCHANGED <<control, ledger>>

\* How results come and go.
LEMMA ResultMoves ==
    ASSUME QInv, [Next]_vars, NEW n, Queued(n)
    PROVE  \/ UNCHANGED <<results, heard>>
           \/ FinishReceives
           \/ Fails(n)
           \/ \E c \in DOMAIN net.links : ReadAnswer(c) \/ FailOwed(c)
<1>0. IInv /\ Driven
    BY DEF QInv
<1>1. CASE Control
    BY <1>1 DEF Control, Press, Speak, Release, CancelDictation, FinishTimesOut
<1>2. CASE Settings
    BY <1>2 DEF Settings, SwitchModels, RequestRerun, control
<1>3. CASE Commands
    <2>1. CASE FlushFails
        <3>1. /\ inbox # <<>> /\ inbox' = Tail(inbox) /\ Head(inbox).cmd = "Flush"
              /\ results' = Append(results, Failed(Head(inbox).of))
              /\ session' = "idle" /\ UNCHANGED <<control, ledger>>
              /\ tpc # "flushed" /\ tpc' # "flushed"
            BY <2>1, AfterTypes DEF FlushFails, Take, FailDictation
        <3> QED BY <1>0, <2>1, <3>1, FlushOfSession DEF Fails, InSession
    <2>2. CASE ~FlushFails
        BY <1>3, <2>2 DEF Commands, Boot, HandleStart, HandleChunk, HandleCancel, FlushWritten,
            BeginFlush, RefreshModels, control
    <2> QED BY <2>1, <2>2
<1>4. CASE Driving
    <2>1. CASE RerunDrains
        <3>1. CASE Head(inbox).cmd = "Flush"
            <4>1. FailDictation(Head(inbox).of)
                BY <2>1, <3>1, DrainedFlush
            <4>2. /\ inbox # <<>> /\ inbox' = Tail(inbox) /\ UNCHANGED <<control, ledger>>
                  /\ tpc # "flushed" /\ tpc' # "flushed" /\ session # "active"
                BY <1>0, <2>1 DEF RerunDrains, Driven, Drive
            <4>3. InSession /\ Head(inbox).of = Dictation(n)
                BY <1>0, <3>1, <4>2, FlushOfSession
            <4>4. session = "failed"
                BY <4>2, <4>3 DEF InSession
            <4>5. session' = "idle"
                BY <2>1, <3>1, <4>4 DEF RerunDrains
            <4> QED BY <2>1, <3>1, <4>1, <4>2, <4>3, <4>5 DEF Fails, FailDictation, InSession
        <3>2. CASE Head(inbox).cmd # "Flush"
            BY <2>1, <3>2 DEF RerunDrains, control
        <3> QED BY <3>1, <3>2
    <2>2. CASE ~RerunDrains
        BY <1>4, <2>2 DEF Driving, RefuseRerun, BeginRerun, RerunStart, RerunChunk, RerunArm, RerunFlush,
            RerunAnswered, RerunAbandoned, control
    <2> QED BY <2>1, <2>2
<1>5. ASSUME NEW c \in DOMAIN net.links, Reader(c)
      PROVE  UNCHANGED <<results, heard>> \/ ReadAnswer(c) \/ FailOwed(c)
    BY <1>5 DEF Reader, ReadPartial, ReadEnd, MarkDead, CheckEpoch, control
<1>6. ASSUME NEW c, DaemonHandles(c) \/ DaemonFails(c) \/ DaemonCloses(c)
      PROVE  UNCHANGED <<results, heard>>
    BY <1>6 DEF DaemonHandles, DaemonFails, DaemonCloses, control
<1>7. CASE UNCHANGED vars
    BY <1>7 DEF vars, control
<1> QED BY <1>1, <1>2, <1>3, <1>4, <1>5, <1>6, <1>7 DEF Next

\* An answer read was coming on that stream.
LEMMA AnswerCame ==
    ASSUME IInv, NEW c \in DOMAIN net.links, ReadAnswer(c)
    PROVE  \E res \in Result :
              /\ Deliver(res) /\ Coming(net.links[c], res.of) /\ Comes(net, res.of)
              /\ res.of = Head(net.links[c].down).of
<1>1. PICK res \in Result : Deliver(res) /\ res.of = Head(net.links[c].down).of
    BY AnswerTypes
<1>2. net.links[c] \in Link /\ net.links[c].down # <<>> /\ Head(net.links[c].down).msg # "Partial"
    BY LinkFacts DEF ReadAnswer
<1>3. Coming(net.links[c], res.of)
    <2>1. net.links[c].down \in Seq(DaemonFrame)
        BY <1>2 DEF Link
    <2>2. 1 \in 1..Len(net.links[c].down) /\ net.links[c].down[1] = Head(net.links[c].down)
        BY <1>2, <2>1, Tails
    <2> QED BY <1>1, <1>2, <2>2 DEF Coming
<1> QED BY <1>1, <1>3 DEF Comes

LEMMA LossHolds ==
    ASSUME QInv, Tidy(net), [Next]_vars, NEW n, Queued(n), NEW n2, Started(n, n2), Loss(n)
    PROVE  Loss(n2)'
<1>0. /\ IInv /\ Driven /\ n \in Nat /\ n2 \in Nat /\ n <= n2
      /\ (n2 = n /\ InSession' => InSession)
      /\ seen.lost \subseteq Dictations /\ Dictations \subseteq Nat
      /\ heard \in [Dictations -> SUBSET Result] /\ results \in Seq(Result) /\ cur \in Nat
    BY StartedSteps, QueuedTypes DEF QInv, IInv, TypeOK, SeenOK, ControlOK, ChannelsOK, Dictations
<1>1. \/ seen'.lost = seen.lost
      \/ seen'.lost = seen.lost \cup {n} /\ InSession /\ n2 = n /\ Blemished'
    BY LostMoves
<1>2. InSession /\ InSession' /\ n2 = n /\ Blemished => Blemished'
    BY LostMoves
<1>3. \A d \in Dictations : Over(n, d) => Over(n2, d)'
    BY <1>0, OverStays
\* A dictation that is over loses nothing any more.
<1>4. \A d \in Dictations : Over(n, d) /\ d \notin seen.lost => d \notin seen'.lost
    BY <1>1 DEF Over
<1>5. ASSUME NEW res, Told(n, res) PROVE Told(n2, res)'
    <2>1. ASSUME NEW d \in Dictations, res.of = Dictation(d)
          PROVE  Over(n2, d)' /\ (res.kind = "final" => d \notin seen'.lost)
        BY <1>3, <1>4, <1>5, <2>1 DEF Told
    <2> QED BY <2>1 DEF Told
<1>6. \A d \in seen'.lost : d <= n2 /\ (d = n2 /\ InSession' => Blemished')
    <2>1. ASSUME NEW d \in seen.lost PROVE d <= n2 /\ (d = n2 /\ InSession' => Blemished')
        <3>1. d \in Nat /\ d <= n /\ (d = n /\ InSession => Blemished)
            BY <1>0 DEF Loss
        <3>2. d = n2 => d = n /\ n2 = n
            BY <1>0, <3>1
        <3> QED BY <1>0, <1>2, <3>1, <3>2
    <2> QED BY <1>0, <1>1, <2>1
<1>7. ASSUME NEW d \in Dictations, Comes(net', Dictation(d))
      PROVE  Over(n2, d)' /\ d \notin seen'.lost
    <2>1. CASE Comes(net, Dictation(d))
        BY <1>3, <1>4, <2>1 DEF Loss
    <2>2. CASE FlushWritten /\ Dictation(d) = Head(inbox).of
        <3>1. /\ inbox # <<>> /\ Head(inbox).cmd = "Flush" /\ tpc' = "flushed"
              /\ session # "failed" /\ ~(dropped > 0) /\ Carried(Head(inbox))
            BY <1>0, <2>2 DEF FlushWritten, Take
        <3>5. seen'.lost = seen.lost
            BY <1>0, <3>1, CarriedKeeps DEF IInv, TypeOK
        <3>2. InSession /\ Head(inbox).of = Dictation(n)
            BY <1>0, <3>1, FlushOfSession
        <3>3. d = n /\ ~Blemished /\ ~InSession'
            BY <2>2, <3>1, <3>2 DEF Dictation, Blemished, InSession
        <3>4. d \notin seen.lost
            BY <3>2, <3>3 DEF Loss
        <3> QED BY <1>0, <3>1, <3>3, <3>4, <3>5 DEF Over
    <2>3. ~(Dictation(d) = Rerun(run.id))
        BY DEF Dictation, Rerun
    <2>4. Cmd("Flush", Rerun(run.id), 0).of = Rerun(run.id)
        BY DEF Cmd
    <2>5. \/ Comes(net, Dictation(d))
          \/ FlushWritten /\ Dictation(d) = Head(inbox).of
        BY <1>0, <1>7, <2>3, <2>4, NetMoves DEF Calm, Wrote
    <2> QED BY <2>1, <2>2, <2>5
<1>a. PICK rs, hs : rs = results' /\ hs = heard'
    OBVIOUS
<1>8. /\ \A i \in 1..Len(rs) : Told(n2, rs[i])'
      /\ \A e \in Dictations : \A res \in hs[e] : Told(n2, res)'
    <2>0. /\ \A i \in 1..Len(results) : Told(n, results[i])
          /\ \A e \in Dictations : \A res \in heard[e] : Told(n, res)
        BY DEF Loss
    <2>1. CASE UNCHANGED <<results, heard>>
        BY <1>a, <1>5, <2>0, <2>1
    <2>2. CASE FinishReceives
        <3>1. /\ results # <<>> /\ rs = Tail(results)
              /\ \/ hs = heard
                 \/ hs = [heard EXCEPT ![cur] = {Head(results)}]
            BY <1>a, <2>2 DEF FinishReceives
        <3>2. /\ 1 \in 1..Len(results) /\ Head(results) = results[1]
              /\ \A i \in 1..Len(rs) : i + 1 \in 1..Len(results) /\ rs[i] = results[i + 1]
            BY <1>0, <3>1, Tails
        <3>3. \A e \in Dictations : \A res \in hs[e] : res \in heard[e] \/ res = results[1]
            BY <1>0, <3>1, <3>2
        <3> QED BY <1>5, <2>0, <3>2, <3>3
    <2>3. ASSUME NEW res \in Result, rs = Append(results, res), hs = heard, Told(n2, res)'
          PROVE  /\ \A i \in 1..Len(rs) : Told(n2, rs[i])'
                 /\ \A e \in Dictations : \A r \in hs[e] : Told(n2, r)'
        <3>1. \A i \in 1..Len(rs) : \/ i \in 1..Len(results) /\ rs[i] = results[i]
                                    \/ rs[i] = res
            BY <1>0, <2>3, Appends
        <3> QED BY <1>5, <2>0, <2>3, <3>1
    <2>4. CASE Fails(n)
        <3>1. /\ rs = Append(results, Failed(Dictation(n))) /\ hs = heard
              /\ InSession /\ ~InSession' /\ Failed(Dictation(n)) \in Result
            <4>1. Dictation(n) \in Owner
                BY <1>0, <2>4, FlushOfSession DEF Fails
            <4> QED BY <1>a, <2>4, <4>1, FailTypes DEF Fails, control
        <3>2. Told(n2, Failed(Dictation(n)))'
            BY <1>0, <3>1 DEF Told, Failed, Dictation, Over
        <3> QED BY <2>3, <3>1, <3>2
    <2>5. ASSUME NEW c \in DOMAIN net.links, ReadAnswer(c)
          PROVE  /\ \A i \in 1..Len(rs) : Told(n2, rs[i])'
                 /\ \A e \in Dictations : \A r \in hs[e] : Told(n2, r)'
        <3>1. PICK res \in Result : Deliver(res) /\ Comes(net, res.of)
            BY <1>0, <2>5, AnswerCame
        <3>2. hs = heard /\ (rs = results \/ rs = Append(results, res))
            BY <1>a, <2>5, <3>1 DEF ReadAnswer, Deliver, control
        <3>3. Told(n, res)
            BY <3>1 DEF Told, Loss
        <3> QED BY <1>5, <2>0, <2>3, <3>2, <3>3
    <2>6. ASSUME NEW c \in DOMAIN net.links, FailOwed(c)
          PROVE  /\ \A i \in 1..Len(rs) : Told(n2, rs[i])'
                 /\ \A e \in Dictations : \A r \in hs[e] : Told(n2, r)'
        <3> DEFINE lost == [i \in 1..pending |-> Failed(Lost)]
        <3>1. rs = results \o lost /\ hs = heard /\ pending \in Nat
            BY <1>0, <1>a, <2>6, OwingTypes DEF FailOwed, control
        <3>2. lost \in Seq(Result) /\ Len(lost) = pending
            BY <3>1, EmptySeq, SeqDef, LenProperties DEF Failed, Result, Text
        <3> HIDE DEF lost
        <3>3. \A i \in 1..Len(rs) : \/ i \in 1..Len(results) /\ rs[i] = results[i]
                                    \/ rs[i] = Failed(Lost)
            <4>1. /\ Len(rs) = Len(results) + pending /\ Len(results) \in Nat
                  /\ \A i \in 1..Len(rs) : rs[i] = IF i <= Len(results) THEN results[i]
                                                     ELSE lost[i - Len(results)]
                BY <1>0, <3>1, <3>2, ConcatProperties, LenProperties
            <4>2. \A i \in 1..pending : lost[i] = Failed(Lost)
                BY DEF lost
            <4>3. \A i \in 1..Len(rs) : i <= Len(results) \/ i - Len(results) \in 1..pending
                BY <3>1, <4>1
            <4> QED BY <4>1, <4>2, <4>3
        <3>4. Told(n2, Failed(Lost))'
            BY DEF Told, Failed, Lost, Dictation
        <3> QED BY <1>5, <2>0, <3>1, <3>3, <3>4
    <2> QED BY <2>1, <2>2, <2>4, <2>5, <2>6, ResultMoves
<1> QED BY <1>6, <1>7, <1>8, <1>a DEF Loss, Comes, Coming, Told

LEMMA TidyHolds ==
    ASSUME IInv, Tidy(net), [Next]_vars
    PROVE  Tidy(net)'
<1>1. Tidy(net')
    BY NetMoves DEF Calm, Wrote
<1> QED BY <1>1 DEF Tidy, Line

\* The queue, the streams and the results, as long as some n is the last
\* dictation started.
LInv == QInv /\ Tidy(net) /\ \E n : Queued(n) /\ Loss(n)

LEMMA StepLInv == LInv /\ [Next]_vars => LInv'
<1> SUFFICES ASSUME LInv, [Next]_vars PROVE LInv'
    OBVIOUS
<1>1. QInv /\ QInv' /\ IInv /\ IInv' /\ Driven /\ Tidy(net) /\ Tidy(net)'
    BY StepQInv, TidyHolds DEF LInv, QInv
<1>2. PICK n : Queued(n) /\ Loss(n)
    BY DEF LInv
<1>3. PICK n2 : Started(n, n2)
    BY DEF Started
<1>4. Queued(n2)' /\ Loss(n2)'
    BY <1>1, <1>2, <1>3, QueuedHolds, LossHolds
<1> QED BY <1>1, <1>4 DEF LInv

LEMMA InitTidy == Init => Tidy(net) /\ \A o : ~Comes(net, o)
BY DEF Init, ThreadInit, Tidy, Line, NoStream, Comes

LEMMA InitLInv == Init => LInv
<1> SUFFICES ASSUME Init PROVE LInv
    OBVIOUS
<1>1. QInv /\ Tidy(net) /\ \A o : ~Comes(net, o)
    BY InitQInv, InitTidy
<1>2. Queued(0)
    BY DEF Init, ClientInit, ThreadInit, Queued, InSession, Orderly, Ending, Begins, Ends
<1>3. Loss(0)
    BY <1>1 DEF Init, ClientInit, Loss
<1> QED BY <1>1, <1>2, <1>3 DEF LInv

\* A dictation that lost a chunk to a failed write, or to a failed Start, has no text.
NoTextAfterNoticedLoss ==
    \A d \in seen.lost : \A res \in heard[d] :
        res.of = Dictation(d) => res.kind = "failed"

\* A chunk the client could not write, so that it knows the loss, leaves no text
\* of its dictation to be heard: not from the stream it was cancelled on, not
\* from an older one, and not after a rerun drained its commands (flush, 706-711:
\* dropped_chunks turns the Flush into a Cancel). What was written to a stream that
\* died unnoticed is no such loss: NothingTruncated is violated by it.
THEOREM NoticedLossNeverHeard == Spec => []NoTextAfterNoticedLoss
<1>1. LInv => NoTextAfterNoticedLoss
    <2> SUFFICES ASSUME LInv, NEW d \in seen.lost, NEW res \in heard[d], res.of = Dictation(d)
                 PROVE  res.kind = "failed"
        BY DEF NoTextAfterNoticedLoss
    <2>1. PICK n : Loss(n)
        BY DEF LInv
    <2>2. d \in Dictations /\ res \in Result
        BY DEF LInv, QInv, IInv, TypeOK, SeenOK, ControlOK
    <2>3. res.kind # "final"
        BY <2>1, <2>2 DEF Loss, Told
    <2> QED BY <2>2, <2>3 DEF Result
<1> QED BY <1>1, InitLInv, StepLInv, PTL DEF Spec

-----------------------------------------------------------------------------
(* Which dictation each result is for *)

\* No answer was taken from a connection already replaced, and no rerun was left
\* with its answer still to come.
Clean == ~seen.superseded /\ ~seen.abandoned

\* The Flushes taken whose result is not consumed, oldest first, are those of
\* dictations S: the channel has the results of the first, those after are
\* pending. The dictation finish waits for is queued still, or the last of S.
Awaits(q, S) ==
    ctl = "waiting" =>
        \/ \E i \in 1..Len(q) : q[i].cmd = "Flush" /\ q[i].of.id = cur
        \/ /\ S # <<>> /\ S[Len(S)] = cur
           /\ \A i \in 1..Len(q) : q[i].cmd # "Flush"
Slots(n, S) ==
    /\ \A i, j \in 1..Len(S) : i < j => S[i] < S[j]
    /\ Len(S) = Len(results) + pending + Flushed
    /\ \A i \in 1..Len(S) : Over(n, S[i])
    /\ Awaits(inbox, S)

\* A result is of no older dictation than its place is for.
Given(S) ==
    \A i \in 1..Len(results) :
        \/ results[i].of = Lost
        \/ \E d \in Dictations : results[i].of = Dictation(d) /\ S[i] <= d

\* An answer to come on the newest stream is for a place still pending.
Due(S) ==
    \A d \in Dictations : Coming(Line(net), Dictation(d)) =>
        \E k \in Len(results) + 1..Len(S) : S[k] = d

\* While the session handled has lost a chunk, no dictation's answer is to come.
Spoilt == InSession /\ Blemished => \A d \in Dictations : ~Coming(Line(net), Dictation(d))

\* A rerun's answer is to come only while it is waited for, and the waiting rerun
\* has its own.
Routed ==
    /\ \A r \in Reruns : Comes(net, Rerun(r)) => tpc = "rerunWait" /\ r = run.id
    /\ \A i \in 1..Len(answers) : answers[i].kind = "final" => answers[i].of = Rerun(run.id)

Matched(S) == Given(S) /\ Due(S) /\ InOrder(Line(net)) /\ Spoilt /\ Routed

\* What is remembered of superseded readers and abandoned reruns, and how the
\* thread leaves a rerun it was waiting for.
LEMMA SeenMoves ==
    ASSUME QInv, [Next]_vars
    PROVE  /\ Clean' => Clean
           /\ \/ tpc # "rerunWait"
              \/ tpc' = tpc /\ run' = run
              \/ Clean' => ~AnswerComing(Rerun(run.id))
           /\ \A c \in DOMAIN net.links : Clean' /\ (ReadAnswer(c) \/ FailOwed(c)) => c = Epoch(net)
<1> DEFINE Kept == Clean' => Clean
           Left == \/ tpc # "rerunWait"
                   \/ tpc' = tpc /\ run' = run
                   \/ Clean' => ~AnswerComing(Rerun(run.id))
<1>0. SeenOK /\ Driven
    BY DEF QInv, IInv, TypeOK
<1>1. UNCHANGED <<seen, thread>> => Kept /\ Left
    BY DEF Clean, thread
<1>2. ASSUME NEW c, seen' = [seen EXCEPT !.superseded = @ \/ c # Epoch(net)]
      PROVE  Kept /\ (Clean' => c = Epoch(net))
    BY <1>0, <1>2 DEF Clean, SeenOK
<1>9. Kept /\ Left
    <2>3. CASE Control \/ Settings
        <3>1. UNCHANGED <<seen, thread>>
            BY <2>3 DEF Control, Settings, Press, Speak, Release, CancelDictation, FinishReceives,
                FinishTimesOut, SwitchModels, RequestRerun
        <3> QED BY <1>1, <3>1
    <2>4. CASE Commands
        <3>1. tpc # "rerunWait"
            BY <2>4 DEF Commands, Boot, HandleStart, HandleChunk, HandleCancel, FlushFails, FlushWritten,
                BeginFlush, RefreshModels, Take
        <3>2. UNCHANGED seen \/ LoseChunk(Head(inbox).of) \/ Carried(Head(inbox))
            BY <2>4 DEF Commands, Boot, HandleStart, HandleChunk, HandleCancel, FlushFails, FlushWritten,
                BeginFlush, RefreshModels
        <3> QED BY <1>0, <3>1, <3>2, CarriedKeeps DEF LoseChunk, Clean, SeenOK
    <2>5. CASE RefuseRerun \/ BeginRerun \/ RerunArm
        <3>1. UNCHANGED seen /\ tpc # "rerunWait"
            BY <2>5 DEF RefuseRerun, BeginRerun, RerunArm, Take
        <3> QED BY <3>1 DEF Clean
    <2>6. CASE RerunDrains
        <3>1. tpc' = tpc /\ run' = run
            BY <2>6 DEF RerunDrains
        <3>2. UNCHANGED seen \/ seen' = [seen EXCEPT !.lost = @ \cup {Head(inbox).of.id}]
            BY <2>6 DEF RerunDrains
        <3> QED BY <1>0, <3>1, <3>2 DEF Clean, SeenOK
    <2>7. CASE RerunStart \/ RerunChunk \/ RerunFlush \/ RerunAnswered \/ RerunAbandoned
        <3>1. \/ UNCHANGED seen /\ tpc # "rerunWait"
              \/ seen' = [seen EXCEPT !.abandoned = @ \/ AnswerComing(Rerun(run.id))]
            BY <2>7 DEF RerunStart, RerunChunk, RerunFlush, RerunAnswered, RerunAbandoned,
                GiveUp, EndRerun
        <3>2. CASE UNCHANGED seen /\ tpc # "rerunWait"
            BY <3>2 DEF Clean
        <3>3. CASE seen' = [seen EXCEPT !.abandoned = @ \/ AnswerComing(Rerun(run.id))]
            <4>1. /\ seen'.superseded = seen.superseded
                  /\ seen'.abandoned = (seen.abandoned \/ AnswerComing(Rerun(run.id)))
                BY <1>0, <3>3 DEF SeenOK
            <4> QED BY <4>1 DEF Clean
        <3> QED BY <3>1, <3>2, <3>3
    <2>8. ASSUME NEW c \in DOMAIN net.links, Reader(c) PROVE Kept /\ Left
        <3>1. UNCHANGED thread
            BY <2>8 DEF Reader, ReadPartial, ReadAnswer, ReadEnd, MarkDead, CheckEpoch, FailOwed
        <3>2. UNCHANGED seen \/ seen' = [seen EXCEPT !.superseded = @ \/ c # Epoch(net)]
            BY <2>8 DEF Reader, ReadPartial, ReadAnswer, ReadEnd, MarkDead, CheckEpoch, FailOwed
        <3> QED BY <1>1, <1>2, <3>1, <3>2 DEF thread
    <2>9. ASSUME NEW c, DaemonHandles(c) \/ DaemonFails(c) \/ DaemonCloses(c) PROVE Kept /\ Left
        <3>1. UNCHANGED <<seen, thread>>
            BY <2>9 DEF DaemonHandles, DaemonFails, DaemonCloses
        <3> QED BY <1>1, <3>1
    <2>10. CASE UNCHANGED vars
        <3>1. UNCHANGED <<seen, thread>>
            BY <2>10 DEF vars
        <3> QED BY <1>1, <3>1
    <2> QED BY <2>3, <2>4, <2>5, <2>6, <2>7, <2>8, <2>9, <2>10 DEF Next, Driving
<1>10. ASSUME NEW c \in DOMAIN net.links, Clean', ReadAnswer(c) \/ FailOwed(c) PROVE c = Epoch(net)
    <2>1. seen' = [seen EXCEPT !.superseded = @ \/ c # Epoch(net)]
        BY <1>10 DEF ReadAnswer, FailOwed
    <2> QED BY <1>2, <1>10, <2>1
<1> QED BY <1>9, <1>10

\* How the rerun's own channel fills.
LEMMA AnswerMoves ==
    ASSUME QInv, [Next]_vars
    PROVE  \/ answers' = <<>>
           \/ run' = run /\ answers' = answers
           \/ run' = run /\ \E c \in DOMAIN net.links : ReadAnswer(c) \/ FailOwed(c)
<1>0. Driven
    BY DEF QInv
<1>1. UNCHANGED <<thread, ledger>> => run' = run /\ answers' = answers
    BY DEF thread, ledger
<1>2. CASE Control \/ Settings
    BY <1>1, <1>2 DEF Control, Settings, Press, Speak, Release, CancelDictation, FinishReceives,
        FinishTimesOut, SwitchModels, RequestRerun
<1>3. CASE Commands
    BY <1>3 DEF Commands, Boot, HandleStart, HandleChunk, HandleCancel, FlushFails, FlushWritten,
            BeginFlush, RefreshModels, ledger
<1>4. CASE Driving
    <2>1. CASE RefuseRerun \/ RerunDrains
        BY <2>1 DEF RefuseRerun, RerunDrains, ledger
    <2>2. CASE BeginRerun
        BY <1>0, <2>2 DEF BeginRerun, Take, Driven, ledger
    <2>3. CASE RerunArm
        BY <2>3 DEF RerunArm
    <2>4. CASE RerunStart \/ RerunChunk \/ RerunFlush \/ RerunAnswered \/ RerunAbandoned
        <3>1. \/ answers' = answers /\ run' = run
              \/ answers' = answers /\ tpc = "rerunChunks"
              \/ answers' = <<>>
            BY <2>4 DEF RerunStart, RerunChunk, RerunFlush, RerunAnswered, RerunAbandoned,
                GiveUp, EndRerun, ClearReprocess
        <3> QED BY <1>0, <3>1 DEF Driven
    <2> QED BY <1>4, <2>1, <2>2, <2>3, <2>4 DEF Driving
<1>5. ASSUME NEW c \in DOMAIN net.links, Reader(c)
      PROVE  run' = run /\ (answers' = answers \/ ReadAnswer(c) \/ FailOwed(c))
    BY <1>5 DEF Reader, ReadPartial, ReadAnswer, ReadEnd, MarkDead, CheckEpoch, FailOwed, thread, ledger
<1>6. ASSUME NEW c, DaemonHandles(c) \/ DaemonFails(c) \/ DaemonCloses(c)
      PROVE  run' = run /\ answers' = answers
    BY <1>1, <1>6 DEF DaemonHandles, DaemonFails, DaemonCloses
<1>7. CASE UNCHANGED vars
    BY <1>1, <1>7 DEF vars
<1> QED BY <1>2, <1>3, <1>4, <1>5, <1>6, <1>7 DEF Next

\* How the session handled comes to have lost a chunk.
LEMMA Spoils ==
    ASSUME QInv, [Next]_vars, InSession', Blemished'
    PROVE  \/ InSession /\ Blemished
           \/ HandleStart \/ HandleChunk \/ RerunDrains
<1>0. Driven
    BY DEF QInv
<1>1. UNCHANGED thread => InSession /\ Blemished
    BY DEF thread, InSession, Blemished
<1>2. CASE Control \/ Settings
    BY <1>1, <1>2 DEF Control, Settings, Press, Speak, Release, CancelDictation, FinishReceives,
        FinishTimesOut, SwitchModels, RequestRerun
<1>3. CASE Commands
    BY <1>3 DEF Commands, Boot, HandleCancel, FlushFails, FlushWritten,
            BeginFlush, RefreshModels, InSession, Blemished, Take
<1>4. CASE Driving
    <2>1. CASE RefuseRerun \/ BeginRerun \/ RerunArm
        BY <2>1 DEF RefuseRerun, BeginRerun, RerunArm, Take, InSession, Blemished
    <2>2. CASE RerunStart \/ RerunChunk \/ RerunFlush \/ RerunAnswered \/ RerunAbandoned
        <3>1. /\ tpc # "flushed" /\ dropped' = dropped
              /\ \/ session' = session
                 \/ session' = IF session = "reprocessing" THEN "idle" ELSE session
            BY <2>2 DEF RerunStart, RerunChunk, RerunFlush, RerunAnswered, RerunAbandoned,
                GiveUp, EndRerun
        <3> QED BY <3>1 DEF InSession, Blemished
    <2> QED BY <1>4, <2>1, <2>2 DEF Driving
<1>5. ASSUME NEW c, Reader(c) PROVE UNCHANGED thread
    BY <1>5 DEF Reader, ReadPartial, ReadAnswer, ReadEnd, MarkDead, CheckEpoch, FailOwed
<1>6. ASSUME NEW c, DaemonHandles(c) \/ DaemonFails(c) \/ DaemonCloses(c) PROVE UNCHANGED thread
    BY <1>6 DEF DaemonHandles, DaemonFails, DaemonCloses
<1>7. CASE UNCHANGED vars
    BY <1>1, <1>7 DEF vars
<1> QED BY <1>1, <1>2, <1>3, <1>4, <1>5, <1>6, <1>7 DEF Next

\* While a rerun is driven no dictation's answer is due on the newest stream.
LEMMA NoneDue ==
    ASSUME IInv, Driven, tpc \in Drive, NEW n, NEW S, S \in Seq(Dictations), Slots(n, S), Due(S),
           NEW d \in Dictations
    PROVE  ~Coming(Line(net), Dictation(d))
<1>1. Len(S) = Len(results) /\ Len(S) \in Nat
    BY OwingTypes DEF Slots, Driven, Drive, Flushed
<1> QED BY <1>1 DEF Due

LEMMA RoutedHolds ==
    ASSUME QInv, Tidy(net), [Next]_vars, Clean', Routed,
           NEW n, Queued(n), NEW S, S \in Seq(Dictations), Slots(n, S), Due(S)
    PROVE  Routed'
<1>0. IInv /\ Driven
    BY DEF QInv
<1>1. ASSUME NEW r \in Reruns, Comes(net', Rerun(r)) PROVE tpc' = "rerunWait" /\ r = run'.id
    <2>1. CASE Comes(net, Rerun(r))
        <3>1. tpc = "rerunWait" /\ r = run.id
            BY <2>1 DEF Routed
        <3>2. AnswerComing(Rerun(run.id))
            BY <2>1, <3>1 DEF AnswerComing, Comes, Coming
        <3> QED BY <3>1, <3>2, SeenMoves
    <2>2. CASE ~Comes(net, Rerun(r))
        <3>1. CASE Calm(net, net')
            BY <1>1, <2>2, <3>1 DEF Calm
        <3>2. CASE FlushWritten /\ Wrote(net, net', Head(inbox))
            <4>1. inbox # <<>> /\ Head(inbox).cmd = "Flush"
                BY <3>2 DEF FlushWritten, Take
            <4>2. Head(inbox).of = Dictation(n)
                BY <1>0, <4>1, FlushOfSession
            <4>3. Rerun(r) # Dictation(n)
                BY DEF Rerun, Dictation
            <4> QED BY <1>1, <2>2, <3>2, <4>2, <4>3 DEF Wrote
        <3>3. CASE RerunFlush /\ tpc' = "rerunWait" /\ Wrote(net, net', Cmd("Flush", Rerun(run.id), 0))
            <4>1. Rerun(r) = Rerun(run.id)
                BY <1>1, <2>2, <3>3 DEF Wrote, Cmd
            <4>2. run' = run
                BY <3>3, AfterTypes DEF RerunFlush, GiveUp, EndRerun
            <4> QED BY <3>3, <4>1, <4>2 DEF Rerun
        <3> QED BY <1>0, <3>1, <3>2, <3>3, NetMoves
    <2> QED BY <2>1, <2>2
<1>2. ASSUME NEW i \in 1..Len(answers'), answers'[i].kind = "final"
      PROVE  answers'[i].of = Rerun(run'.id)
    <2>0. answers \in Seq(Result) /\ Len(answers) \in Nat
        BY <1>0 DEF IInv, TypeOK, LedgerOK
    <2>1. CASE answers' = <<>>
        BY <1>2, <2>1
    <2>2. CASE run' = run /\ answers' = answers
        BY <1>2, <2>2 DEF Routed
    <2>3. ASSUME NEW c \in DOMAIN net.links, ReadAnswer(c), run' = run
          PROVE  answers'[i].of = Rerun(run'.id)
        <3>1. PICK res \in Result : /\ Deliver(res)
                                    /\ Coming(net.links[c], res.of) /\ Comes(net, res.of)
            BY <1>0, <2>3, AnswerCame
        <3>2. CASE waiter = 0
            BY <1>2, <2>3, <3>1, <3>2 DEF Deliver, Routed
        <3>3. CASE waiter # 0
            <4>1. answers' = Append(answers, res)
                BY <3>1, <3>3 DEF Deliver
            <4>2. CASE i \in 1..Len(answers)
                BY <1>2, <2>0, <2>3, <4>1, <4>2 DEF Routed
            <4>3. CASE i = Len(answers) + 1
                <5>1. answers'[i] = res /\ res.kind = "final"
                    BY <1>2, <2>0, <4>1, <4>3
                <5>2. res.of \in Owner
                    BY <5>1 DEF Result
                <5>3. c = Len(net.links) /\ Line(net) = net.links[c]
                    BY <1>0, <2>3, SeenMoves, LinkFacts DEF Epoch, Line
                <5>4. tpc \in Drive
                    BY <1>0, <3>3 DEF Driven, Drive
                <5>5. ~Spoken(res.of)
                    BY <1>0, <3>1, <5>2, <5>3, <5>4, SpokenOwner, NoneDue
                <5>6. PICK r \in Reruns : res.of = Rerun(r)
                    BY <5>2, <5>5 DEF Owner, Spoken, Rerun
                <5> QED BY <2>3, <3>1, <5>1, <5>6 DEF Routed
            <4> QED BY <1>2, <2>0, <4>1, <4>2, <4>3
        <3> QED BY <3>2, <3>3
    <2>4. ASSUME NEW c \in DOMAIN net.links, FailOwed(c), run' = run
          PROVE  answers'[i].of = Rerun(run'.id)
        <3>1. \E x \in Result : /\ x.kind = "failed"
                                /\ answers' = Append(answers, x) \/ answers' = answers
            <4>1. Failed(Lost) \in Result /\ Failed(Lost).kind = "failed"
                BY DEF Failed, Result, Text, Lost
            <4> QED BY <2>4, <4>1 DEF FailOwed
        <3>3. i \in 1..Len(answers) /\ answers'[i] = answers[i]
            BY <1>2, <2>0, <3>1
        <3> QED BY <1>2, <2>4, <3>3 DEF Routed
    <2> QED BY <2>1, <2>2, <2>3, <2>4, AnswerMoves
<1> QED BY <1>1, <1>2 DEF Routed

LEMMA SpoiltHolds ==
    ASSUME QInv, Tidy(net), [Next]_vars, Spoilt,
           NEW n, Queued(n), NEW S, S \in Seq(Dictations), Slots(n, S), Due(S)
    PROVE  Spoilt'
<1>0. IInv /\ Driven /\ Sound(net) /\ desired \in Models
    BY DEF QInv, IInv, TypeOK, SettingsOK
<1> SUFFICES ASSUME InSession', Blemished', NEW d \in Dictations
             PROVE  ~Coming(Line(net'), Dictation(d))
    BY DEF Spoilt
<1>1. CASE InSession /\ Blemished
    <2>1. ~Coming(Line(net), Dictation(d))
        BY <1>1 DEF Spoilt
    <2>2. CASE Calm(net, net')
        BY <2>1, <2>2 DEF Calm
    <2>3. CASE FlushWritten
        BY <2>3 DEF FlushWritten, InSession
    <2>4. CASE RerunFlush /\ Wrote(net, net', Cmd("Flush", Rerun(run.id), 0))
        <3>1. tpc \in Drive
            BY <2>4 DEF RerunFlush, Drive
        <3>2. Cmd("Flush", Rerun(run.id), 0) \in ClientFrame /\ Cmd("Flush", Rerun(run.id), 0).of = Rerun(run.id)
            BY <1>0, <3>1, RerunFrames
        <3>3. Dictation(d) # Rerun(run.id)
            BY DEF Dictation, Rerun
        <3> QED BY <1>0, <2>1, <2>4, <3>2, <3>3, WroteOrder
    <2> QED BY <1>0, <2>2, <2>3, <2>4, NetMoves
<1>2. CASE HandleStart
    <2>1. /\ inbox # <<>> /\ Head(inbox).cmd = "Start" /\ dropped' = 0
          /\ \E s \in SendStart(IF net.models = desired THEN net ELSE Dropped(net), Head(inbox)) :
                net' = s.net /\ session' = IF s.ok THEN "active" ELSE "failed"
        BY <1>2 DEF HandleStart, Take
    <2> DEFINE sw == IF net.models = desired THEN net ELSE Dropped(net)
    <2>2. PICK s \in SendStart(sw, Head(inbox)) :
              net' = s.net /\ session' = IF s.ok THEN "active" ELSE "failed"
        BY <2>1
    <2>3. session' = "failed"
        BY <2>1 DEF Blemished
    <2>4. Sound(sw) /\ Tidy(sw)
        BY <1>0, SwitchedCalm
    <2>5. Head(inbox) \in ClientFrame
        BY <1>0, <2>1, InboxTypes, CommandTypes
    <2> HIDE DEF sw
    <2>6. Bare(Line(net'))
        BY <1>0, <2>1, <2>2, <2>3, <2>4, <2>5, SendCalm
    <2> QED BY <2>6, BareComing
<1>3. CASE HandleChunk
    <2>1. inbox # <<>> /\ Head(inbox).cmd = "Chunk" /\ tpc = "loop" /\ session' = session
        BY <1>3 DEF HandleChunk, Take
    <2>2. InSession
        BY <2>1 DEF InSession
    <2>3. CASE session = "failed"
        BY <1>1, <2>2, <2>3 DEF Blemished
    <2>4. CASE session # "failed"
        <3>1. PICK s \in Send(net, Head(inbox)) :
                  net' = s.net /\ (s.ok => dropped' = dropped)
            BY <1>3, <2>4 DEF HandleChunk
        <3>2. CASE s.ok
            BY <1>1, <2>1, <2>2, <3>1, <3>2 DEF Blemished
        <3>3. CASE ~s.ok
            <4>1. Head(inbox) \in ClientFrame
                BY <1>0, <2>1, InboxTypes, CommandTypes
            <4>2. Bare(Line(net'))
                BY <1>0, <2>1, <3>1, <3>3, <4>1, SendCalm
            <4> QED BY <4>2, BareComing
        <3> QED BY <3>2, <3>3
    <2> QED BY <2>3, <2>4
<1>4. CASE RerunDrains
    <2>1. tpc \in Drive /\ net' = net
        BY <1>4 DEF RerunDrains, Drive
    <2> QED BY <1>0, <2>1, NoneDue
<1> QED BY <1>1, <1>2, <1>3, <1>4, Spoils

LEMMA OrderHolds ==
    ASSUME QInv, Tidy(net), [Next]_vars, InOrder(Line(net)),
           NEW n, Queued(n), NEW S, S \in Seq(Dictations), Slots(n, S), Due(S)
    PROVE  InOrder(Line(net'))
<1>0. IInv /\ Driven /\ Sound(net)
    BY DEF QInv, IInv
<1>1. CASE Calm(net, net')
    BY <1>1 DEF Calm
<1>2. CASE FlushWritten /\ Wrote(net, net', Head(inbox))
    <2>1. inbox # <<>> /\ Head(inbox).cmd = "Flush"
        BY <1>2 DEF FlushWritten, Take
    <2>2. InSession /\ Head(inbox).of = Dictation(n) /\ Head(inbox).of.id = n /\ n \in Dictations
        BY <1>0, <2>1, FlushOfSession DEF Dictation
    <2>3. Head(inbox) \in ClientFrame
        BY <1>0, <2>1, InboxTypes, CommandTypes
    <2>4. ASSUME NEW d \in Dictations, Coming(Line(net), Dictation(d)) PROVE d < n
        <3>1. PICK k \in Len(results) + 1..Len(S) : S[k] = d
            BY <2>4 DEF Due
        <3>2. k \in 1..Len(S)
            BY <1>0, <3>1, OwingTypes
        <3>3. Over(n, d)
            BY <3>1, <3>2 DEF Slots
        <3> QED BY <2>2, <2>4, <3>3 DEF Over, Dictations
    <2> QED BY <1>0, <1>2, <2>2, <2>3, <2>4, WroteOrder
<1>3. CASE RerunFlush /\ Wrote(net, net', Cmd("Flush", Rerun(run.id), 0))
    <2>1. tpc \in Drive
        BY <1>3 DEF RerunFlush, Drive
    <2>2. Cmd("Flush", Rerun(run.id), 0) \in ClientFrame /\ Cmd("Flush", Rerun(run.id), 0).of = Rerun(run.id)
        BY <1>0, <2>1, RerunFrames
    <2>3. ~Spoken(Rerun(run.id))
        BY DEF Spoken, Rerun
    <2> QED BY <1>0, <1>3, <2>2, <2>3, WroteOrder
<1> QED BY <1>0, <1>1, <1>2, <1>3, NetMoves

\* How the number of dictations taken and not consumed changes.
LEMMA SlotMoves ==
    ASSUME QInv, [Next]_vars, NEW n, Queued(n)
    PROVE  \/ FlushWritten
           \/ Fails(n)
           \/ FinishReceives
           \/ \E c \in DOMAIN net.links : ReadAnswer(c) \/ FailOwed(c)
           \/ /\ results' = results /\ pending' + Flushed' = pending + Flushed
              /\ \/ UNCHANGED inbox
                 \/ Feeds
                 \/ inbox # <<>> /\ inbox' = Tail(inbox) /\ Head(inbox).cmd # "Flush"
<1> DEFINE Moves == \/ UNCHANGED inbox
                    \/ Feeds
                    \/ inbox # <<>> /\ inbox' = Tail(inbox) /\ Head(inbox).cmd # "Flush"
           Counts == pending' + Flushed' = pending + Flushed
<1>0. IInv /\ Driven /\ pending \in Nat
    BY DEF QInv, IInv, TypeOK, LedgerOK
<1>1. UNCHANGED <<thread, ledger>> => Counts
    BY DEF thread, ledger, Flushed
<1>2. CASE Control
    <2>1. FinishReceives \/ (UNCHANGED <<thread, ledger, results>> /\ Moves)
        BY <1>2 DEF Control, Press, Speak, Release, CancelDictation, FinishTimesOut, Feeds
    <2> QED BY <1>1, <2>1
<1>3. CASE Settings
    <2>1. UNCHANGED <<thread, ledger, results>> /\ Moves
        BY <1>3 DEF Settings, SwitchModels, RequestRerun, Feeds
    <2> QED BY <1>1, <2>1
<1>4. CASE Commands
    <2>1. CASE Boot \/ RefreshModels
        <3>1. UNCHANGED <<results, inbox, pending>> /\ tpc # "flushed" /\ tpc' = "loop"
            BY <2>1 DEF Boot, RefreshModels, ledger
        <3> QED BY <3>1 DEF Flushed
    <2>2. CASE HandleStart \/ HandleChunk \/ HandleCancel
        <3>1. /\ UNCHANGED <<results, pending>> /\ tpc = "loop" /\ tpc' # "flushed"
              /\ inbox # <<>> /\ inbox' = Tail(inbox) /\ Head(inbox).cmd # "Flush"
            BY <2>2, AfterTypes DEF HandleStart, HandleChunk, HandleCancel, Take, ledger
        <3> QED BY <3>1 DEF Flushed
    <2>3. CASE FlushFails
        <3>1. /\ inbox # <<>> /\ inbox' = Tail(inbox) /\ Head(inbox).cmd = "Flush"
              /\ results' = Append(results, Failed(Head(inbox).of))
              /\ session' = "idle" /\ UNCHANGED <<control, ledger>>
              /\ tpc # "flushed" /\ tpc' # "flushed"
            BY <2>3, AfterTypes DEF FlushFails, Take, FailDictation
        <3> QED BY <1>0, <2>3, <3>1, FlushOfSession DEF Fails, InSession
    <2>4. CASE BeginFlush
        <3>1. /\ UNCHANGED <<results, inbox>> /\ pending' = pending + 1
              /\ tpc = "flushed" /\ tpc' # "flushed"
            BY <2>4, AfterTypes DEF BeginFlush
        <3> QED BY <1>0, <3>1 DEF Flushed
    <2> QED BY <1>4, <2>1, <2>2, <2>3, <2>4 DEF Commands
<1>5. CASE Driving
    <2>1. CASE RefuseRerun \/ BeginRerun
        <3>1. /\ UNCHANGED <<results, pending>> /\ tpc = "loop" /\ tpc' # "flushed"
              /\ inbox # <<>> /\ inbox' = Tail(inbox) /\ Head(inbox).cmd # "Flush"
            BY <2>1 DEF RefuseRerun, BeginRerun, Take, ledger
        <3> QED BY <3>1 DEF Flushed
    <2>2. CASE RerunDrains
        <3>1. /\ inbox # <<>> /\ inbox' = Tail(inbox) /\ UNCHANGED pending /\ tpc' = tpc
            BY <2>2 DEF RerunDrains, ledger
        <3>2. CASE Head(inbox).cmd = "Flush"
            <4>1. ~UNCHANGED results
                <5>1. results' = Append(results, Failed(Head(inbox).of))
                    BY <2>2, <3>2, DrainedFlush DEF FailDictation
                <5>2. Failed(Head(inbox).of) \in Result
                    BY <1>0, <3>1, <3>2, InboxTypes, CommandTypes, FailTypes
                <5>3. Len(results') = Len(results) + 1 /\ Len(results) \in Nat
                    BY <1>0, <5>1, <5>2, ResultCounts, OwingTypes
                <5> QED BY <5>3
            <4>2. ~FinishReceives /\ \A c : ~(ReadAnswer(c) \/ FailOwed(c))
                <5>1. inbox' # inbox
                    <6>1. inbox \in Seq(Command)
                        BY <1>0, OwingTypes
                    <6> QED BY <3>1, <6>1, Tails
                <5> QED BY <5>1 DEF FinishReceives, ReadAnswer, FailOwed
            <4> QED BY <4>1, <4>2, ResultMoves
        <3>3. CASE Head(inbox).cmd # "Flush"
            <4>1. UNCHANGED results
                BY <2>2, <3>3 DEF RerunDrains
            <4> QED BY <3>1, <3>3, <4>1 DEF Flushed
        <3> QED BY <3>2, <3>3
    <2>3. CASE RerunStart \/ RerunChunk \/ RerunArm \/ RerunFlush \/ RerunAnswered \/ RerunAbandoned
        <3>1. UNCHANGED <<results, inbox, pending>> /\ tpc # "flushed" /\ tpc' # "flushed"
            BY <2>3, AfterTypes DEF RerunStart, RerunChunk, RerunArm, RerunFlush, RerunAnswered,
                RerunAbandoned, GiveUp, EndRerun
        <3> QED BY <3>1 DEF Flushed
    <2> QED BY <1>5, <2>1, <2>2, <2>3 DEF Driving
<1>6. ASSUME NEW c \in DOMAIN net.links, Reader(c)
      PROVE  ReadAnswer(c) \/ FailOwed(c) \/ (UNCHANGED results /\ Counts /\ Moves)
    <2>1. CASE ReadPartial(c)
        <3>1. UNCHANGED <<thread, pending, results, inbox>>
            BY <2>1 DEF ReadPartial
        <3> QED BY <3>1 DEF thread, Flushed
    <2>2. CASE ReadEnd(c) \/ MarkDead(c) \/ CheckEpoch(c)
        <3>1. UNCHANGED <<thread, ledger, results, inbox>>
            BY <2>2 DEF ReadEnd, MarkDead, CheckEpoch
        <3> QED BY <1>1, <3>1
    <2> QED BY <1>6, <2>1, <2>2 DEF Reader
<1>7. ASSUME NEW c, DaemonHandles(c) \/ DaemonFails(c) \/ DaemonCloses(c)
      PROVE  UNCHANGED results /\ Counts /\ Moves
    <2>1. UNCHANGED <<thread, ledger, results, inbox>>
        BY <1>7 DEF DaemonHandles, DaemonFails, DaemonCloses
    <2> QED BY <1>1, <2>1
<1>8. CASE UNCHANGED vars
    <2>1. UNCHANGED <<thread, ledger, results, inbox>>
        BY <1>8 DEF vars
    <2> QED BY <1>1, <2>1
<1> QED BY <1>2, <1>3, <1>4, <1>5, <1>6, <1>7, <1>8 DEF Next

LEMMA WaitMoves ==
    ASSUME [Next]_vars
    PROVE  \/ Release
           \/ ctl' = "waiting" => ctl = "waiting" /\ cur' = cur
<1>1. CASE Control
    BY <1>1 DEF Control, Press, Speak, CancelDictation, FinishReceives, FinishTimesOut
<1>2. UNCHANGED control => UNCHANGED <<ctl, cur>>
    BY DEF control
<1>3. CASE Settings
    BY <1>2, <1>3 DEF Settings, SwitchModels, RequestRerun
<1>4. CASE Commands
    BY <1>2, <1>4 DEF Commands, Boot, HandleStart, HandleChunk, HandleCancel, FlushFails, FlushWritten,
            BeginFlush, RefreshModels
<1>5. CASE Driving
    BY <1>2, <1>5 DEF Driving, RefuseRerun, BeginRerun, RerunStart, RerunChunk, RerunArm, RerunFlush,
            RerunDrains, RerunAnswered, RerunAbandoned
<1>6. ASSUME NEW c, \/ Reader(c)
                    \/ DaemonHandles(c) \/ DaemonFails(c) \/ DaemonCloses(c)
      PROVE  UNCHANGED control
    <2>1. CASE Reader(c)
        BY <2>1 DEF Reader, ReadPartial, ReadAnswer, ReadEnd, MarkDead, CheckEpoch, FailOwed
    <2>2. CASE DaemonHandles(c) \/ DaemonFails(c) \/ DaemonCloses(c)
        BY <2>2 DEF DaemonHandles, DaemonFails, DaemonCloses
    <2> QED BY <1>6, <2>1, <2>2
<1>7. CASE UNCHANGED vars
    BY <1>2, <1>7 DEF vars
<1> QED BY <1>1, <1>2, <1>3, <1>4, <1>5, <1>6, <1>7 DEF Next

LEMMA NoFlushes ==
    ASSUME NEW q \in Seq(Command), \A i \in 1..Len(q) : q[i].cmd # "Flush"
    PROVE  FlushesIn(q) = 0
<1>1. FlushesAt(q) = {}
    BY DEF FlushesAt
<1> QED BY <1>1, FS_EmptySet DEF FlushesIn

\* What becomes of the dictation finish waits for: its Flush is taken and it
\* comes last, or results before its own are discarded.
LEMMA AwaitsHolds ==
    ASSUME QInv, StaleIsOwed, [Next]_vars, NEW n, Queued(n),
           NEW S, S \in Seq(Dictations), Slots(n, S), NEW T,
           \/ inbox # <<>> /\ inbox' = Tail(inbox) /\ Head(inbox).cmd = "Flush" /\ T = Append(S, n)
           \/ inbox # <<>> /\ inbox' = Tail(inbox) /\ Head(inbox).cmd # "Flush" /\ T = S
           \/ UNCHANGED inbox /\ (T = S \/ (FinishReceives /\ T = Tail(S)))
           \/ Feeds /\ T = S
    PROVE  Awaits(inbox, T)'
<1>0. /\ IInv /\ inbox \in Seq(Command) /\ Len(inbox) \in Nat /\ cur \in Nat
      /\ Orderly(inbox, n, InSession)
    BY QueuedTypes DEF QInv, Queued
<1>1. CASE Release
    <2>1. /\ inbox' = Append(inbox, Cmd("Flush", Dictation(cur), 0)) /\ cur' = cur
        BY <1>1 DEF Release
    <2>2. cur \in Dictations
        BY <1>0, <1>1 DEF Release, IInv, TypeOK, ControlOK, Dictations
    <2>3. Cmd("Flush", Dictation(cur), 0) \in Command
        BY <2>2, CommandTypes
    <2>4. /\ Len(inbox) + 1 \in 1..Len(inbox')
          /\ inbox'[Len(inbox) + 1] = Cmd("Flush", Dictation(cur), 0)
        BY <1>0, <2>1, <2>3, Appends
    <2> QED BY <2>1, <2>4 DEF Awaits, Cmd, Dictation
<1>2. CASE ~Release
    <2> SUFFICES ASSUME ctl' = "waiting"
                 PROVE  \/ \E i \in 1..Len(inbox') : inbox'[i].cmd = "Flush" /\ inbox'[i].of.id = cur'
                        \/ /\ T # <<>> /\ T[Len(T)] = cur'
                           /\ \A i \in 1..Len(inbox') : inbox'[i].cmd # "Flush"
        BY DEF Awaits
    <2>1. ctl = "waiting" /\ cur' = cur
        BY <1>2, WaitMoves
    <2>2. \/ \E i \in 1..Len(inbox) : inbox[i].cmd = "Flush" /\ inbox[i].of.id = cur
          \/ /\ S # <<>> /\ S[Len(S)] = cur
             /\ \A i \in 1..Len(inbox) : inbox[i].cmd # "Flush"
        BY <2>1 DEF Slots, Awaits
    <2>3. CASE inbox # <<>> /\ inbox' = Tail(inbox) /\ Head(inbox).cmd = "Flush" /\ T = Append(S, n)
        <3>1. PICK i \in 1..Len(inbox) : inbox[i].cmd = "Flush" /\ inbox[i].of.id = cur
            <4>1. 1 \in 1..Len(inbox) /\ inbox[1].cmd = "Flush"
                BY <1>0, <2>3, Tails
            <4> QED BY <2>2, <4>1
        <3>2. /\ Len(inbox') \in Nat /\ Len(inbox') = Len(inbox) - 1
              /\ \A j \in 1..Len(inbox') : j + 1 \in 1..Len(inbox) /\ inbox'[j] = inbox[j + 1]
              /\ Head(inbox) = inbox[1]
            BY <1>0, <2>3, Tails
        <3>3. CASE i # 1
            <4>1. i - 1 \in 1..Len(inbox') /\ inbox'[i - 1] = inbox[i]
                BY <3>2, <3>3
            <4> QED BY <2>1, <3>1, <4>1
        <3>4. CASE i = 1
            <4>1. n = cur
                <5>1. Head(inbox).of = Dictation(n)
                    BY <1>0, <2>3, FlushOfSession
                <5> QED BY <3>1, <3>2, <3>4, <5>1 DEF Dictation
            <4>2. T # <<>> /\ T[Len(T)] = cur
                <5>1. n \in Dictations
                    BY <1>0, <2>3, FlushOfSession
                <5>2. Len(T) = Len(S) + 1 /\ T[Len(S) + 1] = n /\ T # <<>>
                    BY <2>3, <5>1, Appends
                <5> QED BY <4>1, <5>2
            <4>3. ASSUME NEW j \in 1..Len(inbox'), inbox'[j].cmd = "Flush" PROVE FALSE
                <5>1. /\ j + 1 \in 1..Len(inbox) /\ inbox[j + 1].cmd = "Flush"
                      /\ inbox[j + 1] \in Command /\ inbox[1] \in Command
                    BY <1>0, <3>2, <3>1, <3>4, <4>3
                <5>2. /\ inbox[j + 1].of.id \in n..cur
                      /\ inbox[1].of.id <= inbox[j + 1].of.id
                      /\ inbox[1].of.id # inbox[j + 1].of.id
                    BY <1>0, <3>1, <3>4, <5>1 DEF Orderly
                <5> QED BY <1>0, <3>1, <3>4, <4>1, <5>2
            <4> QED BY <2>1, <4>2, <4>3
        <3> QED BY <3>3, <3>4
    <2>4. CASE inbox # <<>> /\ inbox' = Tail(inbox) /\ Head(inbox).cmd # "Flush" /\ T = S
        <3>1. /\ Len(inbox') \in Nat /\ Len(inbox') = Len(inbox) - 1
              /\ \A j \in 1..Len(inbox') : j + 1 \in 1..Len(inbox) /\ inbox'[j] = inbox[j + 1]
              /\ Head(inbox) = inbox[1]
            BY <1>0, <2>4, Tails
        <3>2. ASSUME NEW i \in 1..Len(inbox), inbox[i].cmd = "Flush"
              PROVE  i - 1 \in 1..Len(inbox') /\ inbox'[i - 1] = inbox[i]
            <4>1. i # 1
                BY <2>4, <3>1, <3>2
            <4>2. i - 1 \in 1..Len(inbox')
                BY <1>0, <3>1, <4>1
            <4> QED BY <3>1, <4>2
        <3>3. CASE \E i \in 1..Len(inbox) : inbox[i].cmd = "Flush" /\ inbox[i].of.id = cur
            BY <2>1, <3>2, <3>3
        <3>4. CASE S # <<>> /\ S[Len(S)] = cur /\ \A i \in 1..Len(inbox) : inbox[i].cmd # "Flush"
            BY <2>1, <2>4, <3>1, <3>4
        <3> QED BY <2>2, <3>3, <3>4
    <2>5. CASE UNCHANGED inbox /\ T = S
        BY <2>1, <2>2, <2>5
    <2>6. CASE UNCHANGED inbox /\ FinishReceives /\ T = Tail(S)
        <3>1. CASE \E i \in 1..Len(inbox) : inbox[i].cmd = "Flush" /\ inbox[i].of.id = cur
            BY <2>1, <2>6, <3>1
        <3>2. CASE ~\E i \in 1..Len(inbox) : inbox[i].cmd = "Flush" /\ inbox[i].of.id = cur
            <4>1. S # <<>> /\ S[Len(S)] = cur /\ \A i \in 1..Len(inbox) : inbox[i].cmd # "Flush"
                BY <2>2, <3>2
            <4>2. stale > 0
                BY <2>6 DEF FinishReceives
            <4>3. FlushesIn(inbox) = 0
                BY <1>0, <4>1, NoFlushes
            <4>4. Len(S) = stale + 1 /\ stale \in Nat
                BY <1>0, <2>1, <4>3, StaleIsOwing, OwingTypes DEF Owing, Waiting, Slots
            <4>5. Len(T) = Len(S) - 1 /\ T[Len(T)] = S[Len(S)] /\ T # <<>>
                <5>1. /\ Len(Tail(S)) = Len(S) - 1
                      /\ \A i \in 1..Len(Tail(S)) : Tail(S)[i] = S[i + 1]
                    BY <4>1, Tails
                <5>2. T = Tail(S)
                    BY <2>6
                <5>3. Len(T) = stale /\ Len(T) \in 1..Len(T)
                    BY <4>2, <4>4, <5>1, <5>2
                <5>4. T # <<>>
                    BY <4>2, <4>4, <5>3
                <5>5. T[Len(T)] = S[Len(T) + 1]
                    BY <5>1, <5>2, <5>3
                <5> QED BY <4>4, <5>3, <5>4, <5>5
            <4> QED BY <2>1, <2>6, <4>1, <4>5
        <3> QED BY <3>1, <3>2
    <2>7. CASE Feeds /\ T = S
        <3>1. PICK r \in Reruns : inbox' = Append(inbox, Cmd("Reprocess", Rerun(r), 0))
            BY <1>2, <2>1, <2>7 DEF Feeds, Press, Speak, Release, CancelDictation, RequestRerun
        <3>2. Cmd("Reprocess", Rerun(r), 0) \in Command /\ Cmd("Reprocess", Rerun(r), 0).cmd = "Reprocess"
            BY CommandTypes DEF Cmd
        <3> DEFINE m == Cmd("Reprocess", Rerun(r), 0)
        <3> HIDE DEF m
        <3>3. /\ \A i \in 1..Len(inbox') : \/ i \in 1..Len(inbox) /\ inbox'[i] = inbox[i]
                                           \/ inbox'[i] = m
              /\ \A i \in 1..Len(inbox) : i \in 1..Len(inbox') /\ inbox'[i] = inbox[i]
            BY <1>0, <3>1, <3>2, Appends DEF m
        <3>4. m.cmd # "Flush"
            BY <3>2 DEF m
        <3> QED BY <2>1, <2>2, <2>7, <3>3, <3>4
    <2> QED BY <2>3, <2>4, <2>5, <2>6, <2>7
<1> QED BY <1>1, <1>2

\* The Flush taken is that of the session handled, which it ends.
LEMMA FlushTaken ==
    ASSUME QInv, NEW n, Queued(n), FlushWritten \/ Fails(n)
    PROVE  /\ inbox # <<>> /\ inbox' = Tail(inbox) /\ Head(inbox).cmd = "Flush"
           /\ Head(inbox).of = Dictation(n) /\ n \in Dictations /\ n \in Nat
           /\ InSession /\ ~InSession' /\ Flushed = 0 /\ UNCHANGED <<control, ledger>>
           /\ FlushWritten => results' = results /\ Flushed' = 1
           /\ Fails(n) => results' = Append(results, Failed(Dictation(n))) /\ Flushed' = 0
<1>1. /\ inbox # <<>> /\ inbox' = Tail(inbox) /\ Head(inbox).cmd = "Flush"
      /\ UNCHANGED <<control, ledger>> /\ tpc # "flushed" /\ ~InSession'
    BY DEF FlushWritten, Take, Fails, InSession
<1>2. InSession /\ Head(inbox).of = Dictation(n) /\ n \in Dictations
    BY <1>1, FlushOfSession DEF QInv
<1>3. FlushWritten => results' = results /\ Flushed' = 1
    BY DEF FlushWritten, Flushed
<1>4. Fails(n) => results' = Append(results, Failed(Dictation(n))) /\ Flushed' = 0
    BY DEF Fails, Flushed
<1> QED BY <1>1, <1>2, <1>3, <1>4 DEF Flushed, Dictations

LEMMA SlotsTaken ==
    ASSUME QInv, StaleIsOwed, [Next]_vars, NEW n, Queued(n), NEW n2, Started(n, n2),
           NEW S, S \in Seq(Dictations), Slots(n, S), FlushWritten \/ Fails(n)
    PROVE  Append(S, n) \in Seq(Dictations) /\ Slots(n2, Append(S, n))'
<1> DEFINE T == Append(S, n)
<1>0. IInv /\ Driven
    BY DEF QInv
<1>1. /\ inbox # <<>> /\ inbox' = Tail(inbox) /\ Head(inbox).cmd = "Flush"
      /\ n \in Dictations /\ n \in Nat /\ InSession /\ ~InSession' /\ Flushed = 0 /\ pending' = pending
      /\ FlushWritten => results' = results /\ Flushed' = 1
      /\ Fails(n) => results' = Append(results, Failed(Dictation(n))) /\ Flushed' = 0
    BY FlushTaken DEF ledger
<1>2. n2 = n
    BY <1>1 DEF Started
<1>3. /\ T \in Seq(Dictations) /\ Len(S) \in Nat /\ Len(T) = Len(S) + 1 /\ T[Len(S) + 1] = n
      /\ \A i \in 1..Len(S) : T[i] = S[i] /\ S[i] \in Dictations
      /\ \A i \in 1..Len(T) : i \in 1..Len(S) \/ i = Len(S) + 1
    <2> HIDE DEF T
    <2>1. S \in Seq(Dictations)
        OBVIOUS
    <2> QED BY <1>1, <2>1, Appends DEF T
<1>4. Awaits(inbox, T)'
    BY <1>1, AwaitsHolds
<1> HIDE DEF T
<1>5. \A i \in 1..Len(S) : S[i] < n
    BY <1>1, <1>3 DEF Slots, Over, Dictations
<1>6. \A i, j \in 1..Len(T) : i < j => T[i] < T[j]
    <2> TAKE i, j \in 1..Len(T)
    <2> HAVE i < j
    <2>1. i \in 1..Len(S) /\ (j \in 1..Len(S) \/ j = Len(S) + 1)
        BY <1>3
    <2>2. CASE j \in 1..Len(S)
        BY <1>3, <2>1, <2>2 DEF Slots
    <2>3. CASE j = Len(S) + 1
        BY <1>3, <1>5, <2>1, <2>3
    <2> QED BY <2>1, <2>2, <2>3
<1>7. Len(T) = Len(results') + pending' + Flushed'
    <2>1. Len(S) = Len(results) + pending /\ Len(results) \in Nat /\ pending \in Nat
        BY <1>0, <1>1, OwingTypes DEF Slots
    <2>2. CASE FlushWritten
        BY <1>1, <1>3, <2>1, <2>2
    <2>3. CASE Fails(n)
        <3>1. Failed(Dictation(n)) \in Result
            BY <1>1, FailTypes DEF Owner, Dictation
        <3>2. Len(results') = Len(results) + 1
            BY <1>0, <1>1, <2>3, <3>1, ResultCounts
        <3> QED BY <1>1, <1>3, <2>1, <2>3, <3>2
    <2> QED BY <2>2, <2>3
<1>8. \A i \in 1..Len(T) : T[i] <= n
    BY <1>1, <1>3, <1>5 DEF Dictations
<1>9. \A i \in 1..Len(T) : Over(n2, T[i])'
    BY <1>1, <1>2, <1>8 DEF Over
<1> QED BY <1>3, <1>4, <1>6, <1>7, <1>9 DEF Slots, T

LEMMA SlotsConsumed ==
    ASSUME QInv, StaleIsOwed, [Next]_vars, NEW n, Queued(n), NEW n2, Started(n, n2),
           NEW S, S \in Seq(Dictations), Slots(n, S), FinishReceives
    PROVE  S # <<>> /\ Tail(S) \in Seq(Dictations) /\ Slots(n2, Tail(S))'
<1> DEFINE T == Tail(S)
<1>0. IInv /\ Driven
    BY DEF QInv
<1>1. /\ results # <<>> /\ results' = Tail(results) /\ UNCHANGED <<inbox, pending, tpc, session>>
    BY DEF FinishReceives, ledger, thread
<1>2. /\ Len(results) \in Nat \ {0} /\ Len(results') = Len(results) - 1 /\ pending \in Nat
      /\ Flushed \in {0, 1} /\ Flushed' = Flushed
    BY <1>0, <1>1, OwingTypes, ResultCounts DEF Flushed
<1>3. S # <<>>
    BY <1>2 DEF Slots
<1>4. /\ T \in Seq(Dictations) /\ Len(S) \in Nat /\ Len(T) = Len(S) - 1
      /\ \A i \in 1..Len(T) : i + 1 \in 1..Len(S) /\ T[i] = S[i + 1] /\ T[i] \in Dictations
    BY <1>3, Tails
<1>5. Awaits(inbox, T)'
    BY <1>1, AwaitsHolds
<1> HIDE DEF T
<1>6. \A i, j \in 1..Len(T) : i < j => T[i] < T[j]
    BY <1>4 DEF Slots
<1>7. Len(T) = Len(results') + pending' + Flushed'
    BY <1>1, <1>2, <1>4 DEF Slots
<1>8. ASSUME NEW i \in 1..Len(T) PROVE Over(n2, T[i])'
    <2>1. Over(n, T[i]) /\ T[i] \in Nat
        BY <1>4 DEF Slots, Dictations
    <2> QED BY <1>0, <2>1, OverStays
<1> QED BY <1>3, <1>4, <1>5, <1>6, <1>7, <1>8 DEF Slots, T

LEMMA SlotsKept ==
    ASSUME QInv, StaleIsOwed, [Next]_vars, NEW n, Queued(n), NEW n2, Started(n, n2),
           NEW S, S \in Seq(Dictations), Slots(n, S),
           Len(results') + pending' + Flushed' = Len(results) + pending + Flushed,
           \/ UNCHANGED inbox \/ Feeds
           \/ inbox # <<>> /\ inbox' = Tail(inbox) /\ Head(inbox).cmd # "Flush"
    PROVE  Slots(n2, S)'
<1>0. IInv /\ Driven
    BY DEF QInv
<1>1. Awaits(inbox, S)'
    BY AwaitsHolds
<1>2. ASSUME NEW i \in 1..Len(S) PROVE Over(n2, S[i])'
    <2>1. Over(n, S[i])
        BY DEF Slots
    <2>2. S[i] \in Dictations
        OBVIOUS
    <2>3. S[i] \in Nat
        BY <2>2 DEF Dictations
    <2> QED BY <1>0, <2>1, <2>3, OverStays
<1> QED BY <1>1, <1>2 DEF Slots

\* What a reader hands over keeps the count.
LEMMA AnswerCounts ==
    ASSUME IInv, NEW c \in DOMAIN net.links, ReadAnswer(c) \/ FailOwed(c)
    PROVE  /\ UNCHANGED <<inbox, thread, control>>
           /\ Len(results') + pending' + Flushed' = Len(results) + pending + Flushed
<1>0. /\ Len(results) \in Nat /\ pending \in Nat /\ results \in Seq(Result)
    BY OwingTypes
<1>1. UNCHANGED <<inbox, thread, control>> /\ Flushed' = Flushed /\ Flushed \in {0, 1}
    BY DEF ReadAnswer, FailOwed, thread, Flushed
<1>2. CASE ReadAnswer(c)
    <2>1. PICK res \in Result : Deliver(res)
        BY <1>2, AnswerTypes
    <2>2. \/ pending' = pending /\ results' = results
          \/ pending' = pending - 1 /\ results' = Append(results, res)
        BY <2>1 DEF Deliver
    <2>3. results' = Append(results, res) => Len(results') = Len(results) + 1
        BY ResultCounts
    <2>4. Len(results') + pending' = Len(results) + pending
        BY <1>0, <2>2, <2>3
    <2> QED BY <1>0, <1>1, <2>2, <2>4
<1>3. CASE FailOwed(c)
    <2>1. pending' = 0 /\ results' = results \o [i \in 1..pending |-> Failed(Lost)]
        BY <1>3 DEF FailOwed
    <2> DEFINE fails == [i \in 1..pending |-> Failed(Lost)]
    <2>2. fails \in Seq(Result) /\ Len(fails) = pending
        <3>1. Failed(Lost) \in Result
            BY DEF Failed, Result, Text, Lost
        <3> QED BY <1>0, <3>1
    <2> HIDE DEF fails
    <2>3. Len(results \o fails) = Len(results) + Len(fails)
        BY <1>0, <2>2
    <2> QED BY <1>0, <1>1, <2>1, <2>2, <2>3 DEF fails
<1> QED BY <1>1, <1>2, <1>3

\* No answer becomes due on the newest stream but that of the Flush written.
LEMMA ComingMoves ==
    ASSUME IInv, Tidy(net), [Next]_vars, NEW d, Coming(Line(net'), Dictation(d))
    PROVE  Coming(Line(net), Dictation(d)) \/ (FlushWritten /\ Dictation(d) = Head(inbox).of)
<1>0. Sound(net)
    BY DEF IInv
<1>1. CASE Calm(net, net')
    BY <1>1 DEF Calm
<1>2. CASE FlushWritten /\ Wrote(net, net', Head(inbox))
    <2>1. Head(inbox) \in ClientFrame
        BY <1>2, InboxTypes, CommandTypes DEF FlushWritten, Take
    <2> QED BY <1>0, <1>2, <2>1, WroteOrder
<1>3. CASE RerunFlush /\ Wrote(net, net', Cmd("Flush", Rerun(run.id), 0))
    <2>1. tpc \in Drive
        BY <1>3 DEF RerunFlush, Drive
    <2>2. Cmd("Flush", Rerun(run.id), 0) \in ClientFrame /\ Cmd("Flush", Rerun(run.id), 0).of = Rerun(run.id)
        BY <2>1, RerunFrames
    <2>3. Dictation(d) # Rerun(run.id)
        BY DEF Dictation, Rerun
    <2> QED BY <1>0, <1>3, <2>2, <2>3, WroteOrder
<1> QED BY <1>1, <1>2, <1>3, NetMoves

\* A session failed without its Flush being sent leaves nothing due.
LEMMA FailsQuiet ==
    ASSUME QInv, Tidy(net), [Next]_vars, Spoilt, NEW n, Fails(n), NEW d \in Dictations
    PROVE  ~Coming(Line(net'), Dictation(d))
<1>0. IInv /\ Driven /\ Sound(net) /\ desired \in Models /\ dropped \in Nat
    BY DEF QInv, IInv, TypeOK, SettingsOK, ThreadOK
<1>1. InSession /\ tpc' # "flushed" /\ inbox # <<>> /\ Head(inbox).cmd = "Flush"
    BY DEF Fails
<1>2. CASE Blemished
    <2>1. ~Coming(Line(net), Dictation(d))
        BY <1>1, <1>2 DEF Spoilt
    <2> QED BY <1>0, <1>1, <2>1, ComingMoves DEF FlushWritten
<1>3. CASE ~Blemished
    <2>1. session = "active" /\ dropped = 0
        BY <1>0, <1>1, <1>3 DEF Blemished, InSession
    <2>2. FlushFails
        BY <1>0, <2>1 DEF Fails, RerunDrains, Driven, Drive
    <2>3. PICK s \in Send(net, Head(inbox)) : ~s.ok /\ net' = s.net
        BY <2>1, <2>2 DEF FlushFails
    <2>4. Head(inbox) \in ClientFrame
        BY <1>0, <1>1, InboxTypes, CommandTypes
    <2>5. Bare(Line(net'))
        BY <1>0, <2>3, <2>4, SendTidy
    <2> QED BY <2>5, BareComing
<1> QED BY <1>2, <1>3

LEMMA MatchTaken ==
    ASSUME QInv, Tidy(net), [Next]_vars, NEW n, Queued(n), NEW S, S \in Seq(Dictations),
           Slots(n, S), Given(S), Due(S), Spoilt, FlushWritten \/ Fails(n)
    PROVE  (Given(Append(S, n)) /\ Due(Append(S, n)))'
<1> DEFINE T == Append(S, n)
<1>0. IInv /\ Driven
    BY DEF QInv
<1>1. /\ Head(inbox).of = Dictation(n) /\ n \in Dictations /\ InSession
      /\ FlushWritten => results' = results /\ Flushed' = 1
      /\ Fails(n) => results' = Append(results, Failed(Dictation(n))) /\ Flushed' = 0
    BY FlushTaken
<1>2. /\ T \in Seq(Dictations) /\ Len(S) \in Nat /\ Len(T) = Len(S) + 1 /\ T[Len(S) + 1] = n
      /\ \A i \in 1..Len(S) : T[i] = S[i] /\ S[i] \in Dictations
      /\ \A i \in 1..Len(T) : i \in 1..Len(S) \/ i = Len(S) + 1
    <2> HIDE DEF T
    <2>1. S \in Seq(Dictations)
        OBVIOUS
    <2> QED BY <1>1, <2>1, Appends DEF T
<1> HIDE DEF T
<1>3. /\ Len(results) \in Nat /\ Len(results) <= Len(S) /\ results \in Seq(Result)
    BY <1>0, OwingTypes DEF Slots
<1>4. CASE FlushWritten
    <2>1. Given(T)'
        BY <1>1, <1>2, <1>3, <1>4 DEF Given
    <2>2. ASSUME NEW d \in Dictations, Coming(Line(net'), Dictation(d))
          PROVE  \E k \in Len(results') + 1..Len(T) : T[k] = d
        <3>1. CASE Coming(Line(net), Dictation(d))
            <4>1. PICK k \in Len(results) + 1..Len(S) : S[k] = d
                BY <3>1 DEF Due
            <4>2. k \in Len(results') + 1..Len(T) /\ T[k] = d
                BY <1>1, <1>2, <1>3, <1>4, <4>1
            <4> QED BY <4>2
        <3>2. CASE Dictation(d) = Head(inbox).of
            <4>1. d = n
                BY <1>1, <3>2 DEF Dictation
            <4>2. Len(T) \in Len(results') + 1..Len(T) /\ T[Len(T)] = n
                BY <1>1, <1>2, <1>3, <1>4
            <4> QED BY <4>1, <4>2
        <3> QED BY <1>0, <2>2, <3>1, <3>2, ComingMoves
    <2> QED BY <2>1, <2>2 DEF Due, T
<1>5. CASE Fails(n)
    <2>1. Due(T)'
        BY <1>5, FailsQuiet DEF Due
    <2>2. Failed(Dictation(n)) \in Result /\ Failed(Dictation(n)).of = Dictation(n)
        BY <1>1, FailTypes DEF Owner, Dictation, Failed
    <2>3. results' = Append(results, Failed(Dictation(n)))
        BY <1>1, <1>5
    <2> DEFINE x == Failed(Dictation(n))
    <2> HIDE DEF x
    <2>4. /\ \A i \in 1..Len(results') : \/ i \in 1..Len(results) /\ results'[i] = results[i]
                                         \/ i = Len(results) + 1 /\ results'[i] = x
        BY <1>3, <2>2, <2>3, Appends DEF x
    <2>5. \A i \in 1..Len(T) : T[i] <= n
        <3>1. \A i \in 1..Len(S) : S[i] <= n
            BY <1>1, <1>2 DEF Slots, Over
        <3> QED BY <1>1, <1>2, <3>1 DEF Dictations
    <2>6. ASSUME NEW i \in 1..Len(results')
          PROVE  \/ results'[i].of = Lost
                 \/ \E d \in Dictations : results'[i].of = Dictation(d) /\ T[i] <= d
        <3>1. CASE i \in 1..Len(results) /\ results'[i] = results[i]
            BY <1>2, <1>3, <3>1 DEF Given
        <3>2. CASE i = Len(results) + 1 /\ results'[i] = x
            <4>1. i \in 1..Len(T)
                BY <1>2, <1>3, <3>2
            <4> QED BY <1>1, <2>2, <2>5, <3>2, <4>1 DEF x
        <3> QED BY <2>4, <3>1, <3>2
    <2> QED BY <2>1, <2>6 DEF Given, T
<1> QED BY <1>4, <1>5

LEMMA MatchConsumed ==
    ASSUME IInv, NEW n, NEW S, S \in Seq(Dictations), Slots(n, S), Given(S), Due(S),
           FinishReceives, S # <<>>
    PROVE  (Given(Tail(S)) /\ Due(Tail(S)))'
<1> DEFINE T == Tail(S)
<1>1. results # <<>> /\ results' = Tail(results) /\ net' = net
    BY DEF FinishReceives
<1>2. /\ Len(results) \in Nat \ {0} /\ Len(results') = Len(results) - 1
      /\ \A i \in 1..Len(results') : i + 1 \in 1..Len(results) /\ results'[i] = results[i + 1]
    BY <1>1, Tails DEF IInv, TypeOK, ChannelsOK
<1>3. /\ Len(S) \in Nat /\ Len(T) = Len(S) - 1
      /\ \A i \in 1..Len(T) : i + 1 \in 1..Len(S) /\ T[i] = S[i + 1] /\ T[i] \in Dictations
    BY Tails
<1>4. Len(results) <= Len(S)
    BY OwingTypes DEF Slots
<1> HIDE DEF T
<1>5. Given(T)'
    <2> SUFFICES ASSUME NEW i \in 1..Len(results')
                 PROVE  \/ results'[i].of = Lost
                        \/ \E d \in Dictations : results'[i].of = Dictation(d) /\ T[i] <= d
        BY DEF Given
    <2>1. i + 1 \in 1..Len(results) /\ results'[i] = results[i + 1] /\ T[i] = S[i + 1]
        BY <1>2, <1>3, <1>4
    <2> QED BY <2>1 DEF Given
<1>6. Due(T)'
    <2> SUFFICES ASSUME NEW d \in Dictations, Coming(Line(net'), Dictation(d))
                 PROVE  \E k \in Len(results') + 1..Len(T) : T[k] = d
        BY DEF Due
    <2>1. PICK k \in Len(results) + 1..Len(S) : S[k] = d
        BY <1>1 DEF Due
    <2>2. k - 1 \in Len(results') + 1..Len(T) /\ T[k - 1] = d
        BY <1>2, <1>3, <2>1
    <2> QED BY <2>2
<1> QED BY <1>5, <1>6 DEF T

\* The answer read, if it goes to a dictation, is no older than the first place
\* pending, and those still to come are newer.
LEMMA MatchAnswered ==
    ASSUME QInv, Tidy(net), [Next]_vars, Clean', NEW n, Queued(n), NEW S, S \in Seq(Dictations),
           Slots(n, S), Given(S), Due(S), InOrder(Line(net)), Routed,
           NEW c \in DOMAIN net.links, ReadAnswer(c)
    PROVE  (Given(S) /\ Due(S))'
<1>0. /\ IInv /\ Driven /\ Sound(net) /\ results \in Seq(Result)
      /\ Len(results) \in Nat /\ pending \in Nat /\ Len(S) \in Nat
    BY OwingTypes DEF QInv, IInv
<1>1. c = Len(net.links)
    BY SeenMoves DEF Epoch
<1>2. net.links \in Seq(Link) /\ net.links[c] \in Link /\ c \in 1..Len(net.links)
    BY <1>0, LineTypes
<1>3. Line(net) = net.links[c]
    BY <1>1, <1>2 DEF Line
<1>4. PICK res \in Result : /\ Deliver(res)
                            /\ Coming(net.links[c], res.of) /\ Comes(net, res.of)
                            /\ res.of = Head(net.links[c].down).of
    BY <1>0, AnswerCame
<1>5. ASSUME NEW d \in Dictations, Coming(Line(net'), Dictation(d)) PROVE Coming(Line(net), Dictation(d))
    BY <1>0, <1>5, ComingMoves DEF ReadAnswer, FlushWritten, Take, thread
<1>6. CASE results' = results
    BY <1>5, <1>6 DEF Given, Due
<1>7. CASE results' # results
    <2>1. waiter = 0 /\ pending > 0 /\ results' = Append(results, res)
        BY <1>4, <1>7 DEF Deliver
    <2>2. tpc \notin Drive
        BY <1>0, <2>1 DEF Driven
    <2>3. res.of \in Owner
        <3>1. res.of \in Owner \cup {Lost}
            BY DEF Result
        <3>2. Head(net.links[c].down).of \in Owner
            BY <1>0, FrameTypes DEF ReadAnswer, DaemonFrame
        <3> QED BY <1>4, <3>2
    <2>4. Spoken(res.of)
        <3>1. ASSUME NEW r \in Reruns, res.of = Rerun(r) PROVE FALSE
            BY <1>4, <2>2, <3>1 DEF Routed, Drive
        <3> QED BY <2>3, <3>1 DEF Owner, Spoken, Rerun
    <2>5. PICK e \in Dictations : res.of = Dictation(e) /\ res.of.id = e
        BY <2>3, <2>4, SpokenOwner DEF Dictation
    <2>6. PICK j \in Len(results) + 1..Len(S) : S[j] = e
        BY <1>3, <1>4, <2>5 DEF Due
    <2>7. /\ \A i \in 1..Len(results') : \/ i \in 1..Len(results) /\ results'[i] = results[i]
                                         \/ i = Len(results) + 1 /\ results'[i] = res
          /\ Len(results') = Len(results) + 1
        BY <1>0, <2>1, Appends
    <2>8. \A i \in 1..Len(S) : S[i] \in Nat
        <3>1. \A i \in 1..Len(S) : S[i] \in Dictations
            OBVIOUS
        <3> QED BY <3>1 DEF Dictations
    <2>9. S[Len(results) + 1] <= e
        <3>1. CASE j = Len(results) + 1
            BY <1>0, <2>6, <3>1, <2>8
        <3>2. CASE j # Len(results) + 1
            <4>1. Len(results) + 1 \in 1..Len(S) /\ j \in 1..Len(S) /\ Len(results) + 1 < j
                BY <1>0, <3>2
            <4>2. S[Len(results) + 1] < S[j]
                BY <4>1 DEF Slots
            <4> QED BY <2>6, <2>8, <4>1, <4>2
        <3> QED BY <3>1, <3>2
    <2>10. Given(S)'
        <3> SUFFICES ASSUME NEW i \in 1..Len(results')
                     PROVE  \/ results'[i].of = Lost
                            \/ \E d \in Dictations : results'[i].of = Dictation(d) /\ S[i] <= d
            BY DEF Given
        <3>1. CASE i \in 1..Len(results) /\ results'[i] = results[i]
            BY <3>1 DEF Given
        <3>2. CASE i = Len(results) + 1 /\ results'[i] = res
            BY <2>5, <2>9, <3>2
        <3> QED BY <2>7, <3>1, <3>2
    <2>11. ASSUME NEW d \in Dictations, Coming(Line(net'), Dictation(d))
           PROVE  \E k \in Len(results') + 1..Len(S) : S[k] = d
        <3>1. PICK k \in Len(results) + 1..Len(S) : S[k] = d
            BY <1>5, <2>11 DEF Due
        <3>2. e < d
            <4>1. /\ net' = [net EXCEPT !.links[c].down = Tail(@)]
                  /\ net.links[c].down # <<>> /\ Head(net.links[c].down).msg \in {"Final", "Error"}
                BY DEF ReadAnswer
            <4> DEFINE new == Line(net')
            <4>2. new.up = net.links[c].up /\ new.down = Tail(net.links[c].down)
                <5> DEFINE l == [net.links[c] EXCEPT !.down = Tail(@)]
                <5>1. net'.links = [net.links EXCEPT ![c] = l]
                    BY <1>0, <4>1 DEF Sound, Net
                <5>2. l.up = net.links[c].up /\ l.down = Tail(net.links[c].down)
                    BY <1>2 DEF Link
                <5> HIDE DEF l
                <5>3. Len(net'.links) = Len(net.links) /\ net'.links[c] = l
                    BY <1>2, <5>1
                <5>4. Line(net') = l
                    BY <1>1, <1>2, <5>3 DEF Line
                <5> QED BY <5>2, <5>4
            <4>3. Head(net.links[c].down).msg # "Partial" /\ Spoken(Head(net.links[c].down).of)
                BY <1>4, <2>4, <4>1
            <4>4. Coming(new, Dictation(d)) /\ InOrder(net.links[c])
                BY <1>3, <2>11
            <4> HIDE DEF new
            <4>5. Head(net.links[c].down).of.id < d
                BY <1>2, <4>1, <4>2, <4>3, <4>4, FrameRead
            <4> QED BY <1>4, <2>5, <4>5
        <3>3. j < k
            <4>1. j \in 1..Len(S) /\ k \in 1..Len(S)
                BY <1>0
            <4>2. k < j => S[k] < S[j]
                BY <4>1 DEF Slots
            <4> QED BY <2>6, <2>8, <3>1, <3>2, <4>1, <4>2
        <3>4. k \in Len(results') + 1..Len(S)
            BY <1>0, <2>7, <3>3
        <3> QED BY <3>1, <3>4
    <2> QED BY <2>10, <2>11 DEF Due
<1> QED BY <1>6, <1>7

\* Failing what is owed finds nothing due: the stream was read to its end.
LEMMA MatchFailed ==
    ASSUME QInv, Tidy(net), [Next]_vars, Clean', NEW n, Queued(n), NEW S, S \in Seq(Dictations),
           Slots(n, S), Given(S), NEW c \in DOMAIN net.links, FailOwed(c)
    PROVE  (Given(S) /\ Due(S))'
<1>0. /\ IInv /\ Sound(net) /\ results \in Seq(Result) /\ Len(results) \in Nat /\ pending \in Nat
    BY OwingTypes DEF QInv, IInv
<1>1. c = Len(net.links) /\ net.links[c].reader = "failing"
    BY SeenMoves DEF Epoch, FailOwed, ReaderAt
<1>2. Line(net) = net.links[c]
    BY <1>0, <1>1, LineTypes DEF Line
<1>3. ~net.links[c].open
    BY <1>0, <1>1, LinkFacts DEF Tidy
<1>4. Bare(Line(net))
    BY <1>1, <1>2, <1>3 DEF Tidy, Bare
<1>5. ASSUME NEW d \in Dictations PROVE ~Coming(Line(net'), Dictation(d))
    <2>1. ~Coming(Line(net), Dictation(d))
        BY <1>4, BareComing
    <2>2. ~FlushWritten
        <3>1. UNCHANGED thread
            BY DEF FailOwed
        <3> QED BY <3>1 DEF FlushWritten, Take, thread
    <2> QED BY <1>0, <2>1, <2>2, ComingMoves
<1>6. Given(S)'
    <2> DEFINE fails == [i \in 1..pending |-> Failed(Lost)]
    <2>1. results' = results \o fails
        BY DEF FailOwed
    <2>2. fails \in Seq(Result) /\ Len(fails) = pending /\ \A i \in 1..pending : fails[i].of = Lost
        <3>1. Failed(Lost) \in Result /\ Failed(Lost).of = Lost
            BY DEF Failed, Result, Text, Lost
        <3> QED BY <1>0, <3>1
    <2> HIDE DEF fails
    <2>3. \A i \in 1..Len(results \o fails) :
             \/ i \in 1..Len(results) /\ (results \o fails)[i] = results[i]
             \/ (results \o fails)[i].of = Lost
        BY <1>0, <2>2
    <2> QED BY <2>1, <2>3 DEF Given
<1> QED BY <1>5, <1>6 DEF Due

LEMMA MatchKept ==
    ASSUME IInv, Tidy(net), [Next]_vars, NEW S, Given(S), Due(S), results' = results,
           ~FlushWritten
    PROVE  (Given(S) /\ Due(S))'
<1>1. \A d \in Dictations : Coming(Line(net'), Dictation(d)) => Coming(Line(net), Dictation(d))
    BY ComingMoves
<1> QED BY <1>1 DEF Given, Due

\* Every answer is for the place its dictation has.
Filled(n, S) ==
    /\ S \in Seq(Dictations) /\ Slots(n, S)
    /\ Clean => Matched(S)

LEMMA FilledHolds ==
    ASSUME LInv, StaleIsOwed, [Next]_vars, NEW n, Queued(n), NEW n2, Started(n, n2),
           NEW S, Filled(n, S)
    PROVE  \E T : Filled(n2, T)'
<1>0. /\ QInv /\ IInv /\ Driven /\ Tidy(net)
      /\ S \in Seq(Dictations) /\ Slots(n, S)
    BY DEF LInv, QInv, Filled
<1>1. ASSUME Clean' PROVE Matched(S)
    BY <1>0, <1>1, SeenMoves DEF Filled
<1>2. ASSUME Clean' PROVE InOrder(Line(net')) /\ Spoilt' /\ Routed'
    BY <1>0, <1>1, <1>2, OrderHolds, SpoiltHolds, RoutedHolds DEF Matched
<1>3. ASSUME NEW T, T \in Seq(Dictations), Slots(n2, T)', Clean' => (Given(T) /\ Due(T))'
      PROVE  Filled(n2, T)'
    BY <1>2, <1>3 DEF Filled, Matched
<1>4. CASE FlushWritten \/ Fails(n)
    <2>1. Append(S, n) \in Seq(Dictations) /\ Slots(n2, Append(S, n))'
        BY <1>0, <1>4, SlotsTaken
    <2>2. Clean' => (Given(Append(S, n)) /\ Due(Append(S, n)))'
        BY <1>0, <1>1, <1>4, MatchTaken DEF Matched
    <2> QED BY <1>3, <2>1, <2>2
<1>5. CASE FinishReceives
    <2>1. S # <<>> /\ Tail(S) \in Seq(Dictations) /\ Slots(n2, Tail(S))'
        BY <1>0, <1>5, SlotsConsumed
    <2>2. Clean' => (Given(Tail(S)) /\ Due(Tail(S)))'
        BY <1>0, <1>1, <1>5, <2>1, MatchConsumed DEF Matched
    <2> QED BY <1>3, <2>1, <2>2
<1>6. ASSUME NEW c \in DOMAIN net.links, ReadAnswer(c) \/ FailOwed(c)
      PROVE  \E T : Filled(n2, T)'
    <2>1. /\ UNCHANGED inbox
          /\ Len(results') + pending' + Flushed' = Len(results) + pending + Flushed
        BY <1>0, <1>6, AnswerCounts
    <2>2. Slots(n2, S)'
        BY <1>0, <2>1, SlotsKept
    <2>3. Clean' => (Given(S) /\ Due(S))'
        BY <1>0, <1>1, <1>6, MatchAnswered, MatchFailed DEF Matched
    <2> QED BY <1>0, <1>3, <2>2, <2>3
<1>7. CASE /\ results' = results /\ pending' + Flushed' = pending + Flushed
           /\ \/ UNCHANGED inbox
              \/ Feeds
              \/ inbox # <<>> /\ inbox' = Tail(inbox) /\ Head(inbox).cmd # "Flush"
           /\ ~FlushWritten
    <2>1. /\ Len(results) \in Nat /\ pending \in Nat /\ Flushed \in Nat
          /\ pending' \in Nat /\ Flushed' \in Nat
        <3>1. IInv'
            BY <1>0, StepIInv
        <3> QED BY <1>0, <3>1, OwingTypes DEF IInv, TypeOK, LedgerOK, Flushed
    <2>2. Len(results') + pending' + Flushed' = Len(results) + pending + Flushed
        <3>1. Len(results') = Len(results) /\ pending' + Flushed' = pending + Flushed
            BY <1>7
        <3>2. PICK a \in Nat, b \in Nat, c \in Nat, d \in Nat, e \in Nat :
                  a = Len(results) /\ b = pending /\ c = Flushed /\ d = pending' /\ e = Flushed'
            BY <2>1
        <3>3. a + d + e = a + b + c
            <4>1. d + e = b + c
                BY <3>1, <3>2
            <4> QED BY <4>1
        <3> QED BY <3>1, <3>2, <3>3
    <2>3. Slots(n2, S)'
        BY <1>0, <1>7, <2>2, SlotsKept
    <2>4. Clean' => (Given(S) /\ Due(S))'
        BY <1>0, <1>1, <1>7, MatchKept DEF Matched
    <2> QED BY <1>0, <1>3, <2>3, <2>4
<1> QED BY <1>0, <1>4, <1>5, <1>6, <1>7, SlotMoves

\* The whole invariant: besides the counting and the losses, some dictations S
\* are those whose results are owed.
MInv ==
    /\ QInv /\ Tidy(net) /\ StaleIsOwed
    /\ \E n : Queued(n) /\ Loss(n) /\ \E S : Filled(n, S)

LEMMA StepMInv == MInv /\ [Next]_vars => MInv'
<1> SUFFICES ASSUME MInv, [Next]_vars PROVE MInv'
    OBVIOUS
<1>0. QInv /\ Tidy(net) /\ StaleIsOwed /\ IInv /\ Driven
    BY DEF MInv, QInv
<1>1. PICK n : Queued(n) /\ Loss(n) /\ \E S : Filled(n, S)
    BY DEF MInv
<1>2. PICK S : Filled(n, S)
    BY <1>1
<1>3. PICK n2 : Started(n, n2)
    BY DEF Started
<1>4. QInv' /\ IInv' /\ Tidy(net)' /\ StaleIsOwed'
    BY <1>0, StepQInv, StepIInv, TidyHolds, StaleHolds
<1>5. LInv
    BY <1>0, <1>1 DEF LInv
<1>6. Queued(n2)'
    BY <1>0, <1>1, <1>3, <1>4, QueuedHolds
<1>7. Loss(n2)'
    BY <1>0, <1>1, <1>3, LossHolds
<1>8. \E T : Filled(n2, T)'
    BY <1>0, <1>1, <1>2, <1>3, <1>5, FilledHolds
<1> QED BY <1>4, <1>6, <1>7, <1>8 DEF MInv

LEMMA InitMInv == Init => MInv
<1> SUFFICES ASSUME Init PROVE MInv
    OBVIOUS
<1>1. QInv /\ Tidy(net) /\ StaleIsOwed /\ \A o : ~Comes(net, o)
    BY InitQInv, InitTidy, InitOwed
<1>2. Queued(0)
    BY DEF Init, ClientInit, ThreadInit, Queued, InSession, Orderly, Ending, Begins, Ends
<1>3. Loss(0)
    BY <1>1 DEF Init, ClientInit, Loss
<1>4. Slots(0, <<>>)
    BY DEF Init, ClientInit, ThreadInit, LedgerInit, Slots, Flushed, Awaits
<1>5. Matched(<<>>)
    <2>1. \A o : ~Coming(Line(net), o)
        BY DEF Init, ThreadInit, Line, NoStream, FreshLink, Coming
    <2>2. InOrder(Line(net))
        BY DEF Init, ThreadInit, Line, NoStream, FreshLink, InOrder
    <2>3. results = <<>> /\ answers = <<>>
        BY DEF Init, ClientInit, LedgerInit
    <2> QED BY <1>1, <2>1, <2>2, <2>3 DEF Matched, Given, Due, Spoilt, Routed
<1>6. Filled(0, <<>>)
    BY <1>4, <1>5 DEF Filled
<1> QED BY <1>1, <1>2, <1>3, <1>6 DEF MInv

\* What finish accepts: nothing stale is left, so the one place is the
\* dictation's own, and the result in it is no older and of no dictation begun.
LEMMA OwnHeard ==
    ASSUME MInv, Clean, FinishReceives, stale = 0
    PROVE  Head(results).of \in {Dictation(cur), Lost}
<1>0. IInv /\ QInv /\ StaleIsOwed /\ ctl = "waiting" /\ results # <<>>
    BY DEF MInv, QInv, FinishReceives
<1>1. PICK n : Queued(n) /\ Loss(n) /\ \E S : Filled(n, S)
    BY DEF MInv
<1>2. PICK S : Filled(n, S)
    BY <1>1
<1>3. S \in Seq(Dictations) /\ Slots(n, S) /\ Matched(S)
    BY <1>2 DEF Filled
<1>4. /\ Len(results) \in Nat \ {0} /\ pending \in Nat /\ Flushed \in Nat /\ FlushesIn(inbox) \in Nat
      /\ inbox \in Seq(Command) /\ results \in Seq(Result)
    <2>1. Len(results) # 0
        BY <1>0, ResultCounts
    <2> QED BY <1>0, <2>1, OwingTypes
<1>5. FlushesIn(inbox) + Flushed + pending + Len(results) = 1
    BY <1>0, StaleIsOwing DEF Owing, Waiting
<1>6. FlushesIn(inbox) = 0 /\ Len(results) = 1 /\ Flushed = 0 /\ pending = 0
    <2>1. PICK a \in Nat, b \in Nat, c \in Nat, d \in Nat \ {0} :
              a = FlushesIn(inbox) /\ b = Flushed /\ c = pending /\ d = Len(results)
        BY <1>4
    <2>2. a = 0 /\ b = 0 /\ c = 0 /\ d = 1
        BY <1>5, <2>1
    <2> QED BY <2>1, <2>2
<1>7. Len(S) = 1
    BY <1>3, <1>6 DEF Slots
<1>8. S[1] = cur
    BY <1>0, <1>3, <1>4, <1>6, <1>7, NoFlush DEF Slots, Awaits
<1>9. Head(results) = results[1] /\ 1 \in 1..Len(results)
    BY <1>0, <1>4, Tails
<1>10. CASE results[1].of = Lost
    BY <1>9, <1>10
<1>11. ASSUME NEW d \in Dictations, results[1].of = Dictation(d), cur <= d
       PROVE  Head(results).of = Dictation(cur)
    <2>1. Over(n, d)
        BY <1>1, <1>9, <1>11 DEF Loss, Told
    <2>2. n <= cur /\ cur \in Nat /\ d \in Nat /\ n \in Nat
        BY <1>0, <1>1, QueuedTypes DEF Dictations
    <2>3. d = cur
        BY <1>11, <2>1, <2>2 DEF Over
    <2> QED BY <1>9, <1>11, <2>3
<1> QED BY <1>3, <1>8, <1>9, <1>10, <1>11 DEF Matched, Given

\* However dictations, timeouts, lost connections and reruns interleave, for any
\* number of them: what finish returns for a dictation is its own result or a
\* lost connection's, never an earlier dictation's, unless an answer was taken
\* from a connection already replaced or a rerun was abandoned with its Flush
\* unanswered (finish, deliver, fail_pending).
THEOREM OwnTextHeard == Spec => []OwnText
<1>1. ASSUME MInv, OwnText, [Next]_vars PROVE OwnText'
    <2>0. IInv /\ QInv
        BY <1>1 DEF MInv, QInv
    <2>1. heard \in [Dictations -> SUBSET Result]
        BY <2>0 DEF IInv, TypeOK, ControlOK
    <2> SUFFICES ASSUME Clean', NEW d \in Dictations, NEW res \in heard'[d]
                 PROVE  res.of \in {Dictation(d), Lost}
        BY DEF OwnText, Clean
    <2>2. Clean
        BY <1>1, <2>0, SeenMoves
    <2>3. CASE heard' = heard
        BY <1>1, <2>2, <2>3 DEF OwnText, Clean
    <2>4. CASE FinishReceives /\ heard' # heard
        <3>1. stale = 0 /\ heard' = [heard EXCEPT ![cur] = {Head(results)}]
            BY <2>0, <2>4 DEF FinishReceives, IInv, TypeOK, ControlOK
        <3>2. Head(results).of \in {Dictation(cur), Lost}
            BY <1>1, <2>2, <2>4, <3>1, OwnHeard
        <3>3. CASE d = cur
            BY <2>1, <3>1, <3>2, <3>3
        <3>4. CASE d # cur
            <4>1. res \in heard[d]
                BY <2>1, <3>1, <3>4
            <4> QED BY <1>1, <2>2, <4>1 DEF OwnText, Clean
        <3> QED BY <3>3, <3>4
    <2>5. heard' = heard \/ FinishReceives
        <3>1. PICK n : Queued(n)
            BY <2>0 DEF QInv
        <3>2. (Fails(n) \/ \E c \in DOMAIN net.links : ReadAnswer(c) \/ FailOwed(c)) => heard' = heard
            BY DEF Fails, ReadAnswer, FailOwed, control
        <3> QED BY <1>1, <2>0, <3>1, <3>2, ResultMoves
    <2> QED BY <2>3, <2>4, <2>5
<1>2. Init => OwnText
    BY DEF Init, ClientInit, OwnText
<1>3. MInv /\ OwnText /\ [Next]_vars => MInv' /\ OwnText'
    BY <1>1, StepMInv
<1> QED BY <1>2, <1>3, InitMInv, PTL DEF Spec

\* How a rerun comes to be answered.
LEMMA ReplyMoves ==
    ASSUME QInv, [Next]_vars, NEW r \in Reruns, replies'[r].status = "answered"
    PROVE  \/ replies'[r] = replies[r]
           \/ /\ RerunAnswered /\ r = run.id /\ answers # <<>>
              /\ Head(answers).kind = "final" /\ replies'[r].of = Head(answers).of
<1> DEFINE Same == replies'[r] = replies[r]
<1>0. /\ IInv /\ replies \in [Reruns -> Reply]
    BY DEF QInv, IInv, TypeOK, SettingsOK
<1>1. ASSUME NEW q, NEW status, NEW o, NEW parts, Answered(q, status, o, parts)
      PROVE  Same \/ (r = q /\ status = "answered" /\ replies'[r].of = o)
    BY <1>0, <1>1 DEF Answered
<1>2. UNCHANGED replies => Same
    OBVIOUS
<1>3. CASE Control
    BY <1>2, <1>3 DEF Control, Press, Speak, Release, CancelDictation, FinishReceives,
        FinishTimesOut, settings
<1>4. CASE Settings
    <2>1. ASSUME NEW q \in Reruns, RequestRerun(q) PROVE Same
        BY <1>0, <2>1 DEF RequestRerun, Reply
    <2> QED BY <1>2, <1>4, <2>1 DEF Settings, SwitchModels
<1>5. CASE Commands
    BY <1>2, <1>5 DEF Commands, Boot, HandleStart, HandleChunk, HandleCancel, FlushFails, FlushWritten,
            BeginFlush, RefreshModels, settings
<1>6. CASE Driving
    <2>1. CASE RefuseRerun
        BY <1>1, <2>1 DEF RefuseRerun
    <2>2. CASE BeginRerun \/ RerunArm
        BY <1>2, <2>2 DEF BeginRerun, RerunArm, settings
    <2>3. CASE RerunDrains
        <3>1. UNCHANGED replies \/ \E q, o : Answered(q, "refused", o, <<>>)
            BY <2>3 DEF RerunDrains
        <3> QED BY <1>1, <1>2, <3>1
    <2>4. CASE RerunStart \/ RerunChunk \/ RerunFlush \/ RerunAbandoned
        <3>1. UNCHANGED replies \/ GiveUp
            BY <2>4 DEF RerunStart, RerunChunk, RerunFlush, RerunAbandoned
        <3>2. GiveUp => Answered(run.id, "refused", Rerun(run.id), <<>>)
            BY DEF GiveUp, EndRerun
        <3> QED BY <1>1, <1>2, <3>1, <3>2
    <2>5. CASE RerunAnswered
        <3>1. CASE GiveUp
            <4>1. Answered(run.id, "refused", Rerun(run.id), <<>>)
                BY <3>1 DEF GiveUp, EndRerun
            <4> QED BY <1>1, <4>1
        <3>2. CASE Head(answers).kind = "final" /\ EndRerun("answered", Head(answers).of, raw)
            <4>1. Answered(run.id, "answered", Head(answers).of, raw)
                BY <3>2 DEF EndRerun
            <4>2. answers # <<>>
                BY <2>5 DEF RerunAnswered
            <4> QED BY <1>1, <2>5, <3>2, <4>1, <4>2
        <3> QED BY <2>5, <3>1, <3>2 DEF RerunAnswered
    <2> QED BY <1>6, <2>1, <2>2, <2>3, <2>4, <2>5 DEF Driving
<1>7. ASSUME NEW c, Reader(c) PROVE Same
    BY <1>7 DEF Reader, ReadPartial, ReadAnswer, ReadEnd, MarkDead, CheckEpoch, FailOwed, settings
<1>8. ASSUME NEW c, DaemonHandles(c) \/ DaemonFails(c) \/ DaemonCloses(c) PROVE Same
    BY <1>8 DEF DaemonHandles, DaemonFails, DaemonCloses, settings
<1>9. CASE UNCHANGED vars
    BY <1>9 DEF vars, settings
<1> QED BY <1>3, <1>4, <1>5, <1>6, <1>7, <1>8, <1>9 DEF Next

\* For any number of reruns, dictations and lost connections: a rerun is answered
\* with the text of its own clip, unless some rerun before was abandoned with its
\* Flush unanswered, or an answer was taken from a connection already replaced
\* (begin_reprocess_flush, deliver).
THEOREM RerunOwnTextHeard == Spec => []RerunOwnText
<1>1. ASSUME MInv, RerunOwnText, [Next]_vars PROVE RerunOwnText'
    <2>0. IInv /\ QInv /\ answers \in Seq(Result)
        BY <1>1 DEF MInv, QInv, IInv, TypeOK, LedgerOK
    <2> SUFFICES ASSUME Clean', NEW r \in Reruns, replies'[r].status = "answered"
                 PROVE  replies'[r].of = Rerun(r)
        BY DEF RerunOwnText, Clean
    <2>1. Clean
        BY <1>1, <2>0, SeenMoves
    <2>2. CASE replies'[r] = replies[r]
        BY <1>1, <2>1, <2>2 DEF RerunOwnText, Clean
    <2>3. CASE /\ RerunAnswered /\ r = run.id /\ answers # <<>>
               /\ Head(answers).kind = "final" /\ replies'[r].of = Head(answers).of
        <3>1. Routed
            BY <1>1, <2>1 DEF MInv, Filled, Matched
        <3>2. 1 \in 1..Len(answers) /\ Head(answers) = answers[1]
            BY <2>0, <2>3, Tails
        <3> QED BY <2>3, <3>1, <3>2 DEF Routed
    <2> QED BY <1>1, <2>0, <2>2, <2>3, ReplyMoves
<1>2. Init => RerunOwnText
    BY DEF Init, ClientInit, RerunOwnText
<1>3. MInv /\ RerunOwnText /\ [Next]_vars => MInv' /\ RerunOwnText'
    BY <1>1, StepMInv
<1> QED BY <1>2, <1>3, InitMInv, PTL DEF Spec
=============================================================================
