# Formal models of diktafon

TLA+ models of diktafon, a push-to-talk dictation program for macOS: a client
(`crates/diktafon`: hotkey, microphone, pill, settings) and a resident daemon
(`crates/diktafond`: models, speech recognition, polishing) over a Unix socket
(`crates/protocol`). Every definition is written from the Rust sources;
`PROJECT.json` names the lines. TLC checks the models on small instances, TLAPS
proves theorems about eleven of them for all instances.

- [The system](#the-system): its parts, their state, what is hard
- [Modules](#modules): which models what, and how it corresponds to the code
- [Runs](#runs): what is checked, with which bounds and which fairness
- [Findings](#findings) and [observations](#observations)
- [Proofs](#proofs)
- [Plan](#plan) and [what is not modelled](#not-modelled)

## The system

| component | code | state | operations | what makes it correct |
|---|---|---|---|---|
| dictation lifecycle | `session.rs`, `main.rs`, `dictation.rs`, `muting.rs`, the monitor in `capture.rs` | live dictation, hotkey and Escape registration, phase, muted device | press, release, cancel, rebind, apply a phase event | sessions are framed; pill, Escape and playback return to rest |
| pasting, pill | `paste.rs`, `pill.rs` | clipboard, outcome, pill windows | borrow, post keys, restore; open, hold, supersede | the clipboard comes back; the pill tells how it ended, and every error is seen |
| client transport | `transport.rs` | connection and epoch, `FlushLedger`, session state, rerun routing, `stale_results` | Start, Chunk, Flush, Cancel, Reprocess, finish, reader events, model refresh | a dictation gets its own text, or an error |
| daemon serving | `daemon.rs` | startup clients, client being served, cancel and aborted counts | accept, handshake, handover, forward, relay, reset, exit | each client has a session of its own; no silent one keeps the others out |
| inference worker | `inference.rs`, `llm.rs`, `transcript.rs` | the session's text, error, counts; loaded models | Start, Chunk, Flush (polish, record, answer), Cancel, idle exit | no words are invented or cut |
| model provisioning | `fetch.rs`, `manifest.rs` | partial files, staging and final directories | resume, retry, verify, stage, promote | only verified files are installed, directories whole, in the end all of them |
| audio capture | `capture.rs` | device, VAD, resampler, pieces | open, rebuild, push a frame, cut, group, flush | no speech is lost or doubled; a dead device fails once |
| supervision, ownership | `daemon_process.rs`, `transport.rs`, `daemon.rs`, `status.rs` | socket, pid and status files, spawned child, backoff | probe, bind, spawn, greet, retire, remove | the serving daemon owns its files; a model switch takes effect |
| history and recordings | `history.rs`, `recordings.rs`, `playback.rs`, `settings.rs` | a JSON-lines file, a directory of clips, the pane's rows | save, prune, append, play, rerun, adopt, delete | only age and the user remove anything; what sounds can be stopped |
| configuration, onboarding, rebinding | `config.rs`, `onboarding.rs`, `permissions.rs`, `settings.rs`, `main.rs` | `config.json`, settings in memory, rows, registered chords, onboarding step | launch, select, record a chord, grant, remember | models fit the language; one chord is heard; a restart keeps the settings |
| wire protocol, system services, web service, scripts | the rest | none of their own | | |

How they interact. Key events reach the control thread through a channel, one
at a time. A press sends `Start`, opens the microphone and spawns a monitor
thread, which sends `Chunk`s and at last one `Flush` or `Cancel`; all of it goes
through one channel to the transport thread, which owns the connection. Each
connection has a reader thread, and transport and readers share the ledger of
what is owed. The control thread blocks in `finish` for the result, pastes it
through a borrowed clipboard, and tells the main thread by phase events, which
open and close the pill. On the other side the daemon serves one client at a
time: its main thread forwards frames to the one worker, a relay thread carries
the worker's events back, and between clients the main thread resets the worker.
The settings window asks for reruns of recordings and switches models, both
through the transport, and shares the history file with the daemon, without a
lock. Client and daemon find each other through files: the socket, the pid file
and the status file.

What is hard. Replies are matched to dictations by order and counting only, over
connections that die and are replaced while old readers still run; waits time out
and their answers come later. One worker with session state serves mutually
unaware clients. Daemons that are spawned, refused, retired and killed by anybody
who can read the pid file pass a socket path among them. The user interface
follows the control thread through asynchronous phase events while it registers
global hot keys. Downloads are resumed from whatever a kill or a power loss left.
Files are rewritten by one process while another appends. `PROJECT.json` lists 40
of these hazards, each at its line, with the properties that
cover it and what of it they leave out.

## Modules

| module | models | checked by |
|---|---|---|
| `Transport` | control thread (reduced to press, speak, release, cancel, finish), settings window, transport thread, readers, and a per-connection daemon session | `transport_sessions`, `transport_truncation` |
| `DaemonServe` | clients, daemon main thread, startup threads, relay, worker | `daemon_service` |
| `SessionService` | abstract: what the daemon promises, a private session per client | property `Implements` of `DaemonServe` |
| `Dictations` | keys, settings, control thread, monitor thread, phase events, playback | through `Feedback` |
| `Feedback` | `Dictations` composed with the answer, the paste, the clipboard and the pill windows | `dictation_gestures` |
| `Capture` | one recording: device, stopping, resampler, chunker, grouper | `capture_session` |
| `Microphone` | the recorder's device over several sessions | `microphone`, `microphone_rate` |
| `Provisioning` | fetching, verifying, staging and promoting of the selected models | through `Inference` |
| `ModelStore` | abstract: what provisioning promises of the models directory | property `Implements` of `Provisioning` |
| `Catalog` | the model catalog, its validation and selection | through `Inference` |
| `Inference` | `Provisioning` and `Catalog` composed with the worker: loading, transcribing, polishing, recording, answering | `inference` |
| `Ownership` | clients and daemons around the socket, pid and status files | `ownership`, `ownership_race` |
| `Archive` | recordings, history file and History pane | `archive` |
| `Preferences` | `config.json`, settings window, chord recording, onboarding | `preferences` |
| `X_proofs` | theorems about `X`, for `Transport`, `DaemonServe`, `Capture` (with those about `Microphone`), `Inference` (with those about `Provisioning`), `Preferences`, `Ownership`, `Archive` and `Feedback` | TLAPS |
| `MCX` | the instance of `X` for TLC | |

How they fit together. The daemon side of `Transport` is `SessionService` seen
from one client (frames in order, one answer per `Flush`), which `DaemonServe`
implements. `Dictations` shows that the transport is fed framed sessions and
`finish` is called once per `Flush`, which is how `Transport` drives its control
thread; `Capture` opens up what `Dictations` sees of the monitor thread (chunks,
then one `Flush` or `Cancel`), and `Microphone` what it sees of opening the device
(a choice between unavailable, silent and live). Connecting, which `Transport`
takes for one choice between success and failure, is `Ownership`. `DaemonServe`'s
worker knows whose session it serves; `Inference` knows what is done with its
words. The retained clip of a release and its history entry are in `Archive`.

### Transport

One generation of the connection is a `Link` in `net.links`: what each end has
written, whether the daemon still serves it, the speech its session holds, and
how far its reader thread is. `net.links[c]` has epoch `c`, so `Len(net.links)` is
`FlushLedger.epoch`; `drop_conn` also bumps the epoch and appends an empty
generation. `net.mark` is `conn_dead` (epoch + 1, 0 for none).

Each command of `Transport::run` is one action (`HandleStart`, `HandleChunk`,
`HandleCancel`, `FlushFails`, `FlushWritten`), with the connection attempts it
makes inside; the refresh that ends each loop turn is `RefreshModels`, taken from
`tpc = "tail"` before the next command. The code is split exactly where another
thread can come in between: after a `Flush` is written and before `begin_flush`
(`BeginFlush`), between a reader's epoch check and what it does about it
(`MarkDead`, `CheckEpoch`, `FailOwed`), and at each send of a rerun.

Chunks, answers and results carry, as history, whose speech they are. `seen`
remembers what properties need: that a chunk could not be written (`lost`), that one
was written to a connection that was then replaced (`cut`), that an answer was read
by a superseded reader, or a rerun was given up with its answer still to come. The
last two are exceptions in `OwnText` and `RerunOwnText` because the code does
misdeliver then (see the observations). They are global: once either happened the
two properties say nothing more, of any dictation or rerun.

### DaemonServe and SessionService

Sockets hold what the client has written and the daemon has not read, and what
the daemon has written. Clients are not trusted to follow the protocol: after a
first frame from `Greetings` they send any of `Commands` in any order and leave at
any point. Timeouts (`HANDSHAKE_TIMEOUT`, `SERVE_IDLE_TIMEOUT`,
`SERVE_WRITE_TIMEOUT`, `RESET_TIMEOUT`) are choices that may be taken at any moment
in which the wait they bound goes on. A `Flush` is handled in stages, because the
client can see polishing before the answer and the history entry is appended
before the `Final`. Frames in the worker's queue and events on the way back carry,
as history, whose they are; the code's messages do not.

The refinement mapping gives a client the worker's state, queue and events for
as long as it is the served one and its relay runs. Once its connection is over
it is `closed`: what the worker still does with its frames is then invisible, and
the reset has to make sure that it ends before the next client's session begins.
That is what `Implements` checks, with `UnackedAreCounted` as the reason it holds.

### Dictations and Feedback

A key event is handled to its end before the next, but its steps interleave with
the monitor thread, the phase events on their way to the main thread, and the
user. `wire` is the command channel as the transport sees it: a session open or
closed, or "broken" once a command came that does not fit, and the flushes `finish`
has yet to take the result of. The recorder may fail to open, deliver no samples
in time, or go live. `blind` remembers that a hotkey capture began while the phase
the settings window goes by was behind the keys: the guard at `settings.rs`
1431-1434 is meant to keep a held chord from being unregistered and cannot in that
window. The next press of the chord resets it.

`Feedback` EXTENDS `Dictations` and takes each of its steps; those that end a
dictation also say how (`verdicts`, the payload of `SessionEnded`), and
`Apply` runs the pill's observer after the phase changed. `answer` is where
`release` stands between `finish` and that event: a text is pasted by borrowing
the clipboard (`FinishReturns`), posting Cmd+V (`PostKeys`) and giving the clipboard
back (`Restored`), each of which may fail, while the user may copy something
(`Copies`). `clip.users` is the last thing the user copied and `clip.meddled` that it
was copied while the clipboard was borrowed, or that giving it back failed; `typed`
that keys were posted for the last dictation pressed. A pill may fail to open; one
that is fading out is as good as removed.

Assumptions about the environment: the OS reports the release of a chord only if
it saw it go down while registered and it still is; the user does not change the
mute flag of the very device a running dictation has muted (the flag on its own
cannot tell who set it); refusals of registrations are in `Preferences`; Escape can
always be registered.

### Capture

A sample is its position in the resampled stream, so that "sent twice" and "left
out" can be told. The monitor's tick is split where the other threads come in: it
reads `stop` (`ReadStop`), locks the buffer (`Drain`), and pushes one frame after
the other (`PushFrame`, `PushUnheard` when the detector fails); `Session::stop` is
split into dropping the stream (`DropStream`) and setting the flag (`SetStop`). A
forced cut may fall in the middle of any window `quietest_point` compares, as the
loudness of speech is not modelled.

`SmoothedVad` belongs to a library. The module has of it what `capture.rs` and its
tests rely on, and leaves open whether voiced frames and frames the detector
failed on enter its prefill ring; the part of `SpeechIntact` that nothing is sent
twice is claimed for sessions without such a failure. `CaptureAssumption` names
what makes `Overlap` and the sizes right: the hangover fills the ring, a short
held segment with its prefill stays below the limit, and a window fits between a
minimal chunk and the limit. The real values satisfy it. A piece may end up over
`max_piece_secs` by less than one frame, the tail that `finish` adds; `PieceSizes`
says so.

### Microphone

A handle is one connection of a device: after a reconnection the old handle is
dead though the device's name is present, and the rate may differ. `Press` is
`start` up to the decision whether the device in hand is `Stale`; `Open`,
`OpenFails`, `MakeResampler`, `Play`, `PlayFails` are the rest of `start` with
`ensure_input` and `open_stream`'s second attempt (`again`), split where the world
outside may change. `failed` is `stream_failed`, set by the error callback
(`Unplug`, which may also go unreported) and by `wait_until_live` giving up
(`NoSamples`). `blamed`, `steady` and `kept` are history: which handles have failed
since they were opened, that nothing changed since the press, and that reopening
failed in this session.

### Provisioning, ModelStore, Catalog and Inference

`Provisioning` walks `Selected`, the files of the two selected models, as
`ensure_files` does. Each has two places, final and staging (`<dir>.downloading`),
and at each a complete file (`disk`) and a `.partial` (its length and whether its
bytes are a prefix of what the manifest names). `fetch`'s attempts are
`AttemptVerifies` and `AttemptRequests`; the replies of a server and the ways a
body ends are actions of their own, and `Again` and `GiveUp` are the two kinds of
failure, worth a retry or `Permanent`. `Promote` and `RemoveStaging` are
`promote_completed_directories`, a directory at a time, because the daemon may be
killed in between. Kills, losses of power (which may corrupt a partial), updates
of the program (after which a partial is of another file) and deletions by the user
are mishaps. The mapping to `ModelStore` looks only at final places: a name changes
by one verified file, a directory appears whole, and models are loaded only when
complete.

`Catalog` is the pure part of `manifest.rs`: `ValidCatalog` is `validate_catalog`,
`SelectedFiles` what a selection downloads, `ModelPath` what a backend is handed. A
path is the sequence of its components. `CatalogAssumption` is what the unit test of
the bundled catalog checks.

`Inference` EXTENDS both. The daemon is up while `step = "ready"`, so a kill at any
moment also ends the worker's session (`Survives`). A chunk is the length of its
audio and a text from `Texts`; `WordsLeft` is `collapse_word_loops`. Recognizer and
language model are choices over their outcomes, errors and panics included; what the
code decides from those is modelled: the counts of speech and words and when
they are reset, which answers are dropped, when polishing is skipped or begun
(`Fits` is the budget of `llm.rs`), the decoding loop, the history entry before the
answer.

### Ownership

Daemons are numbered in the order they are spawned; the number is the pid. `path`,
`pidfile` and `status` say whose socket is bound and who wrote the other two files.
A daemon's life is `stage`: `checking` the socket, removing a `stale` one, `binding`,
`bound`, `named` (files written), `loading` (signal handler installed), `ready`, and on a
signal `ending`, `closing`, `exiting`: each step of `run` and of
`remove_socket_on_termination` at which another process can see the files is an
action. A client is its transport thread: `connecting`, `greeting`, `retiring`,
`spawning`, `flushed` (a Flush written and not counted), with the
Supervisor's child and cooldown, the backoff, the retire-once flag and the selection it has observed. Of its sessions there is what
keeps a switch of models waiting, as `refresh_models_if_idle` refuses then: the
session's state (`session`) and whether the ledger has a Flush pending (`owes`). A Flush
counted after its reader had failed all that was pending is `orphaned`: nothing
answers it until a session replaces the connection. Daemons may also be started by
others (`StartedElsewhere`); `foreign` remembers which, and `raced` that two daemons
found the same stale socket file. `DaemonStatus` is what the
windows show. The initial states are those a client can find: nothing, files left
by a crash, a daemon of this or another build, with these or other models.

### Archive

Dictation `n` has clip `n`, and the daemon records it with whatever second the wall
clock shows, in no order; all dictations say the same words, the worst case for
`rewrite_matching`, which goes by the second and the texts and takes the newest line
that matches. The three writers run in steps: `recordings::save` writes, lists and
prunes on the control thread; the daemon appends a line at any time after the
release; the pane's delete and adopt-rerun remove the clip, read the file, and
rename a rewritten one over it. Every step may fail, and the client may die between
two. `saved`, `removed`, `erased`, `recorded`, `rewrites` and `raced` are history for
the properties: `rewrites` has each rewrite's row and the line it changed, `raced`
the entries appended between a read and its rename, which the rename loses.

### Preferences

`file` is `config.json`, whole or unreadable (`NoFile`): `fs::write` empties it
before it writes, so a crash or a full disk leaves nothing. `Healed` is what `main`
makes of it, `Settled` what `SettingsWindow::save` makes of the rows, with
`normalize_language`, `models()` and `match_models_to_language` in the order the code
calls them. `registered` are the chords the system delivers, changed only by
`suspend`, `resume` and `commit`, each of which the system may refuse: a chord it would
not unregister is `stuck` and stays registered beside the next. `refused` is that
`resume` failed, `strayed` that the chord in use could not be saved. The
onboarding window and the settings window can be open at once, each with its own
copy of what it read; `step`, `Act`, `Observe` and `Remembered` are the onboarding
flow, over permissions that change at any time.

## Runs

| run | properties | bounds | states |
|---|---|---|---|
| `transport_sessions` | `StaleIsOwed`, `HeardWhole`, `DeadMarkIsTrue`, `OwnText`, `RerunOwnText`, `IdleWhenQuiet`, `RerunReplied` | 2 dictations, the first of up to 2 chunks, 1 rerun of 1, 2 models, 1 fault | 2.4 million |
| `transport_truncation` | `NothingTruncated` (violated) | 1 dictation of 2 chunks, 1 fault | |
| `daemon_service` | `UnackedAreCounted`, `HistoryIsOneClients`, `Implements`, `HandoverCompletes`, `EveryoneServed` | 2 clients, one of up to 3 frames and one of 2 | 0.57 million |
| `dictation_gestures` | `SessionsFramed`, `PillTellsTheTruth`, `PlaybackRestored`, `HoldHasItsKey`, `BloomMeansWords`, `ClipboardGivenBack`, `OneStandingPill`, `ErrorIsSeen`, `PillComesToRest` | 2 presses, 1 Escape, 1 chunk, 1 change, 2 devices | 1.4 million |
| `capture_session` | `SpeechIntact`, `PiecesFit`, `LastWordHeard` | 13 frames of 2 samples, 3 deliveries, 1 detector failure | 3.7 million |
| `inference` | `OnlyVerified`, `ContextHolds`, `NothingInvented`, `Implements`, `ProvisionedInTheEnd` | a directory of 2 files and a loose file, 4 faults, 3 mishaps; 2 sessions of 2 chunks | 0.10 million |
| `archive` | `NewestKept`, `DeletionIsExact`, `StopButtonShown` | 2 dictations, 2 seconds, 1 clip kept, 2 rows, 1 mishap | 1.7 million |
| `ownership` | `ServingOwnsItsFiles`, `SwitchTakesEffect` | 1 client, 5 daemons, 2 models, 1 fault, 2 switches; or 1 of the daemons somebody else's | 0.72 million |
| `ownership_race` | `NoneIsUnlinked` (violated) | 2 clients, 2 daemons over a crash's files | |
| `preferences` | `LanguagesFit`, `OneChordHeard`, `OnboardingNeverReturns`, `RestartKeepsSettings` | 3 languages, 3+3 models, 2 chords, any file, 1 mishap | 0.58 million |
| `microphone` | `FailsOnce`, `RightMicrophone` | 2 devices with 2 connections each, 2 rates, 2 refusals, 3 sessions | 2.1 million |
| `microphone_rate` | `ResampledFromItsRate` (violated) | the same with 2 sessions | |

What the runs show is the comment above each property, which names the code it is
about. In every passing run each property is also seen to fail for a mutant of the
code (`mutants` in `PROJECT.json`; the mutated operators stand beside the originals
in the modules, marked as such).

Why the bounds are enough:

- Misdelivery needs a dictation to be owed something and another to take it, so two
  dictations, or one and a rerun, suffice; a cascade of epochs needs a connection, its
  death and its replacement, which one fault allows: a fault is the daemon closing a
  connection, a failed attempt to connect, a failed inference or a switch of models.
  Timeouts are not counted. Two chunks are the least that a connection can be lost
  between, and the first dictation has them; the second is there to meet what it left.
- One client after another is the whole of what the reset protects, so two clients
  suffice; three frames allow a session with a Cancel of its own, whose Aborted the
  reset must count, and two a session that inherits what it left. The clients are
  alike, so one of them is the first to connect. What is safety here is proved for any
  number of clients and frames.
- Two presses let one dictation meet what the one before it left: its pill, its
  phase events, its late `Polishing`, its clipboard. One change suffices for each kind
  of stale state, as each is between one change and one dictation; the safety
  properties are proved for any number of either.
- Thirteen frames hold a speech cut at the limit and three pieces, or two short
  segments with a pause shorter than the ring between them and a third after it;
  deliveries of 13 and 16 samples at a rate of 3:2 end within a frame.
- Four faults use up the three retries of one file; three mishaps let one hit what
  another left (a kill, a corrupted partial, a deletion). Two sessions let one inherit
  what the other left, by Flush, by Cancel and by failure.
- Two dictations with one clip kept: one is pruned, deleted or rerun while the
  other is saved or appended; two seconds let their entries be equal or differ. The
  three properties are proved for all bounds.
- Two switches let a change of mind meet a retiring daemon; five daemons are the most
  that a client with one fault starts over two switches. A daemon of somebody else's
  may start at any moment while there were no switches or faults: with them nothing is
  claimed of switches any more, and what serves owns its files for any clients,
  daemons and faults by the theorem. States after a race are not explored, as
  neither property says anything there; `ownership_race` does, with two clients.
- One mishap suffices for `Preferences`, because its four properties are proved for
  every number.
- Two connections per device let one come back, three sessions let a third one meet
  what the second did about the first.

Bounds that relate several variables are `CONSTRAINT`s, `Bounded` in the MC modules.
Model pairs are only compared with each other, so the runs begin with a fixed one
selected; no symmetry reduction is used, as most runs check liveness too. Deadlock is
not checked: the numbers of dictations, presses, frames and spawned daemons are
bounded, the daemon really exits, and a session really ends.

### Fairness

Weak fairness, one thread at a time, except where noted.

- `Transport`: the transport thread runs whenever it can (its waits have deadlines,
  `REPROCESS_START_WAIT`, `FINISH_TIMEOUT`), and `finish` ends (`recv_timeout`). Readers
  and the daemon are not fair, so `RerunReplied` does not depend on any answer.
- `DaemonServe`: the startup threads, main, relay and worker; not the loading of
  the models, and not the clients. The timeouts of the sockets make its waits end.
- `Feedback`: the control thread (with `finish`'s timeout), the monitor's last tick, the
  main thread's loop over phase events, and its timers.
- `Provisioning`, `Inference`: the daemon goes on while it is there, and its client
  starts it again; faults and mishaps are bounded, so "in the end" is after them.
- `Ownership`: daemons, transport and reader threads run, cooldown and backoff pass. Two
  things are strongly fair: the thread observes the selection (`ObserveModels`) after
  every command and at every poll, whatever commands come between, and a session is
  released or cancelled, so that its end is handled (`EndsSession`) however often a
  chunk makes the thread reconnect first. `Refresh` is weakly fair like the rest of the
  thread: a press may always come before the poll. It is refused while a session is
  under way or a Flush is pending, as in the code. `SwitchTakesEffect` therefore excepts the
  Flush that nothing answers (`orphaned`), Quit, and daemons that others start.

## Findings

Three runs show the code disagree with what it says of itself.

`microphone_rate` (`ResampledFromItsRate`): `Recorder::start` makes the session's
resampler from `self.input()?.rate` (`capture.rs` 238) and only then calls
`open_stream` (246). When the stream cannot be built, `open_stream` rebuilds the
device (329-345) and plays the new one, whose rate may differ. The samples then go
through a resampler made for the old rate, while `capture.rs` 115 says of
`Captured.samples` that they are "the whole session at 16 kHz mono, captured after
resampling". The counterexample is a device that is unplugged and plugged in again
with another rate between `ensure_input` and the first attempt to play it.

`transport_truncation` (`NothingTruncated`): a connection that dies between two chunks is
found marked dead by the next `send`, dropped and replaced (`transport.rs` 925-946).
That chunk is written to a new daemon session, `dropped_chunks` stays 0, and the
`Flush` is answered with the text of what came after; 518-520 says "pasting silently
truncated text would be worse than failing", and 688-690 "discard that instead of
pasting silently truncated text". The counterexample is a dictation of two chunks
whose text is the second chunk's. What does hold is `HeardWhole`: the text is all
that was said from some chunk on, from the first unless a connection was replaced, and
a loss the client *noticed* leaves no text at all.

`ownership_race` (`NoneIsUnlinked`): `ensure_sole_daemon` probes the socket and then
removes it (`daemon.rs` 304-309), and nothing keeps another daemon out in between.
Over the socket file that a crash left, two daemons both find it stale; the faster
removes it and binds, the slower removes that one and binds again. The faster then
serves a socket that no path leads to, which is what 296-299 says is avoided: "two
clients can race their auto-spawns; the loser would otherwise leak a resident daemon
on an unlinked socket". What does hold is `ServingOwnsItsFiles`, until two daemons have
found the same stale file.

## Observations

Behaviours of the code that came up while modelling it and that no run claims.
The models contain the ones that lie within them: a property that would be refuted
by one of these is stated so that it says what does hold.

Where a comment says otherwise:

- A `Flush` is written before it is counted (`transport.rs` 712-716). When its
  connection dies in between, or is dropped while the flush is pending, nobody
  answers it: `finish` waits its 60 s, and reruns and model switches stay refused
  until a later stray answer. 373 says "every flush it owned is answered as lost".
  `SwitchTakesEffect` excepts that case (`owes` is "orphaned").
  `IdleWhenQuiet` and `StaleIsOwed` say what holds of the counts.
- A rerun that is given up sends no Cancel (915-921), and its answer may be counted
  as that of the next dictation; 277 says its "result belongs to the waiter, never
  to a dictation".
- The rerun's routing is armed after its chunks were sent (811), so partials that
  come earlier are missing from its raw transcript, which 249-251 calls verbatim.
- A press is judged by the mode set now, not by the one the dictation started
  under (`session.rs` 146-152): after a switch from toggle to hold, the press
  that should end a toggle dictation is ignored; 93-94 says a mode switch "must not
  strand a held key or swallow a press".
- `history.rs` 118 goes by the second and the texts, taking the newest line that
  matches: of two dictations of the same second and words, deleting the older row
  takes the newer line and orphans its clip, and adopting a rerun overwrites the
  other's words. 83 calls the timestamp plus both texts unique in practice.
- `main.rs` 129-131 says the app is never left keyless: true of `commit`, not of
  `resume`, where a refused registration is only logged.
- `settings.rs` 2143 says of accepting a rerun "The original history entry is left
  untouched"; `accept_rerun` replaces it (`AcceptRerun`).
- `dictation.rs` 44 says the daemon "answered (or gave up)"; a spawned daemon that
  dies while starting leaves `Dictation.starting` set until the next one.
- `pill.rs` says a pill that fades keeps the ending's content; it paints the phase of
  a session that starts meanwhile.

Timing and failure:

- `Ready` goes out before `status.json` says loaded; a worker that finishes loading
  while its daemon ends writes the status file after it was removed.
  `daemon_status` compares pids, so only the file is stale.
- A daemon that others started and that wins the race to bind can use up the one
  retirement a client allows itself (`retired_mismatch`), so that a switch waits for the
  next selection.
- A history entry that the daemon appends while the settings window rewrites the
  file is lost with the rename (`raced` in `Archive`).
- A partial file corrupted in an earlier run is resumed, and the hash mismatch is
  taken as `Permanent`, although `fetch.rs` 163 argues from bytes "we just
  downloaded in full". The next start begins afresh.
- `fetch.rs` 154-175 renames without syncing, and `manifest.rs` 365-377 skips whatever is
  there under its final or staged name: a file that a power loss cuts short after the
  rename, or that a new manifest names otherwise, is not verified again. `OnlyVerified`
  is about how files get there.
- The bundled `models.json` has no model of a directory at this commit; staging and
  promotion, which `Implements` is about, wait for one.
- `config.json` is written in place: a crash in between brings the onboarding back,
  and a failed save leaves the keycap showing the old chord. The chord in use then
  differs from the saved one until the next launch, also if the window is opened
  again and a later save succeeds.
- An unregistration the system refuses leaves the old chord delivered beside the new
  one (`main.rs` 107-117), also while a chord is recorded.
- Recording a chord starts from the phase as last observed, which may be stale: the
  release of a chord held then is never reported, and the dictation goes on until the
  chord is pressed again.
- A clip that is pruned or removed while it sounds, or whose row falls past the cap, has
  no stop button (`settings.rs` 2252-2258); it ends by itself or with the window.
- The clipboard given back after a paste overwrites a copy made meanwhile, and a
  clipboard that held files is emptied.
- A history entry names the polisher even when polishing failed and the raw text
  was pasted (`inference.rs` 420: the time it took is counted either way).
- A `Flush` leaves the count of heard speech as it is; only `Start` resets it.
- `validate_catalog` accepts loose files in subdirectories and nested model
  directories, which provisioning would stage and never promote;
  `CatalogAssumption` excludes what the bundled catalog does not contain.
- An answer of Apple Intelligence can be cut at its token limit unnoticed, and
  any other unavailability is reported as "not in this build".

## Proofs

TLAPS proves for every value of the constants what TLC checks on one instance. The
assumptions are the named `ASSUME`s of the modules, which TLC evaluates in every
run; only `AloneNothingRaces` has a hypothesis of its own, that one client alone
starts daemons. Every safety property that a run checks is a theorem, except
`HeardWhole`, of which `NoticedLossNeverHeard` is the part about noticed losses.
Each proof has the same plan: an inductive invariant `IInv`, one lemma
per action or per group of actions, one theorem that puts them together by
temporal logic.

- **Transport** (`TypeCorrect`, `DeadMarkTrue`, `QuietIsIdle`, `StaleCountsRight`,
  `NoticedLossNeverHeard`, `OwnTextHeard`, `RerunOwnTextHeard`). `TypeOK` is inductive by itself,
  because it says how the threads are tied together: the held connection is of the
  newest generation, a press in flight has its number, a driven rerun its id.
  Nothing else is, and the invariants are built on one another.
  `Sound(net)`, for the death mark: no mark is from the future, once the held connection's
  reader is past reading its stream is gone, and so it is when a mark condemns it.
  A stream that is gone stays gone, which is why a reader may mark long after it
  looked.
  `Driven`: what a rerun being driven excludes. `Queued(n)`: behind the session of `n`, the last
  one begun, the queue holds whole sessions of later dictations in order; with the
  counting lemmas `FlushesAppend` and `FlushesTail` it carries `StaleIsOwed`.
  `Tidy(net)`: only the held stream is open, and where nobody reads nothing is left to
  read. `NetMoves` then says of any step that, seen from the answers still to come, it is
  `Calm` (no answer becomes due and none overtakes another) or writes one Flush.
  `Loss(n)`: no answer, result or text of a dictation exists before its Flush, and none with
  words of one that has noticed the loss of a chunk.
  `Filled(n, S)` is the heart of `OwnTextHeard`: there are dictations `S`, in order, whose
  results are owed; the channel has those of the first, the ledger counts those of
  the others. As long as nothing was read from a replaced connection and no rerun left
  its answer behind, each answer to come on the newest stream has a later place in `S`, and a
  result in the channel is of no older dictation than its place. `fail_pending` may
  put a lost result before an answer that never comes, which is why it is "no older"
  and not "the same". When finish accepts a result nothing else is owed, so its place is the
  dictation's own, and no later dictation has been answered. `S` is said to exist and is
  not a variable: it grows by the Flush taken and shrinks by the result consumed.
- **Capture** (`PiecesAlwaysFit`, `SpeechStaysIntact`, `LastWordIsHeard`). For the sizes,
  `IInv` is `Typed`, `ChunkFits` (the chunker holds
  less than a piece, and less than a chunk in a pause: without that an onset with its
  prefill could be over the limit at once) and, until the session ends, `Grouped`
  (what is held is made of whole chunks and does not fit beside the piece before it).
  The arithmetic is in `CutFits` (a forced cut leaves a legal chunk and less than a
  piece) and `OpensFits`; `GroupFits`, `GrowFits` and `FlushFits` carry it through
  the grouper.
  For the samples in the pieces, `SInv` follows the ring between the detector and the
  chunker. `Ringing`: the ring ends on the latest frames and in a pause holds no others,
  because the hangover that ends a segment has filled it; during the hangover itself
  it may still hold frames of the pause before. `Recalled`: the frames a next segment
  leaves out as already sent were speech, so leaving them out loses nothing.
  `Once` with `Behind`: pieces, the one held and the pending samples are in order, and
  no sample is later than `Taken`, the last frame of the last segment; so a new
  segment, which begins after it, repeats nothing. `Kept`: all that is owed is in one
  of the three. `Once`, `Behind`, `Ringing` and `Recalled` say nothing once the
  detector has failed, as a frame it failed on enters the ring unheard; `Kept` does.
  `Newest` and `Closing` are for the last word: in speech the pending
  samples end on the last frame, and once the monitor has seen the end the device
  delivers no more and the next drain has everything.
- **DaemonServe** (`CountingIsExact`, `EveryStartIsClean`, `HistoryHasOneOwner`,
  `ImplementsSessions`). None of it is inductive: who is served, what is queued and
  what is counted hang together. `IInv` has a part for each. `Placed`: every connection
  is in one place at most, in line, greeting, served or over. `RelayServes`: the relay
  writes to the client that is served. `Owned`: between clients the worker is clean,
  and while one is served all that is queued and said is that client's, up to the
  barrier of the reset, which is the last frame and then the last event. `FreshCounts`
  and `UnackedAreCounted`: the counting. It goes through `Due`, the number of members of a
  sequence in a set, with lemmas on what appending and taking change
  (`AmongAppend`, `AmongTail`); a Cancel handled moves from queue to events and
  leaves the sum. `Staged`: a Flush being polished is the head of the queue. `Ordered`: a
  chunk goes from the socket to the queue, to the session's text and to an entry,
  behind the ones before it at every place; without the middle places the order of an entry
  is not inductive. `CleanStart`, which no run checks, is a consequence that says what
  the reset is for.
  The refinement looks at one client at a time: to `SessionService` it is away,
  at work or shut (`Trichotomy`), and of any step at most one client sees anything
  (`Unnoticed`, `OthersAway`). What it sees is a frame written, a session taken over, an
  event told or its connection closed; the worker's steps for a client that is
  shut, and the whole of the reset, are stutters.
- **Provisioning** (`InstalledIsVerified`, `ProvisioningImplements`). `InstallInv` adds to
  `OnlyVerified` where things can be: no final file without its directory
  (`Homeless`), no staged one without its staging directory (`StagedHome`), a fetch
  only towards a place that is still empty (`Targeted`), and `Behind`: every file the
  walk has passed is in place. `Behind` is what makes
  loading a step of `ModelStore`. `ProvisioningImplements` is the refinement: each
  step adds one verified name, makes one directory appear, loads what is complete,
  or changes nothing the store sees.
- **Inference** (`PolishFitsItsContext`, `TextNeedsSpeech`).
  Neither is inductive. `PastFlush` says what a session has behind it at each stage of
  its Flush: the worker's count of speech is what was spoken, decoding is only reached
  with a second of speech and with words, and what is fed, made and still budgeted
  fits the context.
- **Preferences** (`LanguagesAlwaysFit`, `ChordHeardOnce`, `OnboardedForGood`,
  `SettingsSurvive`). The work is in pure lemmas: `Healed` makes any file fit, is the
  identity on what fits, and so is idempotent; `Settled` makes any rows fit. `InUse`
  says that what runs fits and that its models were asked for, `Kept` that the file
  gives the settings back unless a save failed, `Seen` that a recorded onboarding
  is in the file and in memory, `ChordRow` that the row shows the chord in use unless it
  could not be saved. `OneChordHeard` names the chords the system kept (`stuck`).
- **Microphone** (`DeadDeviceFailsOnce`, `PreferredIsUsed`). `Named`: what is
  plugged in under a name is a connection of that name; `Armed`: a blamed device in
  hand is to be reopened, the flag says so or the reopening is about to happen;
  `Chosen`: from the press to the end of a session without a change or a refusal, the
  device in hand is the wanted one.
- **Ownership** (`ServingIsSole`, `AloneNothingRaces`). About any clients, and others that
  start daemons. `Holds` and `Told` say whose socket, pid file and status there are at
  each stage; the report of a worker that was told to end while it loaded is why the
  status has a second case. They are kept as long as nobody raced, because by `Stale` a
  file found stale stays nobody's until the one daemon that found it removes it.
  `AloneNothingRaces` says when that is always: with one client and no others. `Sole`
  says that at most one daemon is between its check of the socket and the removal of
  its socket, all others being gone or on their last step, `exit`. A spawn keeps it,
  because by `Clear` a client that is about to spawn has seen that only its own child
  could be there (`Known`: any other daemon was there from the start and can be
  reached), and `try_spawn` refuses while the child runs.
- **Archive** (`RecordingsAreKept`, `DeletionsAreExact`, `SoundHasItsButton`).
  `Pruning`: what is about to be pruned is already too old, and stays so whatever is
  saved or removed meanwhile. `Rewriting`: the rewritten lines, computed before the
  rename, keep everybody but the one the rewrite costs its entry (`Costs`) and those
  appended since. `Removing`: past `DeleteClip` the clip of a deletion is gone and
  cannot come back, as a clip is saved only once. For the button, `Filed` says that rows
  are lines of the file, and `Heard` that the line of what sounds is in it, and in the
  list if there is room, also after the rewrite under way.
- **Feedback** (`SessionsAreFramed`, `PlaybackIsRestored`, `ClipboardIsGivenBack`,
  `HoldsAreReleased`, `PillIsTrue`, `BloomIsEarned`, `PillStandsAlone`, `ErrorsAreSeen`).
  About `FSpec`, which `Dictations` is part of. `StillOrMoves` first reduces every
  action of the main thread, the pill, the timers and the settings window to a step
  that leaves the control thread, the live dictation, the monitor and the framing of
  the session alone, so that these parts have to be carried through few actions. `Recorder` ties the live
  dictation, the monitor and what was sent; `Framed` is the protocol of the
  session; `Muting` says who muted what; `Borrowing` what was taken from the clipboard.
  `Held` is about the keys, except from a capture whose guard was blind to the next press: a dictation held
  by its key has its chord tracked or its release on the way, a press on the way has
  its release behind it or its chord tracked, and while the chord is unregistered only
  Escapes are on the way.
  The pill's theorems rest on `Leading`: there is a path of views (phase
  and outcome) that the phase events on their way lead through, from what the pill
  shows to where the control thread is, and each of them changes something. The
  path is said to exist and not computed, so that an event told extends it at its end
  (`PathExtends`) and one applied shortens it at its front (`PathAdvances`); when the
  dictation is over it ends at rest with the verdict of its words. `Telling` says at
  which stages of a paste the keys have been posted, and `Standing` ties the pill's
  windows and Escape to the phase that is shown.

What is only model-checked: all liveness (`RerunReplied`, `HandoverCompletes`,
`EveryoneServed`, `PillComesToRest`, `ProvisionedInTheEnd`, `SwitchTakesEffect`), which
is beyond the prover, as is anything with fairness or ENABLED.

## Plan

What is left, in order:

1. `HeardWhole` as a theorem: what the session of a new connection holds is a tail of
   what was said.
2. Two clients of which one switches models, for `SwitchTakesEffect`.
3. Apple Intelligence as a polisher in `Inference`, with its own limits.

## Not modelled

- Wire framing (`protocol`): length-prefixed I/O with no state; a frame is atomic.
- The speech and language models themselves: choices over their outcomes. Apple
  Intelligence is one call into the system. Prompts, and the clean-up of dashes.
- Rendering, layout and animation of the windows and the pill; the level meter;
  settings rows that only copy a value (sounds, retention, appearance).
- A stale `Partial` in the pill of the next dictation: its text is cleared at the
  next start and is not what is pasted.
- Key names and the layout lookup of the V key: parsing without state.
- `vad_pieces`, which replays a clip through the chunker that `Capture` models.
- Download progress, the daemon's log file and the lookup of its binary.
- Updates (Sparkle), sounds, autostart, statistics: thin wrappers over system services
  or a file that is only appended to.
- The `DIKTAFON_ONBOARDING` override of `needed` (`onboarding.rs` 137), for developers; search
  filters in the History pane.
- The benchmark, the web site, packaging scripts and documentation.
