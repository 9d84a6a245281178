------------------------------ MODULE Capture ------------------------------
(***************************************************************************)
(* One recording session of crates/diktafon/src/capture.rs: the device's   *)
(* callback appends samples to a buffer, the control thread drops the      *)
(* stream and asks for the end, and the monitor thread wakes up, resamples *)
(* what is new, cuts it into frames, lets the voice detector choose those  *)
(* that are speech, joins them into chunks and the chunks into pieces, and *)
(* sends the pieces to the transport.                                      *)
(*                                                                         *)
(* A resampled sample is its position, 1, 2, ...; frame f is the samples   *)
(* (f-1)*Frame+1 .. f*Frame. What a sample sounds like appears as two      *)
(* choices: the detector's verdict on a frame, and which window of a       *)
(* speech without a pause is the quietest.                                 *)
(*                                                                         *)
(* SmoothedVad is a library's: the part of it below is what capture.rs and *)
(* its tests rely on. Its ring keeps the last Prefill frames before the    *)
(* current one. The frames of a hangover enter it; whether the voiced      *)
(* frames of a segment do is left open (ringsVoice), and so is whether a   *)
(* frame does that the detector failed on.                                 *)
(***************************************************************************)
EXTENDS Integers, Sequences, FiniteSets, SequencesExt

CONSTANTS
  From, To,      \* rates: From device samples make To samples of 16 kHz
  Frame,         \* VAD frame size
  Onset,         \* CONFIG.onset_frames
  Prefill,       \* CONFIG.prefill_frames
  Hangover,      \* CONFIG.hangover_frames
  MinChunk,      \* min_chunk_samples()
  MaxPiece,      \* max_piece_samples()
  Search,        \* FORCED_CUT_SEARCH_SECS, in samples
  Window,        \* FORCED_CUT_WINDOW_SECS, in samples
  Batches,       \* bound: sizes of what the device delivers in one callback
  MaxHeard,      \* bound: samples the device delivers in the session
  MaxErrors      \* bound: frames the detector fails on

\* What the values in capture.rs and config.rs satisfy (480, 2, 15, 15, 48000,
\* 640000, 240000, 2400) and the sizes of chunks and pieces depend on.
ConfigFits ==
  /\ Hangover >= Prefill - 1
  /\ Window >= 2 * (Frame - 1)
  /\ Prefill * Frame + MinChunk < MaxPiece
  /\ Frame <= MinChunk /\ MinChunk + Window <= MaxPiece

ASSUME CaptureAssumption ==
  /\ {From, To, Frame, Onset, Prefill, Hangover, MinChunk, MaxPiece, Search, Window}
       \subseteq Nat \ {0}
  /\ Batches \subseteq Nat \ {0} /\ MaxHeard \in Nat /\ MaxErrors \in Nat
  /\ ConfigFits

VARIABLES
  heard,      \* the callback's buffer: how many device samples it holds
  streaming,  \* the device's stream is open
  stop,       \* Session.stop
  cancelled,  \* Session.cancelled
  step,       \* where the monitor is in its loop
  done,       \* the monitor's reading of stop in this tick
  produced,   \* resampler.produced: samples resampled so far
  fed,        \* frames given to the chunker; the samples after them are frame_tail
  vad,        \* SmoothedVad: in speech, voiced frames of an onset, hangover left
  ring,       \* SmoothedVad: its prefill ring, as frame numbers
  ringsVoice, \* SmoothedVad: voiced frames of a segment enter the ring
  pending,    \* VadChunker.pending
  since,      \* VadChunker.frames_since_speech, saturated at Prefill
  held,       \* PieceGrouper.pending
  sent,       \* the pieces sent to the transport
  end,        \* how the session was closed: "none", "Flush" or "Cancel"
  owed,       \* history: the frames that have to be sent
  errors      \* history: frames the detector failed on

device  == <<heard, streaming>>
control == <<stop, cancelled>>
speech  == <<vad, ring, ringsVoice, pending, since, held, sent, owed, errors>>
vars    == <<device, control, step, done, produced, fed, speech, end>>

-----------------------------------------------------------------------------
\* Samples and frames.

Least(a, b)    == IF a <= b THEN a ELSE b
Most(a, b)     == IF a >= b THEN a ELSE b
Span(a, b)     == [i \in 1 .. (b - a + 1) |-> a + i - 1]
Samples(f)     == Span((f - 1) * Frame + 1, f * Frame)
SamplesOf(fs)  == [i \in 1 .. Len(fs) * Frame |->
                     Samples(fs[(i - 1) \div Frame + 1])[((i - 1) % Frame) + 1]]

\* StreamResampler.drain makes sample j of the output (from 0) once the input
\* holds the two samples it is interpolated from.
Available(n) == Cardinality({j \in 0 .. n * To : (j * From) \div To + 1 < n})

\* quietest_point: where a speech may be cut in two, one place for every window
\* that may be its quietest.
Cuts(samples) ==
  LET n    == Len(samples)
      last == n - Window
      from == Least(Most(Most(n - Search, 0), MinChunk), last)
  IN  IF last < 0 THEN {n}
      ELSE {s + Window \div 2 : s \in {t \in from .. last : (t - from) % Frame = 0}}

\* Mutant of Overlap: the ring is always taken whole.
OverlapNone(gap) == 0

\* VadChunker::push_frame: how many of the ring's frames were already taken
\* with the hangover of the segment before.
Overlap(gap) == Most(Prefill - 1 - gap, 0)

\* Mutant of Full: every chunk becomes a piece.
FullAlways(group, chunk) == group # <<>>

\* PieceGrouper::push: the chunk does not fit beside what is held.
Full(group, chunk) == group # <<>> /\ Len(group) + Len(chunk) > MaxPiece

-----------------------------------------------------------------------------
\* SmoothedVad: the verdict it gives on a frame the detector calls voiced or not.

Smoothed(voiced) ==
  LET run    == IF vad.speech \/ ~voiced THEN 0 ELSE vad.run + 1
      inside == IF vad.speech THEN voiced \/ vad.hang > 0 ELSE run >= Onset
  IN  [speech |-> inside,
       run    |-> IF inside THEN 0 ELSE run,
       hang   |-> IF ~inside THEN 0 ELSE IF voiced THEN Hangover ELSE vad.hang - 1]

\* The prefill ring takes a frame, and lets the oldest go when it is full.
Ringed(f) == IF Len(ring) < Prefill THEN Append(ring, f) ELSE Append(Tail(ring), f)

-----------------------------------------------------------------------------
\* A new chunker with a new detector, whose last segment is long ago.
ChunkerInit ==
  /\ vad = [speech |-> FALSE, run |-> 0, hang |-> 0]
  /\ ring = <<>> /\ ringsVoice \in BOOLEAN
  /\ pending = <<>> /\ since = Prefill

\* A new resampler and a new grouper.
ResamplerInit == produced = 0
GrouperInit   == held = <<>>

Init ==
  /\ heard = 0 /\ streaming = TRUE
  /\ stop = FALSE /\ cancelled = FALSE
  /\ step = "sleeping" /\ done = FALSE
  /\ ResamplerInit /\ fed = 0
  /\ ChunkerInit /\ GrouperInit
  /\ sent = <<>> /\ end = "none"
  /\ owed = {} /\ errors = 0

\* The device's callback (push_mono).
Deliver(k) ==
  /\ streaming /\ heard + k <= MaxHeard
  /\ heard' = heard + k
  /\ UNCHANGED <<streaming, control, step, done, produced, fed, speech, end>>

\* Session::stop drops the stream first; Session::cancel says before that that
\* nothing of the session is wanted.
DropStream(cancel) ==
  /\ streaming
  /\ streaming' = FALSE /\ cancelled' = cancel
  /\ UNCHANGED <<heard, stop, step, done, produced, fed, speech, end>>

\* Mutant of SetStop: the end is asked for while the device still runs.
SetStopFirst ==
  /\ ~stop
  /\ stop' = TRUE
  /\ UNCHANGED <<device, cancelled, step, done, produced, fed, speech, end>>

\* Only then, with nothing more to come, is the monitor told.
SetStop ==
  /\ ~streaming /\ ~stop
  /\ stop' = TRUE
  /\ UNCHANGED <<device, cancelled, step, done, produced, fed, speech, end>>

-----------------------------------------------------------------------------
\* The monitor's loop: it wakes up and reads stop, drains the buffer, and gives
\* the chunker every whole frame.

ReadStop ==
  /\ step = "sleeping"
  /\ step' = "awake" /\ done' = stop
  /\ UNCHANGED <<device, control, produced, fed, speech, end>>

Drain ==
  /\ step = "awake"
  /\ step' = "chunking" /\ produced' = Most(produced, Available(heard))
  /\ UNCHANGED <<device, control, done, fed, speech, end>>

MoreFrames == (fed + 1) * Frame <= produced

\* PieceGrouper::push, and the piece it gives back sent.
Group(chunk) ==
  \/ /\ Full(held, chunk)
     /\ sent' = Append(sent, held) /\ held' = chunk
  \/ /\ ~Full(held, chunk)
     /\ held' = held \o chunk /\ UNCHANGED sent

\* cut_overlong_speech: the speech so far stays together below the limit, and
\* is cut at a quiet place from there on.
Grow(grown) ==
  \/ /\ Len(grown) < MaxPiece
     /\ pending' = grown /\ UNCHANGED <<held, sent>>
  \/ /\ Len(grown) >= MaxPiece
     /\ \E c \in Cuts(grown) :
          /\ Group(SubSeq(grown, 1, c))
          /\ pending' = SubSeq(grown, c + 1, Len(grown))

\* push_frame on a frame that opens a segment: the ring's frames come first.
OpensSegment(f) ==
  LET lead == SamplesOf(ring)
      skip == Least(Overlap(since) * Frame, Len(lead))
  IN  /\ ring' = (IF ringsVoice THEN <<f>> ELSE <<>>) /\ UNCHANGED since
      /\ Grow(pending \o SubSeq(lead, skip + 1, Len(lead)) \o Samples(f))
      /\ owed' = owed \cup {f} \cup
                 (IF errors = 0 THEN Most(f - Prefill, 1) .. f - 1 ELSE {})

\* push_frame on a frame inside a segment.
ContinuesSegment(f) ==
  /\ Grow(pending \o Samples(f))
  /\ owed' = owed \cup {f} /\ UNCHANGED since

\* push_frame on the frame that ends a segment: a chunk too short stays pending.
EndsSegment ==
  /\ since' = 0 /\ UNCHANGED owed
  /\ \/ /\ Len(pending) >= MinChunk
        /\ Group(pending) /\ pending' = <<>>
     \/ /\ Len(pending) < MinChunk
        /\ UNCHANGED <<pending, held, sent>>

Silence ==
  /\ since' = Least(since + 1, Prefill)
  /\ UNCHANGED <<pending, held, sent, owed>>

PushFrame(voiced) ==
  /\ step = "chunking" /\ MoreFrames
  /\ fed' = fed + 1 /\ vad' = Smoothed(voiced)
  /\ \/ /\ ~vad.speech /\ vad'.speech
        /\ OpensSegment(fed')
     \/ /\ vad.speech /\ vad'.speech
        /\ ContinuesSegment(fed')
        /\ ring' = IF voiced /\ ~ringsVoice THEN ring ELSE Ringed(fed')
     \/ /\ vad.speech /\ ~vad'.speech
        /\ EndsSegment /\ ring' = Ringed(fed')
     \/ /\ ~vad.speech /\ ~vad'.speech
        /\ Silence /\ ring' = Ringed(fed')
  /\ UNCHANGED <<device, control, step, done, produced, ringsVoice, errors, end>>

\* push_frame on a frame the detector fails on: it counts as what came before.
PushUnheard ==
  /\ step = "chunking" /\ MoreFrames /\ errors < MaxErrors
  /\ fed' = fed + 1 /\ errors' = errors + 1
  /\ \/ vad.speech /\ ContinuesSegment(fed')
     \/ ~vad.speech /\ Silence
  /\ ring' \in {ring, Ringed(fed')}
  /\ UNCHANGED <<device, control, step, done, produced, vad, ringsVoice, end>>

\* No whole frame is left and the session goes on: back to sleep.
NextTick ==
  /\ step = "chunking" /\ ~MoreFrames /\ ~done
  /\ step' = "sleeping"
  /\ UNCHANGED <<device, control, done, produced, fed, speech, end>>

\* VadChunker::finish: what is pending, with the part of a frame that speech
\* ended on.
Rest == pending \o (IF vad.speech THEN Span(fed * Frame + 1, produced) ELSE <<>>)

\* PieceGrouper::finish: the piece held back, if any.
LastOf(piece) == IF piece # <<>> THEN <<piece>> ELSE <<>>

\* The last tick: everything left is sent, and the session is flushed.
Flush ==
  LET full == Full(held, Rest)
      last == IF full THEN Rest ELSE held \o Rest
  IN  /\ step = "chunking" /\ ~MoreFrames /\ done /\ ~cancelled
      /\ step' = "ended" /\ end' = "Flush"
      /\ sent' = sent \o (IF full THEN <<held>> ELSE <<>>)
                      \o LastOf(last)
      /\ pending' = <<>> /\ held' = <<>>
      /\ UNCHANGED <<device, control, done, produced, fed, vad, ring, ringsVoice, since,
                     owed, errors>>

Cancel ==
  /\ step = "chunking" /\ ~MoreFrames /\ done /\ cancelled
  /\ step' = "ended" /\ end' = "Cancel"
  /\ pending' = <<>> /\ held' = <<>>
  /\ UNCHANGED <<device, control, done, produced, fed, vad, ring, ringsVoice, since, sent,
                 owed, errors>>

Next ==
  \/ \E k \in Batches : Deliver(k)
  \/ \E c \in BOOLEAN : DropStream(c)
  \/ SetStop
  \/ ReadStop
  \/ Drain
  \/ \E voiced \in BOOLEAN : PushFrame(voiced)
  \/ PushUnheard
  \/ NextTick
  \/ Flush
  \/ Cancel

Spec == Init /\ [][Next]_vars

-----------------------------------------------------------------------------
Positions == 1 .. Available(MaxHeard)

\* The shapes of the state, with the limits the counters stay within.
TypeOK ==
  /\ heard \in 0 .. MaxHeard /\ {streaming, stop, cancelled, done, ringsVoice} \subseteq BOOLEAN
  /\ step \in {"sleeping", "awake", "chunking", "ended"} /\ end \in {"none", "Flush", "Cancel"}
  /\ produced \in 0 .. Available(MaxHeard) /\ fed * Frame \in 0 .. produced
  /\ vad.speech \in BOOLEAN /\ vad.run \in 0 .. Onset - 1 /\ vad.hang \in 0 .. Hangover
  /\ Len(ring) <= Prefill /\ Range(ring) \subseteq 1 .. fed
  /\ Range(pending) \cup Range(held) \subseteq Positions
  /\ since \in 0 .. Prefill /\ owed \subseteq 1 .. fed /\ errors \in 0 .. MaxErrors

\* What is on its way to the transport, in order: the pieces sent, what the
\* grouper holds and what the chunker does.
Parts == sent \o <<held, pending>>

Increasing(s) == \A i \in 1 .. Len(s) - 1 : s[i] < s[i + 1]
Before(s, t)  == s # <<>> /\ t # <<>> => Last(s) < Head(t)

\* No sample is sent twice and none out of order, whatever the pauses between
\* two segments: the ring's audio never repeats the hangover before it. (If the
\* detector failed on a frame, the ring may lack it.)
SpeechOnce == errors = 0 =>
  \A j \in 1 .. Len(Parts) :
    Increasing(Parts[j]) /\ \A i \in 1 .. j - 1 : Before(Parts[i], Parts[j])

\* Every frame in speech, and the Prefill frames before each onset, is sent or
\* still on its way: cutting, holding and grouping lose nothing.
SpeechKept == end # "Cancel" =>
  \A f \in owed : Range(Samples(f)) \subseteq UNION {Range(p) : p \in Range(Parts)}

\* What was spoken is sent whole, and once.
SpeechIntact == SpeechOnce /\ SpeechKept

\* Everything that belongs to a piece but the last of its session is at least a
\* minimal chunk long, and no piece is over the limit, but for the samples of
\* a part of a frame that finish adds.
PieceSizes ==
  /\ \A i \in 1 .. Len(sent) : Len(sent[i]) < MaxPiece + Frame
  /\ \A i \in 1 .. Len(sent) - 1 : Len(sent[i]) \in MinChunk .. MaxPiece
  /\ Len(pending) < MaxPiece

\* A piece is closed only because the next chunk does not fit: two neighbours
\* together are over the limit, so speech up to the limit stays whole.
PiecesAreFull ==
  \A i \in 1 .. Len(sent) - 1 : Len(sent[i]) + Len(sent[i + 1]) > MaxPiece

\* However it is cut and grouped, speech is sent in as few pieces as the model's
\* limits allow, and none of them is over or under them.
PiecesFit == PieceSizes /\ PiecesAreFull

\* A recording that ends while the user speaks is sent up to the last sample the
\* device had delivered.
LastWordHeard == end = "Flush" /\ vad.speech => Last(Last(sent)) = Available(heard)
=============================================================================
