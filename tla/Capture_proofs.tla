--------------------------- MODULE Capture_proofs ---------------------------
(***************************************************************************)
(* What is proved about capture.rs. Capture: the sizes of the pieces of a  *)
(* recording, and that they hold what was spoken, all of it and once, for  *)
(* every frame size, limit and rate that satisfies CaptureAssumption.      *)
(* Microphone: a device that died fails one dictation, and a session       *)
(* records from the right device, for any number of devices,               *)
(* reconnections, refusals and dictations.                                 *)
(***************************************************************************)
EXTENDS Capture, Microphone, FiniteSetTheorems, SequenceTheorems, TLAPS

\* The shapes of what a piece is made from.
Typed ==
  /\ heard \in Nat /\ produced \in Nat /\ fed \in Nat /\ fed * Frame <= produced
  /\ vad \in [speech : BOOLEAN, run : Int, hang : Int]
  /\ ring \in Seq(Int) /\ Len(ring) <= Prefill
  /\ since \in Nat
  /\ pending \in Seq(Int) /\ held \in Seq(Int) /\ sent \in Seq(Seq(Int))

\* The chunker holds less than a piece, and less than a chunk in a pause.
ChunkFits ==
  /\ Len(pending) < MaxPiece
  /\ ~vad.speech => Len(pending) < MinChunk

\* While the session is open, pieces and what is held are made of whole chunks,
\* and every piece was closed because what came after it did not fit.
Grouped ==
  /\ Len(held) <= MaxPiece /\ (held # <<>> => Len(held) >= MinChunk)
  /\ \A i \in 1 .. Len(sent) : Len(sent[i]) \in MinChunk .. MaxPiece
  /\ sent # <<>> => Len(sent[Len(sent)]) + Len(held) > MaxPiece
  /\ PiecesAreFull

IInv ==
  /\ Typed /\ ChunkFits
  /\ step # "ended" => Grouped
  /\ step = "ended" => PieceSizes /\ PiecesAreFull

-----------------------------------------------------------------------------
\* The constants as numbers, which is all most steps need of the assumption.
LEMMA Constants ==
  /\ From \in Nat /\ To \in Nat /\ Frame \in Nat /\ Onset \in Nat /\ Prefill \in Nat
  /\ Hangover \in Nat /\ MinChunk \in Nat /\ MaxPiece \in Nat /\ Search \in Nat /\ Window \in Nat
  /\ From > 0 /\ Frame > 0 /\ Onset > 0 /\ Prefill > 0 /\ MinChunk > 0 /\ MaxPiece > 0
  /\ Batches \subseteq Nat
BY CaptureAssumption DEF CaptureAssumption, ConfigFits

\* The resampler counts its output.
LEMMA AvailableNat == \A n \in Nat : Available(n) \in Nat
<1> TAKE n \in Nat
<1>1. n * To \in Int BY Constants
<1>2. IsFiniteSet(0 .. n * To) BY <1>1, FS_Interval
<1>3. IsFiniteSet({j \in 0 .. n * To : (j * From) \div To + 1 < n}) BY <1>2, FS_Subset
<1> QED BY <1>3, FS_CardinalityType DEF Available

\* A product keeps the order of its first factor.
LEMMA TimesMonotone == \A a, b, c \in Nat : a <= b => a * c <= b * c
<1> TAKE a, b, c \in Nat
<1> HAVE a <= b
<1>1. PICK d \in Nat : b = a + d BY b - a \in Nat
<1>2. b * c = a * c + d * c BY <1>1
<1>3. d * c \in Nat /\ a * c \in Nat OBVIOUS
<1> QED BY <1>2, <1>3

\* The frame a sample of several frames lies in is one of them.
LEMMA FrameOfSample ==
  \A n \in Nat, i \in Nat : i < n * Frame => i \div Frame \in 0 .. n - 1
<1> TAKE n \in Nat, i \in Nat
<1> HAVE i < n * Frame
<1> DEFINE q == i \div Frame
<1>1. q \in Nat /\ q * Frame <= i BY Constants
<1>2. CASE q >= n
  <2>1. n * Frame <= q * Frame BY <1>1, <1>2, Constants, TimesMonotone
  <2> QED BY <2>1, <1>1, Constants
<1>3. CASE q < n BY <1>1, <1>3
<1> QED BY <1>1, <1>2, <1>3

\* A stretch of samples is a sequence of as many numbers.
LEMMA SpanSeq ==
  \A a, b \in Int : b - a + 1 \in Nat => Span(a, b) \in Seq(Int) /\ Len(Span(a, b)) = b - a + 1
BY DEF Span

LEMMA SamplesSeq ==
  \A f \in Int : Samples(f) \in Seq(Int) /\ Len(Samples(f)) = Frame
<1> TAKE f \in Int
<1>1. /\ (f - 1) * Frame + 1 \in Int /\ f * Frame \in Int
      /\ f * Frame - ((f - 1) * Frame + 1) + 1 = Frame
  BY Constants
<1> QED BY <1>1, SpanSeq, Constants DEF Samples

\* The frames of the ring, one after the other.
LEMMA SamplesOfSeq ==
  \A fs \in Seq(Int) : SamplesOf(fs) \in Seq(Int) /\ Len(SamplesOf(fs)) = Len(fs) * Frame
<1> TAKE fs \in Seq(Int)
<1> DEFINE n == Len(fs) * Frame
           at(i) == Samples(fs[(i - 1) \div Frame + 1])[((i - 1) % Frame) + 1]
<1>1. n \in Nat BY Constants
<1>2. \A i \in 1 .. n : at(i) \in Int
  <2> TAKE i \in 1 .. n
  <2>1. i - 1 \in Nat /\ i - 1 < Len(fs) * Frame BY <1>1
  <2>2. (i - 1) \div Frame \in 0 .. Len(fs) - 1 BY <2>1, FrameOfSample
  <2>3. fs[(i - 1) \div Frame + 1] \in Int BY <2>2
  <2>4. ((i - 1) % Frame) + 1 \in 1 .. Frame BY <2>1, Constants
  <2> DEFINE row == Samples(fs[(i - 1) \div Frame + 1])
             col == ((i - 1) % Frame) + 1
  <2>5. row \in Seq(Int) /\ Len(row) = Frame BY <2>3, SamplesSeq
  <2>6. col \in 1 .. Len(row) BY <2>4, <2>5
  <2>7. row[col] \in Int
    <3> HIDE DEF row, col
    <3> QED BY <2>5, <2>6
  <2> QED BY <2>7
<1>3. SamplesOf(fs) = [i \in 1 .. n |-> at(i)] BY DEF SamplesOf
<1> QED BY <1>1, <1>2, <1>3

\* A forced cut leaves a chunk of legal size before it and less than a piece
\* after it: the window it falls in starts late enough and ends early enough.
LEMMA CutFits ==
  \A s \in Seq(Int) : Len(s) \in MaxPiece .. MaxPiece + Frame - 1 =>
    \A c \in Cuts(s) : c \in MinChunk .. MaxPiece /\ c <= Len(s) /\ Len(s) - c < MaxPiece
<1> TAKE s \in Seq(Int)
<1> HAVE Len(s) \in MaxPiece .. MaxPiece + Frame - 1
<1> TAKE c \in Cuts(s)
<1> DEFINE last == Len(s) - Window
           from == Least(Most(Most(Len(s) - Search, 0), MinChunk), last)
<1>1. MinChunk + Window <= MaxPiece /\ Window >= 2 * (Frame - 1) /\ Frame <= MinChunk
  BY CaptureAssumption DEF CaptureAssumption, ConfigFits
<1>2. last \in Nat /\ MinChunk <= last BY <1>1, Constants
<1>3. from \in Nat /\ MinChunk <= from /\ from <= last
  BY <1>2, Constants DEF Least, Most
<1>4. PICK t \in from .. last : c = t + Window \div 2
  BY <1>2 DEF Cuts
<1>5. /\ Window \div 2 \in Nat /\ 2 * (Window \div 2) <= Window
      /\ Window < 2 * (Window \div 2) + 2
  BY Constants
<1>6. Window \div 2 >= Frame - 1 BY <1>1, <1>5, Constants
<1> QED BY <1>1, <1>2, <1>3, <1>4, <1>5, <1>6, Constants

-----------------------------------------------------------------------------
\* What is said of the pieces, of any sequence of them.
Neighbours(s) == \A i \in 1 .. Len(s) - 1 : Len(s[i]) + Len(s[i + 1]) > MaxPiece

\* One more piece that does not fit beside the last one.
LEMMA OneMorePiece ==
  ASSUME NEW s \in Seq(Seq(Int)), NEW p \in Seq(Int), Neighbours(s),
         s # <<>> => Len(s[Len(s)]) + Len(p) > MaxPiece
  PROVE  /\ Append(s, p) \in Seq(Seq(Int)) /\ Len(Append(s, p)) = Len(s) + 1
         /\ Append(s, p)[Len(s) + 1] = p
         /\ \A i \in 1 .. Len(s) : Append(s, p)[i] = s[i]
         /\ Neighbours(Append(s, p))
<1> DEFINE t == Append(s, p)
<1>1. /\ t \in Seq(Seq(Int)) /\ Len(t) = Len(s) + 1
      /\ t[Len(s) + 1] = p
      /\ \A i \in 1 .. Len(s) : t[i] = s[i]
  OBVIOUS
<1>2. Len(s) \in Nat /\ (Len(s) > 0 => s # <<>>) OBVIOUS
<1> HIDE DEF t
<1>3. ASSUME NEW i \in 1 .. Len(t) - 1 PROVE Len(t[i]) + Len(t[i + 1]) > MaxPiece
  <2>0. i \in 1 .. Len(s) BY <1>1, <1>2
  <2>1. CASE i = Len(s)
    <3>1. t[i] = s[Len(s)] /\ t[i + 1] = p /\ s # <<>> BY <2>1, <1>1, <1>2, <1>3
    <3> QED BY <3>1
  <2>2. CASE i < Len(s)
    <3>1. i \in 1 .. Len(s) - 1 /\ i \in 1 .. Len(s) /\ i + 1 \in 1 .. Len(s) BY <2>2, <1>2, <1>3
    <3>2. t[i] = s[i] /\ t[i + 1] = s[i + 1] BY <3>1, <1>1
    <3> QED BY <3>1, <3>2 DEF Neighbours
  <2>3. i = Len(s) \/ i < Len(s) BY <2>0, <1>2
  <2> QED BY <2>1, <2>2, <2>3
<1> QED BY <1>1, <1>3 DEF t, Neighbours

\* PieceGrouper::push keeps the pieces legal, if the chunk is.
LEMMA GroupFits ==
  \A chunk \in Seq(Int) :
    /\ held \in Seq(Int) /\ sent \in Seq(Seq(Int)) /\ Grouped
    /\ Len(chunk) \in MinChunk .. MaxPiece
    /\ Group(chunk)
    => held' \in Seq(Int) /\ sent' \in Seq(Seq(Int)) /\ Grouped'
<1> TAKE chunk \in Seq(Int)
<1> HAVE /\ held \in Seq(Int) /\ sent \in Seq(Seq(Int)) /\ Grouped
         /\ Len(chunk) \in MinChunk .. MaxPiece
         /\ Group(chunk)
<1>1. CASE Full(held, chunk) /\ sent' = Append(sent, held) /\ held' = chunk
  <2>1. Len(held) \in MinChunk .. MaxPiece /\ Len(held) + Len(chunk) > MaxPiece
    BY <1>1, Constants DEF Full, Grouped
  <2>2. Neighbours(sent) BY DEF Grouped, PiecesAreFull, Neighbours
  <2>3. sent # <<>> => Len(sent[Len(sent)]) + Len(held) > MaxPiece BY DEF Grouped
  <2>4. /\ sent' \in Seq(Seq(Int)) /\ Len(sent') = Len(sent) + 1
        /\ sent'[Len(sent) + 1] = held
        /\ \A i \in 1 .. Len(sent) : sent'[i] = sent[i]
        /\ Neighbours(sent')
    BY <1>1, <2>2, <2>3, OneMorePiece
  <2>5. ASSUME NEW i \in 1 .. Len(sent') PROVE Len(sent'[i]) \in MinChunk .. MaxPiece
    <3>1. CASE i = Len(sent) + 1 BY <3>1, <2>1, <2>4
    <3>2. CASE i \in 1 .. Len(sent)
      <4>1. sent'[i] = sent[i] BY <3>2, <2>4
      <4>2. Len(sent[i]) \in MinChunk .. MaxPiece BY <3>2 DEF Grouped
      <4> QED BY <4>1, <4>2
    <3>3. Len(sent) \in Nat OBVIOUS
    <3> QED BY <3>1, <3>2, <3>3, <2>4, <2>5
  <2>6. PiecesAreFull' BY <2>4 DEF PiecesAreFull, Neighbours
  <2>7. Len(held') <= MaxPiece /\ Len(held') >= MinChunk /\ held' \in Seq(Int) BY <1>1, Constants
  <2>8. Len(sent'[Len(sent')]) + Len(held') > MaxPiece BY <1>1, <2>1, <2>4
  <2> QED BY <2>4, <2>5, <2>6, <2>7, <2>8 DEF Grouped
<1>2. CASE ~Full(held, chunk) /\ held' = held \o chunk /\ sent' = sent
  <2>1. held' \in Seq(Int) /\ Len(held') = Len(held) + Len(chunk) BY <1>2
  <2>2. Len(held') <= MaxPiece /\ Len(held') >= MinChunk
    BY <1>2, <2>1, Constants DEF Full, Grouped
  <2>3. ASSUME sent # <<>> PROVE Len(sent[Len(sent)]) + Len(held') > MaxPiece
    <3>1. Len(sent) \in 1 .. Len(sent) BY <2>3
    <3>2. sent[Len(sent)] \in Seq(Int) BY <3>1
    <3>3. Len(sent[Len(sent)]) + Len(held) > MaxPiece BY <2>3 DEF Grouped
    <3>4. /\ Len(sent[Len(sent)]) \in Nat /\ Len(held) \in Nat /\ Len(chunk) \in Nat
          /\ MaxPiece \in Nat
      BY <3>2, Constants
    <3>5. Len(held') = Len(held) + Len(chunk) BY <2>1
    <3> DEFINE a == Len(sent[Len(sent)])
               b == Len(held)
    <3>6. a \in Nat /\ b \in Nat /\ a + b > MaxPiece BY <3>3, <3>4
    <3> HIDE DEF a, b
    <3>7. a + (b + Len(chunk)) > MaxPiece BY <3>4, <3>6
    <3> QED BY <3>5, <3>7 DEF a, b
  <2> QED BY <1>2, <2>1, <2>2, <2>3 DEF Grouped, PiecesAreFull
<1> QED BY <1>1, <1>2 DEF Group

\* cut_overlong_speech keeps the speech short and the pieces legal.
LEMMA GrowFits ==
  \A grown \in Seq(Int) :
    /\ held \in Seq(Int) /\ sent \in Seq(Seq(Int)) /\ Grouped
    /\ Len(grown) < MaxPiece + Frame
    /\ Grow(grown)
    => /\ held' \in Seq(Int) /\ sent' \in Seq(Seq(Int)) /\ Grouped'
       /\ pending' \in Seq(Int) /\ Len(pending') < MaxPiece
<1> TAKE grown \in Seq(Int)
<1> HAVE /\ held \in Seq(Int) /\ sent \in Seq(Seq(Int)) /\ Grouped
         /\ Len(grown) < MaxPiece + Frame
         /\ Grow(grown)
<1>1. CASE Len(grown) < MaxPiece /\ pending' = grown /\ UNCHANGED <<held, sent>>
  BY <1>1 DEF Grouped, PiecesAreFull
<1>2. ASSUME Len(grown) >= MaxPiece, NEW c \in Cuts(grown),
             Group(SubSeq(grown, 1, c)), pending' = SubSeq(grown, c + 1, Len(grown))
      PROVE  /\ held' \in Seq(Int) /\ sent' \in Seq(Seq(Int)) /\ Grouped'
             /\ pending' \in Seq(Int) /\ Len(pending') < MaxPiece
  <2>0. Len(grown) \in MaxPiece .. MaxPiece + Frame - 1 BY <1>2, Constants
  <2>1. c \in MinChunk .. MaxPiece /\ c <= Len(grown) /\ Len(grown) - c < MaxPiece
    BY <2>0, CutFits
  <2>2. SubSeq(grown, 1, c) \in Seq(Int) /\ Len(SubSeq(grown, 1, c)) = c
    BY <2>1, Constants
  <2>3. pending' \in Seq(Int) /\ Len(pending') = Len(grown) - c
    BY <1>2, <2>1, Constants
  <2> QED BY <1>2, <2>1, <2>2, <2>3, GroupFits
<1> QED BY <1>1, <1>2 DEF Grow

\* The ring never grows over its size.
LEMMA RingFits ==
  \A f \in Int : ring \in Seq(Int) /\ Len(ring) <= Prefill =>
    Ringed(f) \in Seq(Int) /\ Len(Ringed(f)) <= Prefill
<1> TAKE f \in Int
<1> HAVE ring \in Seq(Int) /\ Len(ring) <= Prefill
<1>1. CASE Len(ring) < Prefill BY <1>1, Constants DEF Ringed
<1>2. CASE ~(Len(ring) < Prefill)
  <2>1. Tail(ring) \in Seq(Int) /\ Len(Tail(ring)) = Len(ring) - 1 BY <1>2, Constants
  <2> QED BY <1>2, <2>1, Constants DEF Ringed
<1> QED BY <1>1, <1>2

-----------------------------------------------------------------------------
LEMMA SmoothedType ==
  \A voiced \in BOOLEAN : vad \in [speech : BOOLEAN, run : Int, hang : Int] =>
    Smoothed(voiced) \in [speech : BOOLEAN, run : Int, hang : Int]
<1> TAKE voiced \in BOOLEAN
<1> HAVE vad \in [speech : BOOLEAN, run : Int, hang : Int]
<1> QED BY Constants DEF Smoothed

\* A frame in a segment, after whatever goes before it.
LEMMA ContinuesFits ==
  \A f \in Int :
    Typed /\ ChunkFits /\ Grouped /\ ContinuesSegment(f) =>
      /\ held' \in Seq(Int) /\ sent' \in Seq(Seq(Int)) /\ Grouped'
      /\ pending' \in Seq(Int) /\ Len(pending') < MaxPiece /\ since' \in Nat
<1> TAKE f \in Int
<1> HAVE Typed /\ ChunkFits /\ Grouped /\ ContinuesSegment(f)
<1> DEFINE grown == pending \o Samples(f)
<1>1. Samples(f) \in Seq(Int) /\ Len(Samples(f)) = Frame BY SamplesSeq
<1>2. pending \in Seq(Int) /\ Len(pending) < MaxPiece BY DEF Typed, ChunkFits
<1>3. grown \in Seq(Int) /\ Len(grown) = Len(pending) + Frame BY <1>1, <1>2
<1>4. Len(grown) < MaxPiece + Frame BY <1>2, <1>3, Constants
<1>5. Grow(grown) /\ since' = since BY DEF ContinuesSegment
<1> HIDE DEF grown
<1>6. held \in Seq(Int) /\ sent \in Seq(Seq(Int)) /\ since \in Nat BY DEF Typed
<1> QED BY <1>3, <1>4, <1>5, <1>6, GrowFits

\* What the first frame of a segment brings of the ring: all but what was taken
\* with the hangover before it.
Lead     == SamplesOf(ring)
Skip     == Least(Overlap(since) * Frame, Len(Lead))
LeadKept == SubSeq(Lead, Skip + 1, Len(Lead))

LEMMA LeadFits ==
  \A f \in Int :
    Typed /\ ChunkFits /\ ~vad.speech =>
      /\ Len(Lead) = Len(ring) * Frame /\ Overlap(since) \in Nat /\ Skip \in 0 .. Len(Lead)
      /\ LeadKept \in Seq(Int) /\ Len(LeadKept) = Len(Lead) - Skip
      /\ \A i \in 1 .. Len(Lead) - Skip : LeadKept[i] = Lead[Skip + i]
      /\ pending \o LeadKept \o Samples(f) \in Seq(Int)
      /\ Len(pending \o LeadKept \o Samples(f)) < MaxPiece + Frame
<1> TAKE f \in Int
<1> HAVE Typed /\ ChunkFits /\ ~vad.speech
<1> DEFINE grown == pending \o LeadKept \o Samples(f)
<1>1. Samples(f) \in Seq(Int) /\ Len(Samples(f)) = Frame BY SamplesSeq
<1>2. pending \in Seq(Int) /\ Len(pending) < MinChunk BY DEF Typed, ChunkFits
<1>3. Lead \in Seq(Int) /\ Len(Lead) = Len(ring) * Frame BY SamplesOfSeq DEF Typed, Lead
<1>4. Len(Lead) <= Prefill * Frame
  <2>1. ring \in Seq(Int) /\ Len(ring) <= Prefill BY DEF Typed
  <2>2. Len(ring) \in Nat BY <2>1
  <2> QED BY <1>3, <2>1, <2>2, TimesMonotone, Constants
<1>5. Overlap(since) \in Nat /\ Skip \in 0 .. Len(Lead)
  <2>1. since \in Nat BY DEF Typed
  <2>2. Overlap(since) \in Nat BY <2>1, Constants DEF Overlap, Most
  <2>3. Overlap(since) * Frame \in Nat BY <2>2, Constants
  <2>4. Len(Lead) \in Nat BY <1>3
  <2> QED BY <2>2, <2>3, <2>4 DEF Skip, Least
<1>6. /\ LeadKept \in Seq(Int) /\ Len(LeadKept) = Len(Lead) - Skip
      /\ \A i \in 1 .. Len(Lead) - Skip : LeadKept[i] = Lead[Skip + i]
  BY <1>3, <1>5 DEF LeadKept
<1>7. grown \in Seq(Int) /\ Len(grown) = Len(pending) + Len(LeadKept) + Frame
  <2>1. /\ pending \o LeadKept \in Seq(Int)
        /\ Len(pending \o LeadKept) = Len(pending) + Len(LeadKept)
    BY <1>2, <1>6, ConcatProperties
  <2>2. /\ grown \in Seq(Int)
        /\ Len(grown) = Len(pending \o LeadKept) + Len(Samples(f))
    BY <1>1, <2>1, ConcatProperties
  <2> HIDE DEF grown
  <2> QED BY <1>1, <2>1, <2>2
<1>8. Len(grown) < MaxPiece + Frame
  <2>1. Prefill * Frame + MinChunk < MaxPiece BY CaptureAssumption DEF CaptureAssumption, ConfigFits
  <2>2. Len(Lead) \in Nat /\ Prefill * Frame \in Nat BY <1>3, Constants
  <2>3. Len(pending) \in Nat BY <1>2
  <2> HIDE DEF grown
  <2> QED BY <2>1, <2>2, <2>3, <1>2, <1>4, <1>5, <1>6, <1>7, Constants
<1> QED BY <1>3, <1>5, <1>6, <1>7, <1>8

\* The first frame of a segment, with what is new of the ring.
LEMMA OpensFits ==
  \A f \in Int :
    Typed /\ ChunkFits /\ Grouped /\ ~vad.speech /\ OpensSegment(f) =>
      /\ held' \in Seq(Int) /\ sent' \in Seq(Seq(Int)) /\ Grouped'
      /\ pending' \in Seq(Int) /\ Len(pending') < MaxPiece /\ since' \in Nat
      /\ ring' \in Seq(Int) /\ Len(ring') <= Prefill
<1> TAKE f \in Int
<1> HAVE Typed /\ ChunkFits /\ Grouped /\ ~vad.speech /\ OpensSegment(f)
<1> DEFINE grown == pending \o LeadKept \o Samples(f)
<1>1. grown \in Seq(Int) /\ Len(grown) < MaxPiece + Frame BY LeadFits
<1>2. Grow(grown) /\ since' = since /\ ring' = (IF ringsVoice THEN <<f>> ELSE <<>>)
  BY DEF OpensSegment, LeadKept, Skip, Lead
<1>3. ring' \in Seq(Int) /\ Len(ring') <= Prefill BY <1>2, Constants
<1> HIDE DEF grown
<1>4. held \in Seq(Int) /\ sent \in Seq(Seq(Int)) /\ since \in Nat BY DEF Typed
<1> QED BY <1>1, <1>2, <1>3, <1>4, GrowFits

\* The frame that ends a segment sends a chunk or keeps less than one.
LEMMA EndsFits ==
  Typed /\ ChunkFits /\ Grouped /\ EndsSegment =>
    /\ held' \in Seq(Int) /\ sent' \in Seq(Seq(Int)) /\ Grouped'
    /\ pending' \in Seq(Int) /\ Len(pending') < MinChunk /\ since' \in Nat
<1> HAVE Typed /\ ChunkFits /\ Grouped /\ EndsSegment
<1>1. /\ pending \in Seq(Int) /\ held \in Seq(Int) /\ sent \in Seq(Seq(Int))
      /\ Len(pending) < MaxPiece
  BY DEF Typed, ChunkFits
<1>2. since' = 0 BY DEF EndsSegment
<1>3. CASE Len(pending) >= MinChunk /\ Group(pending) /\ pending' = <<>>
  <2>1. Len(pending) \in MinChunk .. MaxPiece BY <1>1, <1>3, Constants
  <2>2. held' \in Seq(Int) /\ sent' \in Seq(Seq(Int)) /\ Grouped'
    BY <2>1, <1>1, <1>3, GroupFits
  <2> QED BY <2>2, <1>2, <1>3, Constants
<1>4. CASE Len(pending) < MinChunk /\ UNCHANGED <<pending, held, sent>>
  BY <1>1, <1>2, <1>4 DEF Grouped, PiecesAreFull
<1> QED BY <1>3, <1>4 DEF EndsSegment

LEMMA SilenceFits ==
  Typed /\ ChunkFits /\ Grouped /\ ~vad.speech /\ Silence =>
    /\ held' \in Seq(Int) /\ sent' \in Seq(Seq(Int)) /\ Grouped'
    /\ pending' \in Seq(Int) /\ Len(pending') < MinChunk /\ since' \in Nat
<1> HAVE Typed /\ ChunkFits /\ Grouped /\ ~vad.speech /\ Silence
<1>1. UNCHANGED <<pending, held, sent>> BY DEF Silence
<1>2. since' \in Nat BY Constants DEF Silence, Typed, Least
<1>3. Grouped' BY <1>1 DEF Grouped, PiecesAreFull
<1> QED BY <1>1, <1>2, <1>3 DEF Typed, ChunkFits

-----------------------------------------------------------------------------
\* The last tick: what is left becomes one or two pieces.

\* Closing a list of legal pieces with a piece that may be short or a little long.
LEMMA LastPiece ==
  ASSUME NEW s \in Seq(Seq(Int)), NEW p \in Seq(Int), Neighbours(s),
         \A i \in 1 .. Len(s) : Len(s[i]) \in MinChunk .. MaxPiece,
         s # <<>> => Len(s[Len(s)]) + Len(p) > MaxPiece,
         Len(p) < MaxPiece + Frame,
         NEW t, t = Append(s, p)
  PROVE  /\ t \in Seq(Seq(Int)) /\ Neighbours(t)
         /\ \A i \in 1 .. Len(t) : Len(t[i]) < MaxPiece + Frame
         /\ \A i \in 1 .. Len(t) - 1 : Len(t[i]) \in MinChunk .. MaxPiece
<1>1. /\ t \in Seq(Seq(Int)) /\ Len(t) = Len(s) + 1 /\ t[Len(s) + 1] = p
      /\ \A i \in 1 .. Len(s) : t[i] = s[i]
      /\ Neighbours(t)
  BY OneMorePiece
<1>2. Len(s) \in Nat OBVIOUS
<1>3. ASSUME NEW i \in 1 .. Len(s) PROVE Len(t[i]) \in MinChunk .. MaxPiece
  <2>1. t[i] = s[i] BY <1>1
  <2> QED BY <2>1
<1>4. ASSUME NEW i \in 1 .. Len(t) PROVE Len(t[i]) < MaxPiece + Frame
  <2>1. i \in 1 .. Len(s) \/ i = Len(s) + 1 BY <1>1, <1>2
  <2>2. CASE i \in 1 .. Len(s)
    <3>1. Len(t[i]) \in MinChunk .. MaxPiece BY <2>2, <1>3
    <3> QED BY <3>1, Constants
  <2>3. CASE i = Len(s) + 1 BY <2>3, <1>1
  <2> QED BY <2>1, <2>2, <2>3
<1>5. \A i \in 1 .. Len(t) - 1 : Len(t[i]) \in MinChunk .. MaxPiece
  BY <1>1, <1>2, <1>3
<1> QED BY <1>1, <1>4, <1>5

LEMMA FlushFits ==
  Typed /\ ChunkFits /\ Grouped /\ Flush =>
    /\ sent' \in Seq(Seq(Int)) /\ PiecesAreFull' /\ PieceSizes'
<1> HAVE Typed /\ ChunkFits /\ Grouped /\ Flush
<1> DEFINE tail == IF vad.speech THEN Span(fed * Frame + 1, produced) ELSE <<>>
           rest == pending \o tail
           last == held \o rest
<1>1. tail \in Seq(Int) /\ Len(tail) < Frame
  <2>1. fed \in Nat /\ produced \in Nat /\ fed * Frame <= produced BY DEF Typed
  <2>2. produced < (fed + 1) * Frame
    <3>1. (fed + 1) * Frame \in Nat BY <2>1, Constants
    <3> QED BY <2>1, <3>1 DEF Flush, MoreFrames
  <2>3. fed * Frame \in Nat /\ (fed + 1) * Frame = fed * Frame + Frame BY <2>1, Constants
  <2>4. fed * Frame + 1 \in Int /\ produced - (fed * Frame + 1) + 1 \in Nat
    BY <2>1, <2>3
  <2>5. /\ Span(fed * Frame + 1, produced) \in Seq(Int)
        /\ Len(Span(fed * Frame + 1, produced)) = produced - (fed * Frame + 1) + 1
    <3>1. produced \in Int BY <2>1
    <3> QED BY <3>1, <2>4, SpanSeq, Zenon
  <2>6. Len(Span(fed * Frame + 1, produced)) < Frame BY <2>1, <2>2, <2>3, <2>5, Constants
  <2>7. <<>> \in Seq(Int) /\ Len(<<>>) < Frame BY Constants
  <2> QED BY <2>5, <2>6, <2>7
<1>2. pending \in Seq(Int) /\ held \in Seq(Int) /\ sent \in Seq(Seq(Int)) /\ Len(pending) < MaxPiece
  BY DEF Typed, ChunkFits
<1>3. rest \in Seq(Int) /\ Len(rest) < MaxPiece + Frame - 1 /\ Len(rest) \in Nat
  <2> HIDE DEF tail
  <2> QED BY <1>1, <1>2, Constants
<1>4. last \in Seq(Int) /\ Len(last) = Len(held) + Len(rest)
  <2> HIDE DEF rest
  <2> QED BY <1>2, <1>3
<1>5. /\ Neighbours(sent) /\ Len(held) \in 0 .. MaxPiece
      /\ \A i \in 1 .. Len(sent) : Len(sent[i]) \in MinChunk .. MaxPiece
      /\ sent # <<>> => Len(sent[Len(sent)]) + Len(held) > MaxPiece
  <2>1. Neighbours(sent) BY DEF Grouped, PiecesAreFull, Neighbours
  <2>2. Len(held) \in 0 .. MaxPiece BY <1>2, Constants DEF Grouped
  <2> QED BY <2>1, <2>2 DEF Grouped
<1>6. /\ pending' = <<>>
      /\ sent' = sent \o (IF Full(held, rest) THEN <<held>> ELSE <<>>)
                     \o (IF (IF Full(held, rest) THEN rest ELSE last) # <<>>
                         THEN <<IF Full(held, rest) THEN rest ELSE last>> ELSE <<>>)
  BY DEF Flush, Rest, LastOf
<1>7. \A s \in Seq(Seq(Int)), p \in Seq(Int) : s \o <<p>> = Append(s, p)
  BY AppendIsConcat
<1>8. \A s \in Seq(Seq(Int)) : s \o <<>> = s BY ConcatEmptySeq
<1> HIDE DEF tail, rest, last
<1>9. SUFFICES /\ sent' \in Seq(Seq(Int)) /\ Neighbours(sent')
               /\ \A i \in 1 .. Len(sent') : Len(sent'[i]) < MaxPiece + Frame
               /\ \A i \in 1 .. Len(sent') - 1 : Len(sent'[i]) \in MinChunk .. MaxPiece
  <2>1. Len(pending') < MaxPiece BY <1>6, Constants
  <2>2. PiecesAreFull' BY <1>9 DEF PiecesAreFull, Neighbours
  <2>3. PieceSizes' BY <1>9, <2>1 DEF PieceSizes
  <2> QED BY <1>9, <2>2, <2>3
<1>10. CASE Full(held, rest)
  <2>1. held # <<>> /\ Len(held) + Len(rest) > MaxPiece BY <1>10 DEF Full
  <2>2. Len(held) \in MinChunk .. MaxPiece BY <2>1, <1>5, Constants DEF Grouped
  <2>3. rest # <<>> BY <2>1, <1>3, <1>5, Constants
  <2> DEFINE t == Append(sent, held)
  <2>4. sent' = Append(t, rest)
    <3>1. t \in Seq(Seq(Int)) BY <1>2
    <3>2. sent' = sent \o <<held>> \o <<rest>> BY <1>6, <1>10, <2>3
    <3> QED BY <3>1, <3>2, <1>2, <1>3, <1>7
  <2>5. /\ t \in Seq(Seq(Int)) /\ Len(t) = Len(sent) + 1 /\ t[Len(sent) + 1] = held
        /\ \A i \in 1 .. Len(sent) : t[i] = sent[i]
        /\ Neighbours(t)
    BY <1>2, <1>5, OneMorePiece
  <2> HIDE DEF t
  <2>6. ASSUME NEW i \in 1 .. Len(t) PROVE Len(t[i]) \in MinChunk .. MaxPiece
    <3>1. Len(sent) \in Nat BY <1>2
    <3>2. i \in 1 .. Len(sent) \/ i = Len(sent) + 1 BY <3>1, <2>5
    <3>3. CASE i \in 1 .. Len(sent)
      <4>1. t[i] = sent[i] BY <3>3, <2>5
      <4> QED BY <4>1, <3>3, <1>5
    <3>4. CASE i = Len(sent) + 1 BY <3>4, <2>5, <2>2
    <3> QED BY <3>2, <3>3, <3>4
  <2>7. Len(t[Len(t)]) + Len(rest) > MaxPiece BY <2>5, <2>1
  <2>8. Len(rest) < MaxPiece + Frame BY <1>3, Constants
  <2> QED BY <2>4, <2>5, <2>6, <2>7, <2>8, <1>3, LastPiece
<1>11. CASE ~Full(held, rest) /\ last # <<>>
  <2>1. sent' = Append(sent, last)
    <3>1. sent' = sent \o <<>> \o <<last>> BY <1>6, <1>11
    <3> QED BY <3>1, <1>2, <1>4, <1>7, <1>8
  <2>2. Len(last) < MaxPiece + Frame
    <3>1. CASE held = <<>>
      <4>1. Len(held) = 0 BY <3>1
      <4> QED BY <4>1, <1>3, <1>4, Constants
    <3>2. CASE Len(held) + Len(rest) <= MaxPiece BY <3>2, <1>4, Constants
    <3> QED BY <3>1, <3>2, <1>11, <1>3, <1>5, Constants DEF Full
  <2>3. ASSUME sent # <<>> PROVE Len(sent[Len(sent)]) + Len(last) > MaxPiece
    <3>1. Len(sent) \in 1 .. Len(sent) BY <2>3, <1>2
    <3>2. Len(sent[Len(sent)]) \in MinChunk .. MaxPiece BY <3>1, <1>5
    <3>3. Len(sent[Len(sent)]) + Len(held) > MaxPiece BY <2>3, <1>5
    <3> DEFINE a == Len(sent[Len(sent)])
    <3>4. a \in Nat /\ a + Len(held) > MaxPiece BY <3>2, <3>3, Constants
    <3> HIDE DEF a
    <3>5. a + (Len(held) + Len(rest)) > MaxPiece BY <3>4, <1>3, <1>5, Constants
    <3> QED BY <3>5, <1>4 DEF a
  <2> QED BY <2>1, <2>2, <2>3, <1>2, <1>4, <1>5, LastPiece
<1>12. CASE ~Full(held, rest) /\ last = <<>>
  <2>1. sent' = sent BY <1>6, <1>12, <1>2, <1>8
  <2>2. \A i \in 1 .. Len(sent) : Len(sent[i]) < MaxPiece + Frame BY <1>5, Constants
  <2> QED BY <2>1, <2>2, <1>2, <1>5
<1> QED BY <1>10, <1>11, <1>12

-----------------------------------------------------------------------------
\* IInv holds at the start and through every step.

LEMMA InitIInv == Init => IInv
<1> HAVE Init
<1>1. Typed
  <2>1. fed * Frame <= produced BY Constants DEF Init, ChunkerInit, ResamplerInit, GrouperInit
  <2>2. vad \in [speech : BOOLEAN, run : Int, hang : Int] BY DEF Init, ChunkerInit
  <2> QED BY <2>1, <2>2, Constants DEF Init, ChunkerInit, ResamplerInit, GrouperInit, Typed
<1>2. ChunkFits BY Constants DEF Init, ChunkerInit, ResamplerInit, GrouperInit, ChunkFits
<1>3. Grouped BY Constants DEF Init, ChunkerInit, ResamplerInit, GrouperInit, Grouped, PiecesAreFull
<1> QED BY <1>1, <1>2, <1>3 DEF Init, ChunkerInit, ResamplerInit, GrouperInit, IInv

\* The steps that leave the chunker and the grouper alone.
LEMMA SpeechUnchanged ==
  IInv /\ UNCHANGED speech /\ (step' = "ended" <=> step = "ended")
       /\ heard' \in Nat /\ produced' \in Nat /\ fed' = fed /\ produced' >= produced
  => IInv'
<1> HAVE /\ IInv /\ UNCHANGED speech /\ (step' = "ended" <=> step = "ended")
         /\ heard' \in Nat /\ produced' \in Nat /\ fed' = fed /\ produced' >= produced
<1>1. fed' * Frame <= produced'
  <2>1. fed \in Nat /\ fed * Frame <= produced /\ produced \in Nat BY DEF IInv, Typed
  <2>2. fed * Frame \in Nat BY <2>1, Constants
  <2> QED BY <2>1, <2>2
<1>2. Typed' BY <1>1 DEF IInv, Typed, speech
<1>3. ChunkFits' BY DEF IInv, ChunkFits, speech
<1>4. step' # "ended" => Grouped' BY DEF IInv, Grouped, PiecesAreFull, speech
<1>5. step' = "ended" => PieceSizes' /\ PiecesAreFull'
  BY DEF IInv, PieceSizes, PiecesAreFull, speech
<1> QED BY <1>2, <1>3, <1>4, <1>5 DEF IInv

\* A frame is pushed: what every case of it has in common.
LEMMA FramePushed ==
  /\ IInv /\ step = "chunking" /\ MoreFrames /\ fed' = fed + 1
  /\ UNCHANGED <<heard, step, produced>>
  /\ vad' \in [speech : BOOLEAN, run : Int, hang : Int]
  /\ ring' \in Seq(Int) /\ Len(ring') <= Prefill
  /\ held' \in Seq(Int) /\ sent' \in Seq(Seq(Int)) /\ Grouped'
  /\ pending' \in Seq(Int) /\ since' \in Nat
  /\ Len(pending') < MaxPiece /\ (~vad'.speech => Len(pending') < MinChunk)
  => IInv'
<1> HAVE /\ IInv /\ step = "chunking" /\ MoreFrames /\ fed' = fed + 1
         /\ UNCHANGED <<heard, step, produced>>
         /\ vad' \in [speech : BOOLEAN, run : Int, hang : Int]
         /\ ring' \in Seq(Int) /\ Len(ring') <= Prefill
         /\ held' \in Seq(Int) /\ sent' \in Seq(Seq(Int)) /\ Grouped'
         /\ pending' \in Seq(Int) /\ since' \in Nat
         /\ Len(pending') < MaxPiece /\ (~vad'.speech => Len(pending') < MinChunk)
<1>1. fed' \in Nat /\ fed' * Frame <= produced' BY Constants DEF IInv, Typed, MoreFrames
<1>2. Typed' BY <1>1 DEF IInv, Typed
<1>3. ChunkFits' BY DEF ChunkFits
<1> QED BY <1>2, <1>3 DEF IInv

\* A chunk below the minimal size is below the limit.
LEMMA ShortFits == \A n \in Nat : n < MinChunk => n < MaxPiece
<1>1. MinChunk + Window <= MaxPiece BY CaptureAssumption DEF CaptureAssumption, ConfigFits
<1> QED BY <1>1, Constants

LEMMA PushFrameIInv == \A voiced \in BOOLEAN : IInv /\ PushFrame(voiced) => IInv'
<1> TAKE voiced \in BOOLEAN
<1> HAVE IInv /\ PushFrame(voiced)
<1>1. /\ step = "chunking" /\ MoreFrames /\ fed' = fed + 1
      /\ UNCHANGED <<heard, step, produced>> /\ vad' = Smoothed(voiced)
  BY DEF PushFrame, device
<1>2. Typed /\ ChunkFits /\ Grouped BY <1>1 DEF IInv
<1>3. vad' \in [speech : BOOLEAN, run : Int, hang : Int]
  BY <1>1, <1>2, SmoothedType DEF Typed
<1>4. fed' \in Int BY <1>1, <1>2 DEF Typed
<1>5. Ringed(fed') \in Seq(Int) /\ Len(Ringed(fed')) <= Prefill
  BY <1>2, <1>4, RingFits DEF Typed
<1>6. ring \in Seq(Int) /\ Len(ring) <= Prefill BY <1>2 DEF Typed
<1>7. CASE ~vad.speech /\ vad'.speech /\ OpensSegment(fed')
  <2>1. /\ held' \in Seq(Int) /\ sent' \in Seq(Seq(Int)) /\ Grouped'
        /\ pending' \in Seq(Int) /\ Len(pending') < MaxPiece /\ since' \in Nat
        /\ ring' \in Seq(Int) /\ Len(ring') <= Prefill
    BY <1>2, <1>4, <1>7, OpensFits
  <2> QED BY <2>1, <1>1, <1>3, <1>7, FramePushed
<1>8. CASE /\ vad.speech /\ vad'.speech /\ ContinuesSegment(fed')
           /\ ring' = IF voiced /\ ~ringsVoice THEN ring ELSE Ringed(fed')
  <2>1. /\ held' \in Seq(Int) /\ sent' \in Seq(Seq(Int)) /\ Grouped'
        /\ pending' \in Seq(Int) /\ Len(pending') < MaxPiece /\ since' \in Nat
    BY <1>2, <1>4, <1>8, ContinuesFits
  <2>2. ring' \in Seq(Int) /\ Len(ring') <= Prefill BY <1>5, <1>6, <1>8
  <2> QED BY <2>1, <2>2, <1>1, <1>3, <1>8, FramePushed
<1>9. CASE ~vad'.speech /\ vad.speech /\ EndsSegment /\ ring' = Ringed(fed')
  <2>1. /\ held' \in Seq(Int) /\ sent' \in Seq(Seq(Int)) /\ Grouped'
        /\ pending' \in Seq(Int) /\ Len(pending') < MinChunk /\ since' \in Nat
    BY <1>2, <1>9, EndsFits
  <2>2. Len(pending') < MaxPiece BY <2>1, ShortFits
  <2> QED BY <2>1, <2>2, <1>1, <1>3, <1>5, <1>9, FramePushed
<1>10. CASE ~vad'.speech /\ ~vad.speech /\ Silence /\ ring' = Ringed(fed')
  <2>1. /\ held' \in Seq(Int) /\ sent' \in Seq(Seq(Int)) /\ Grouped'
        /\ pending' \in Seq(Int) /\ Len(pending') < MinChunk /\ since' \in Nat
    BY <1>2, <1>10, SilenceFits
  <2>2. Len(pending') < MaxPiece BY <2>1, ShortFits
  <2> QED BY <2>1, <2>2, <1>1, <1>3, <1>5, <1>10, FramePushed
<1> QED BY <1>7, <1>8, <1>9, <1>10 DEF PushFrame

LEMMA PushUnheardIInv == IInv /\ PushUnheard => IInv'
<1> HAVE IInv /\ PushUnheard
<1>1. /\ step = "chunking" /\ MoreFrames /\ fed' = fed + 1
      /\ UNCHANGED <<heard, step, produced>> /\ vad' = vad
      /\ ring' \in {ring, Ringed(fed')}
  BY DEF PushUnheard, device
<1>2. Typed /\ ChunkFits /\ Grouped BY <1>1 DEF IInv
<1>3. vad' \in [speech : BOOLEAN, run : Int, hang : Int] BY <1>1, <1>2 DEF Typed
<1>4. fed' \in Int BY <1>1, <1>2 DEF Typed
<1>5. ring' \in Seq(Int) /\ Len(ring') <= Prefill
  BY <1>1, <1>2, <1>4, RingFits DEF Typed
<1>6. CASE vad.speech /\ ContinuesSegment(fed')
  <2>1. /\ held' \in Seq(Int) /\ sent' \in Seq(Seq(Int)) /\ Grouped'
        /\ pending' \in Seq(Int) /\ Len(pending') < MaxPiece /\ since' \in Nat
    BY <1>2, <1>4, <1>6, ContinuesFits
  <2> QED BY <2>1, <1>1, <1>3, <1>5, <1>6, FramePushed
<1>7. CASE ~vad.speech /\ Silence
  <2>1. /\ held' \in Seq(Int) /\ sent' \in Seq(Seq(Int)) /\ Grouped'
        /\ pending' \in Seq(Int) /\ Len(pending') < MinChunk /\ since' \in Nat
    BY <1>2, <1>7, SilenceFits
  <2>2. Len(pending') < MaxPiece BY <2>1, ShortFits
  <2> QED BY <2>1, <2>2, <1>1, <1>3, <1>5, FramePushed
<1> QED BY <1>6, <1>7 DEF PushUnheard

\* The session is closed: what was held and pending is gone, sent or discarded.
LEMMA Closed ==
  /\ IInv /\ UNCHANGED <<heard, produced, fed, vad, ring, since>>
  /\ step' = "ended" /\ pending' = <<>> /\ held' = <<>>
  /\ sent' \in Seq(Seq(Int)) /\ PieceSizes' /\ PiecesAreFull'
  => IInv'
<1> HAVE /\ IInv /\ UNCHANGED <<heard, produced, fed, vad, ring, since>>
         /\ step' = "ended" /\ pending' = <<>> /\ held' = <<>>
         /\ sent' \in Seq(Seq(Int)) /\ PieceSizes' /\ PiecesAreFull'
<1>1. Typed' BY DEF IInv, Typed
<1>2. ChunkFits' BY Constants DEF ChunkFits
<1> QED BY <1>1, <1>2 DEF IInv

LEMMA FlushIInv == IInv /\ Flush => IInv'
<1> HAVE IInv /\ Flush
<1>1. step = "chunking" /\ step' = "ended" /\ pending' = <<>> /\ held' = <<>>
  BY DEF Flush
<1>2. UNCHANGED <<heard, produced, fed, vad, ring, since>> BY DEF Flush, device
<1>3. sent' \in Seq(Seq(Int)) /\ PiecesAreFull' /\ PieceSizes'
  BY <1>1, FlushFits DEF IInv
<1> QED BY <1>1, <1>2, <1>3, Closed

LEMMA CancelIInv == IInv /\ Cancel => IInv'
<1> HAVE IInv /\ Cancel
<1>1. /\ step = "chunking" /\ step' = "ended" /\ pending' = <<>> /\ held' = <<>>
      /\ sent' = sent
  BY DEF Cancel
<1>2. UNCHANGED <<heard, produced, fed, vad, ring, since>> BY DEF Cancel, device
<1>3. Typed /\ Grouped BY <1>1 DEF IInv
<1>4. sent' \in Seq(Seq(Int)) /\ PiecesAreFull'
  BY <1>1, <1>3 DEF Typed, Grouped, PiecesAreFull
<1>5. PieceSizes'
  <2>1. \A i \in 1 .. Len(sent) : Len(sent[i]) \in MinChunk .. MaxPiece
    BY <1>3 DEF Grouped
  <2>2. \A i \in 1 .. Len(sent) : Len(sent[i]) < MaxPiece + Frame BY <2>1, Constants
  <2>3. Len(sent) \in Nat BY <1>3 DEF Typed
  <2>4. \A i \in 1 .. Len(sent) - 1 : i \in 1 .. Len(sent) BY <2>3
  <2>5. Len(pending') < MaxPiece BY <1>1, Constants
  <2> QED BY <1>1, <2>1, <2>2, <2>4, <2>5 DEF PieceSizes
<1> QED BY <1>1, <1>2, <1>4, <1>5, Closed

LEMMA NextIInv == IInv /\ [Next]_vars => IInv'
<1> SUFFICES ASSUME IInv, [Next]_vars PROVE IInv'
  OBVIOUS
<1>1. /\ heard \in Nat /\ produced \in Nat /\ Available(heard) \in Nat
  BY AvailableNat DEF IInv, Typed
<1>2. ASSUME NEW k \in Batches, Deliver(k) PROVE IInv'
  <2>1. heard' \in Nat BY <1>1, <1>2, Constants DEF Deliver
  <2> QED BY <1>1, <1>2, <2>1, SpeechUnchanged DEF Deliver
<1>3. ASSUME NEW c \in BOOLEAN, DropStream(c) PROVE IInv'
  BY <1>1, <1>3, SpeechUnchanged DEF DropStream
<1>4. CASE SetStop BY <1>1, <1>4, SpeechUnchanged DEF SetStop, device
<1>5. CASE ReadStop BY <1>1, <1>5, SpeechUnchanged DEF ReadStop, device
<1>6. CASE Drain
  <2>1. produced' \in Nat /\ produced' >= produced BY <1>1, <1>6 DEF Drain, Most
  <2> QED BY <1>1, <1>6, <2>1, SpeechUnchanged DEF Drain, device
<1>7. ASSUME NEW voiced \in BOOLEAN, PushFrame(voiced) PROVE IInv'
  BY <1>7, PushFrameIInv
<1>8. CASE PushUnheard BY <1>8, PushUnheardIInv
<1>9. CASE NextTick BY <1>1, <1>9, SpeechUnchanged DEF NextTick, device
<1>10. CASE Flush BY <1>10, FlushIInv
<1>11. CASE Cancel BY <1>11, CancelIInv
<1>12. CASE UNCHANGED vars BY <1>1, <1>12, SpeechUnchanged DEF vars, device
<1> QED BY <1>2, <1>3, <1>4, <1>5, <1>6, <1>7, <1>8, <1>9, <1>10, <1>11, <1>12 DEF Next

\* While the session is open, legal pieces follow from Grouped.
LEMMA IInvSizes == IInv => PieceSizes /\ PiecesAreFull
<1> HAVE IInv
<1>1. CASE step = "ended" BY <1>1 DEF IInv
<1>2. CASE step # "ended"
  <2>1. Typed /\ ChunkFits /\ Grouped BY <1>2 DEF IInv
  <2>2. \A i \in 1 .. Len(sent) : Len(sent[i]) \in MinChunk .. MaxPiece
    BY <2>1 DEF Grouped
  <2>3. \A i \in 1 .. Len(sent) : Len(sent[i]) < MaxPiece + Frame BY <2>2, Constants
  <2>4. Len(sent) \in Nat BY <2>1 DEF Typed
  <2>5. \A i \in 1 .. Len(sent) - 1 : i \in 1 .. Len(sent) BY <2>4
  <2>6. Len(pending) < MaxPiece BY <2>1 DEF ChunkFits
  <2> QED BY <2>1, <2>2, <2>3, <2>5, <2>6 DEF PieceSizes, Grouped
<1> QED BY <1>1, <1>2

\* However a recording is spoken, delivered and ended, no piece of it is over
\* the limit by a frame or more, and none but the last is shorter than a minimal
\* chunk (VadChunker, PieceGrouper and the forced cut together).
THEOREM LegalPieces == Spec => []PieceSizes
<1>1. Spec => []IInv BY InitIInv, NextIInv, PTL DEF Spec
<1>2. IInv => PieceSizes BY IInvSizes
<1> QED BY <1>1, <1>2, PTL

\* A dictation up to the limit reaches the daemon in one piece: two neighbours
\* are together over it (PieceGrouper, also across forced cuts and the last tick).
THEOREM FullPieces == Spec => []PiecesAreFull
<1>1. Spec => []IInv BY InitIInv, NextIInv, PTL DEF Spec
<1>2. IInv => PiecesAreFull BY IInvSizes
<1> QED BY <1>1, <1>2, PTL

\* Both together, for every frame size, limit and rate.
THEOREM PiecesAlwaysFit == Spec => []PiecesFit
<1>1. PieceSizes /\ PiecesAreFull => PiecesFit BY DEF PiecesFit
<1> QED BY <1>1, LegalPieces, FullPieces, PTL

-----------------------------------------------------------------------------
\* What is said of the samples, wherever they are on their way.

\* A piece has its samples in the order they were spoken.
Sorted(s) == \A i, j \in 1 .. Len(s) : i < j => s[i] < s[j]

\* Everything in one piece was spoken before anything in another.
Precedes(s, t) == \A x \in Range(s), y \in Range(t) : x < y

\* Pieces s, then what is held, then what is pending: in order, and nothing twice.
LinedUp(s, h, p) ==
  /\ \A i \in 1 .. Len(s) : Sorted(s[i]) /\ Precedes(s[i], h) /\ Precedes(s[i], p)
  /\ \A i, j \in 1 .. Len(s) : i < j => Precedes(s[i], s[j])
  /\ Sorted(h) /\ Sorted(p) /\ Precedes(h, p)

\* The samples of all of them.
Said(s, h, p) == (UNION {Range(s[i]) : i \in 1 .. Len(s)}) \cup Range(h) \cup Range(p)

LEMMA RangeAt ==
  ASSUME NEW s \in Seq(Int)
  PROVE  /\ \A x : x \in Range(s) <=> \E i \in 1 .. Len(s) : x = s[i]
         /\ \A i \in 1 .. Len(s) : s[i] \in Range(s)
         /\ Range(s) \subseteq Int
<1>1. Range(s) = {s[i] : i \in 1 .. Len(s)} BY RangeEquality
<1> QED BY <1>1

LEMMA PrecedesConcat ==
  ASSUME NEW r \in Seq(Int), NEW s \in Seq(Int), NEW t \in Seq(Int)
  PROVE  /\ Precedes(r, s \o t) <=> Precedes(r, s) /\ Precedes(r, t)
         /\ Precedes(s \o t, r) <=> Precedes(s, r) /\ Precedes(t, r)
<1>1. Range(s \o t) = Range(s) \cup Range(t) BY RangeConcatenation
<1> QED BY <1>1 DEF Precedes

LEMMA PrecedesEmpty ==
  ASSUME NEW r \in Seq(Int)
  PROVE  Precedes(r, <<>>) /\ Precedes(<<>>, r) /\ Sorted(<<>>) /\ Range(<<>>) = {}
<1>1. Range(<<>>) = {} BY DEF Range
<1> QED BY <1>1 DEF Precedes, Sorted

\* Two pieces together are in order if each is and the first was spoken first.
LEMMA SortedConcat ==
  ASSUME NEW s \in Seq(Int), NEW t \in Seq(Int)
  PROVE  Sorted(s \o t) <=> Sorted(s) /\ Sorted(t) /\ Precedes(s, t)
<1> DEFINE u == s \o t
<1>1. /\ u \in Seq(Int) /\ Len(u) = Len(s) + Len(t)
      /\ \A i \in 1 .. Len(s) + Len(t) : u[i] = IF i <= Len(s) THEN s[i] ELSE t[i - Len(s)]
  BY ConcatProperties
<1>2. Len(s) \in Nat /\ Len(t) \in Nat OBVIOUS
<1> HIDE DEF u
<1>3. \A i \in 1 .. Len(s) : i \in 1 .. Len(u) /\ u[i] = s[i] BY <1>1, <1>2
<1>4. \A i \in 1 .. Len(t) : Len(s) + i \in 1 .. Len(u) /\ u[Len(s) + i] = t[i]
  <2> TAKE i \in 1 .. Len(t)
  <2>1. Len(s) + i \in 1 .. Len(s) + Len(t) /\ ~(Len(s) + i <= Len(s)) BY <1>2
  <2>2. (Len(s) + i) - Len(s) = i BY <1>2
  <2> QED BY <2>1, <2>2, <1>1
<1>5. ASSUME Sorted(u) PROVE Sorted(s) /\ Sorted(t) /\ Precedes(s, t)
  <2>1. Sorted(s)
    <3> SUFFICES ASSUME NEW i \in 1 .. Len(s), NEW j \in 1 .. Len(s), i < j PROVE s[i] < s[j]
      BY DEF Sorted
    <3> QED BY <1>3, <1>5 DEF Sorted
  <2>2. Sorted(t)
    <3> SUFFICES ASSUME NEW i \in 1 .. Len(t), NEW j \in 1 .. Len(t), i < j PROVE t[i] < t[j]
      BY DEF Sorted
    <3>1. Len(s) + i < Len(s) + j BY <1>2
    <3> QED BY <3>1, <1>4, <1>5 DEF Sorted
  <2>3. Precedes(s, t)
    <3> SUFFICES ASSUME NEW x \in Range(s), NEW y \in Range(t) PROVE x < y BY DEF Precedes
    <3>1. PICK i \in 1 .. Len(s) : x = s[i] BY RangeAt
    <3>2. PICK j \in 1 .. Len(t) : y = t[j] BY RangeAt
    <3>3. i < Len(s) + j BY <1>2
    <3> QED BY <3>1, <3>2, <3>3, <1>3, <1>4, <1>5 DEF Sorted
  <2> QED BY <2>1, <2>2, <2>3
<1>6. ASSUME Sorted(s), Sorted(t), Precedes(s, t) PROVE Sorted(u)
  <2> SUFFICES ASSUME NEW i \in 1 .. Len(u), NEW j \in 1 .. Len(u), i < j PROVE u[i] < u[j]
    BY DEF Sorted
  <2>1. CASE j <= Len(s)
    <3>1. i \in 1 .. Len(s) /\ j \in 1 .. Len(s) BY <2>1, <1>2
    <3> QED BY <3>1, <1>3, <1>6 DEF Sorted
  <2>2. CASE i <= Len(s) /\ ~(j <= Len(s))
    <3>1. i \in 1 .. Len(s) /\ j - Len(s) \in 1 .. Len(t) BY <2>2, <1>1, <1>2
    <3>2. u[i] = s[i] /\ u[j] = t[j - Len(s)] BY <2>2, <3>1, <1>1
    <3>3. s[i] \in Range(s) /\ t[j - Len(s)] \in Range(t) BY <3>1, RangeAt
    <3> QED BY <3>2, <3>3, <1>6 DEF Precedes
  <2>3. CASE ~(i <= Len(s))
    <3>1. i - Len(s) \in 1 .. Len(t) /\ j - Len(s) \in 1 .. Len(t) /\ ~(j <= Len(s))
          /\ i - Len(s) < j - Len(s)
      BY <2>3, <1>1, <1>2
    <3>2. u[i] = t[i - Len(s)] /\ u[j] = t[j - Len(s)] BY <2>3, <3>1, <1>1
    <3> QED BY <3>1, <3>2, <1>6 DEF Sorted
  <2> QED BY <2>1, <2>2, <2>3
<1> QED BY <1>5, <1>6 DEF u

\* What the property compares: neighbours within a piece, and the ends of pieces.
LEMMA SortedIncreasing == \A s \in Seq(Int) : Sorted(s) => Increasing(s)
<1> TAKE s \in Seq(Int)
<1> HAVE Sorted(s)
<1>1. ASSUME NEW i \in 1 .. Len(s) - 1 PROVE s[i] < s[i + 1]
  <2>1. i \in 1 .. Len(s) /\ i + 1 \in 1 .. Len(s) /\ i < i + 1 BY <1>1
  <2> QED BY <2>1 DEF Sorted
<1> QED BY <1>1 DEF Increasing

LEMMA PrecedesBefore == \A s, t \in Seq(Int) : Precedes(s, t) => Before(s, t)
<1> TAKE s, t \in Seq(Int)
<1> HAVE Precedes(s, t)
<1>1. ASSUME s # <<>>, t # <<>> PROVE Last(s) < Head(t)
  <2>1. Len(s) \in 1 .. Len(s) /\ 1 \in 1 .. Len(t) BY <1>1
  <2>2. Last(s) = s[Len(s)] /\ Head(t) = t[1] BY <1>1 DEF Last
  <2> QED BY <2>1, <2>2, RangeAt DEF Precedes
<1> QED BY <1>1 DEF Before

\* A forced cut leaves something on either side of it.
LEMMA CutEndsEarly ==
  \A s \in Seq(Int) : Len(s) \in MaxPiece .. MaxPiece + Frame - 1 =>
    \A c \in Cuts(s) : c \in 1 .. Len(s) - 1
<1> TAKE s \in Seq(Int)
<1> HAVE Len(s) \in MaxPiece .. MaxPiece + Frame - 1
<1> TAKE c \in Cuts(s)
<1>1. c >= 1 /\ c \in Int BY CutFits, Constants
<1> DEFINE last == Len(s) - Window
           from == Least(Most(Most(Len(s) - Search, 0), MinChunk), last)
<1>2. MinChunk + Window <= MaxPiece /\ Window \in Nat \ {0}
  BY CaptureAssumption DEF CaptureAssumption, ConfigFits
<1>3. last \in Nat BY <1>2, Constants
<1>4. PICK t \in from .. last : c = t + Window \div 2 BY <1>3 DEF Cuts
<1>5. Window \div 2 \in Nat /\ Window \div 2 < Window BY <1>2
<1>6. from \in Int BY <1>3, Constants DEF Least, Most
<1>7. t <= last /\ t \in Int BY <1>3, <1>4, <1>6
<1> QED BY <1>1, <1>2, <1>4, <1>5, <1>7

\* A piece closed, with the next one after it in what is held.
LEMMA LinedAppend ==
  ASSUME NEW s \in Seq(Seq(Int)), NEW h \in Seq(Int), NEW c \in Seq(Int), NEW r \in Seq(Int)
  PROVE  /\ LinedUp(s, h, c \o r) => LinedUp(Append(s, h), c, r)
         /\ Said(Append(s, h), c, r) = Said(s, h, c \o r)
<1> DEFINE t == Append(s, h)
<1>1. /\ t \in Seq(Seq(Int)) /\ Len(t) = Len(s) + 1 /\ t[Len(s) + 1] = h
      /\ \A i \in 1 .. Len(s) : t[i] = s[i]
  OBVIOUS
<1>2. Len(s) \in Nat /\ \A i \in 1 .. Len(s) : s[i] \in Seq(Int) OBVIOUS
<1> HIDE DEF t
<1>3. \A i \in 1 .. Len(t) : i \in 1 .. Len(s) \/ i = Len(s) + 1 BY <1>1, <1>2
<1>4. ASSUME LinedUp(s, h, c \o r) PROVE LinedUp(t, c, r)
  <2>1. Sorted(c) /\ Sorted(r) /\ Precedes(c, r) BY <1>4, SortedConcat DEF LinedUp
  <2>2. Sorted(h) /\ Precedes(h, c) /\ Precedes(h, r) BY <1>4, PrecedesConcat DEF LinedUp
  <2>3. ASSUME NEW i \in 1 .. Len(s) PROVE Sorted(s[i]) /\ Precedes(s[i], c) /\ Precedes(s[i], r)
    <3>1. Sorted(s[i]) /\ Precedes(s[i], c \o r) BY <1>4 DEF LinedUp
    <3>2. s[i] \in Seq(Int) BY <1>2
    <3> QED BY <3>1, <3>2, PrecedesConcat
  <2>4. ASSUME NEW i \in 1 .. Len(t) PROVE Sorted(t[i]) /\ Precedes(t[i], c) /\ Precedes(t[i], r)
    <3>1. CASE i \in 1 .. Len(s)
      <4>1. t[i] = s[i] BY <3>1, <1>1
      <4> QED BY <4>1, <3>1, <2>3
    <3>2. CASE i = Len(s) + 1 BY <3>2, <1>1, <2>2
    <3> QED BY <3>1, <3>2, <1>3
  <2>5. ASSUME NEW i \in 1 .. Len(t), NEW j \in 1 .. Len(t), i < j PROVE Precedes(t[i], t[j])
    <3>1. i \in 1 .. Len(s) BY <2>5, <1>1, <1>2
    <3>2. t[i] = s[i] BY <3>1, <1>1
    <3>3. CASE j \in 1 .. Len(s)
      <4>1. t[j] = s[j] BY <3>3, <1>1
      <4>2. Precedes(s[i], s[j]) BY <1>4, <2>5, <3>1, <3>3 DEF LinedUp
      <4> QED BY <4>1, <4>2, <3>2
    <3>4. CASE j = Len(s) + 1
      <4>1. Precedes(s[i], h) BY <1>4, <3>1 DEF LinedUp
      <4> QED BY <4>1, <3>2, <3>4, <1>1
    <3> QED BY <3>3, <3>4, <1>3
  <2> QED BY <2>1, <2>4, <2>5 DEF LinedUp
<1>5. Said(t, c, r) = Said(s, h, c \o r)
  <2>1. Range(c \o r) = Range(c) \cup Range(r) BY RangeConcatenation
  <2>2. UNION {Range(t[i]) : i \in 1 .. Len(t)}
          = (UNION {Range(s[i]) : i \in 1 .. Len(s)}) \cup Range(h)
    <3>1. ASSUME NEW x, x \in UNION {Range(t[i]) : i \in 1 .. Len(t)}
          PROVE  x \in (UNION {Range(s[i]) : i \in 1 .. Len(s)}) \cup Range(h)
      <4>1. PICK i \in 1 .. Len(t) : x \in Range(t[i]) BY <3>1
      <4>2. CASE i \in 1 .. Len(s)
        <5>1. x \in Range(s[i]) BY <4>1, <4>2, <1>1
        <5> QED BY <5>1, <4>2
      <4>3. CASE i = Len(s) + 1 BY <4>1, <4>3, <1>1
      <4> QED BY <4>2, <4>3, <1>3
    <3>2. ASSUME NEW x, x \in (UNION {Range(s[i]) : i \in 1 .. Len(s)}) \cup Range(h)
          PROVE  x \in UNION {Range(t[i]) : i \in 1 .. Len(t)}
      <4>1. ASSUME NEW i \in 1 .. Len(s), x \in Range(s[i])
            PROVE x \in UNION {Range(t[k]) : k \in 1 .. Len(t)}
        <5>1. i \in 1 .. Len(t) /\ t[i] = s[i] BY <4>1, <1>1, <1>2
        <5> QED BY <4>1, <5>1
      <4>2. CASE x \in Range(h)
        <5>1. Len(s) + 1 \in 1 .. Len(t) /\ t[Len(s) + 1] = h BY <1>1, <1>2
        <5> QED BY <4>2, <5>1
      <4> QED BY <3>2, <4>1, <4>2
    <3> QED BY <3>1, <3>2
  <2> QED BY <2>1, <2>2 DEF Said
<1> QED BY <1>4, <1>5 DEF t

\* A chunk joined to what is held.
LEMMA LinedJoin ==
  ASSUME NEW s \in Seq(Seq(Int)), NEW h \in Seq(Int), NEW c \in Seq(Int), NEW r \in Seq(Int)
  PROVE  /\ LinedUp(s, h, c \o r) => LinedUp(s, h \o c, r)
         /\ Said(s, h \o c, r) = Said(s, h, c \o r)
<1>1. Range(c \o r) = Range(c) \cup Range(r) /\ Range(h \o c) = Range(h) \cup Range(c)
  BY RangeConcatenation
<1>2. Said(s, h \o c, r) = Said(s, h, c \o r) BY <1>1 DEF Said
<1>3. ASSUME LinedUp(s, h, c \o r) PROVE LinedUp(s, h \o c, r)
  <2>1. Sorted(c) /\ Sorted(r) /\ Precedes(c, r) BY <1>3, SortedConcat DEF LinedUp
  <2>2. Sorted(h) /\ Precedes(h, c) /\ Precedes(h, r) BY <1>3, PrecedesConcat DEF LinedUp
  <2>3. Sorted(h \o c) BY <2>1, <2>2, SortedConcat
  <2>4. Precedes(h \o c, r) BY <2>1, <2>2, PrecedesConcat
  <2>5. ASSUME NEW i \in 1 .. Len(s)
        PROVE  Sorted(s[i]) /\ Precedes(s[i], h \o c) /\ Precedes(s[i], r)
    <3>1. Sorted(s[i]) /\ Precedes(s[i], h) /\ Precedes(s[i], c \o r) BY <1>3 DEF LinedUp
    <3>2. s[i] \in Seq(Int) OBVIOUS
    <3> QED BY <3>1, <3>2, PrecedesConcat
  <2>6. \A i, j \in 1 .. Len(s) : i < j => Precedes(s[i], s[j]) BY <1>3 DEF LinedUp
  <2> QED BY <2>1, <2>3, <2>4, <2>5, <2>6 DEF LinedUp
<1> QED BY <1>2, <1>3

\* New speech, all of it after everything before, joined to what is pending.
LEMMA LinedExtend ==
  ASSUME NEW s \in Seq(Seq(Int)), NEW h \in Seq(Int), NEW p \in Seq(Int), NEW n \in Seq(Int),
         NEW b \in Int, \A y \in Range(n) : y > b
  PROVE  /\ Said(s, h, p \o n) = Said(s, h, p) \cup Range(n)
         /\ LinedUp(s, h, p) /\ Sorted(n) /\ (\A x \in Said(s, h, p) : x <= b)
              => LinedUp(s, h, p \o n)
<1>1. Range(p \o n) = Range(p) \cup Range(n) BY RangeConcatenation
<1>2. Said(s, h, p \o n) = Said(s, h, p) \cup Range(n) BY <1>1 DEF Said
<1>3. ASSUME LinedUp(s, h, p), Sorted(n), \A x \in Said(s, h, p) : x <= b
      PROVE  LinedUp(s, h, p \o n)
  <2>1. ASSUME NEW q \in Seq(Int), Range(q) \subseteq Said(s, h, p) PROVE Precedes(q, n)
    <3> SUFFICES ASSUME NEW x \in Range(q), NEW y \in Range(n) PROVE x < y BY DEF Precedes
    <3>1. x <= b /\ y > b BY <1>3, <2>1
    <3>2. x \in Int /\ y \in Int BY RangeAt
    <3> QED BY <3>1, <3>2
  <2>2. Precedes(h, n) /\ Precedes(p, n) BY <2>1 DEF Said
  <2>3. Sorted(p \o n) BY <2>2, <1>3, SortedConcat DEF LinedUp
  <2>4. Precedes(h, p \o n) BY <2>2, <1>3, PrecedesConcat DEF LinedUp
  <2>5. ASSUME NEW i \in 1 .. Len(s)
        PROVE  Sorted(s[i]) /\ Precedes(s[i], h) /\ Precedes(s[i], p \o n)
    <3>1. Sorted(s[i]) /\ Precedes(s[i], h) /\ Precedes(s[i], p) BY <1>3 DEF LinedUp
    <3>2. s[i] \in Seq(Int) OBVIOUS
    <3>3. Range(s[i]) \subseteq Said(s, h, p) BY DEF Said
    <3>4. Precedes(s[i], n) BY <2>1, <3>2, <3>3
    <3> QED BY <3>1, <3>2, <3>4, PrecedesConcat
  <2>6. \A i, j \in 1 .. Len(s) : i < j => Precedes(s[i], s[j]) BY <1>3 DEF LinedUp
  <2>7. Sorted(h) BY <1>3 DEF LinedUp
  <2> QED BY <2>3, <2>4, <2>5, <2>6, <2>7 DEF LinedUp
<1> QED BY <1>2, <1>3

\* PieceGrouper::push keeps the order and loses nothing, r being what stays pending.
LEMMA GroupLined ==
  \A chunk, r \in Seq(Int) :
    /\ held \in Seq(Int) /\ sent \in Seq(Seq(Int)) /\ Group(chunk)
    => /\ held' \in Seq(Int) /\ sent' \in Seq(Seq(Int))
       /\ Said(sent', held', r) = Said(sent, held, chunk \o r)
       /\ LinedUp(sent, held, chunk \o r) => LinedUp(sent', held', r)
<1> TAKE chunk, r \in Seq(Int)
<1> HAVE held \in Seq(Int) /\ sent \in Seq(Seq(Int)) /\ Group(chunk)
<1>1. CASE sent' = Append(sent, held) /\ held' = chunk
  <2>1. sent' \in Seq(Seq(Int)) /\ held' \in Seq(Int) BY <1>1
  <2> QED BY <2>1, <1>1, LinedAppend
<1>2. CASE held' = held \o chunk /\ sent' = sent
  <2>1. sent' \in Seq(Seq(Int)) /\ held' \in Seq(Int) BY <1>2
  <2> QED BY <2>1, <1>2, LinedJoin
<1> QED BY <1>1, <1>2 DEF Group

\* cut_overlong_speech too; and it keeps the newest sample pending.
LEMMA GrowLined ==
  \A grown \in Seq(Int) :
    /\ held \in Seq(Int) /\ sent \in Seq(Seq(Int))
    /\ grown # <<>> /\ Len(grown) < MaxPiece + Frame
    /\ Grow(grown)
    => /\ Said(sent', held', pending') = Said(sent, held, grown)
       /\ LinedUp(sent, held, grown) => LinedUp(sent', held', pending')
       /\ pending' # <<>> /\ pending'[Len(pending')] = grown[Len(grown)]
<1> TAKE grown \in Seq(Int)
<1> HAVE /\ held \in Seq(Int) /\ sent \in Seq(Seq(Int))
         /\ grown # <<>> /\ Len(grown) < MaxPiece + Frame
         /\ Grow(grown)
<1>1. CASE pending' = grown /\ UNCHANGED <<held, sent>> BY <1>1
<1>2. ASSUME Len(grown) >= MaxPiece, NEW c \in Cuts(grown),
             Group(SubSeq(grown, 1, c)), pending' = SubSeq(grown, c + 1, Len(grown))
      PROVE  /\ Said(sent', held', pending') = Said(sent, held, grown)
             /\ LinedUp(sent, held, grown) => LinedUp(sent', held', pending')
             /\ pending' # <<>> /\ pending'[Len(pending')] = grown[Len(grown)]
  <2>1. Len(grown) \in MaxPiece .. MaxPiece + Frame - 1 BY <1>2, Constants
  <2>2. c \in 1 .. Len(grown) - 1 BY <2>1, CutEndsEarly
  <2>3. SubSeq(grown, 1, c) \in Seq(Int) BY <2>2
  <2>4. /\ pending' \in Seq(Int) /\ Len(pending') = Len(grown) - c
        /\ \A i \in 1 .. Len(grown) - c : pending'[i] = grown[c + i]
    BY <1>2, <2>2
  <2>5. SubSeq(grown, 1, c) \o pending' = grown
    <3>1. SubSeq(grown, 1, c) \o SubSeq(grown, c + 1, Len(grown)) = SubSeq(grown, 1, Len(grown))
      BY <2>2, ConcatAdjacentSubSeq
    <3> QED BY <3>1, <1>2, SubSeqFull
  <2>6. /\ Said(sent', held', pending') = Said(sent, held, grown)
        /\ LinedUp(sent, held, grown) => LinedUp(sent', held', pending')
    BY <1>2, <2>3, <2>4, <2>5, GroupLined
  <2>7. pending' # <<>> /\ pending'[Len(pending')] = grown[Len(grown)]
    <3>1. Len(pending') \in 1 .. Len(grown) - c BY <2>2, <2>4
    <3>2. c + Len(pending') = Len(grown) BY <2>2, <2>4
    <3> QED BY <3>1, <3>2, <2>4
  <2> QED BY <2>6, <2>7
<1> QED BY <1>1, <1>2 DEF Grow

-----------------------------------------------------------------------------
\* Frames and the prefill ring.

LEMMA SpanFacts ==
  \A a, b \in Int : b - a + 1 \in Nat =>
    /\ Sorted(Span(a, b)) /\ Range(Span(a, b)) = a .. b
    /\ b >= a => Span(a, b)[Len(Span(a, b))] = b
<1> TAKE a, b \in Int
<1> HAVE b - a + 1 \in Nat
<1> DEFINE s == Span(a, b)
<1>1. /\ s \in Seq(Int) /\ Len(s) = b - a + 1
      /\ \A i \in 1 .. Len(s) : s[i] = a + i - 1
  BY SpanSeq DEF Span
<1> HIDE DEF s
<1>2. Sorted(s) BY <1>1 DEF Sorted
<1>3. Range(s) = a .. b
  <2>1. ASSUME NEW x \in Range(s) PROVE x \in a .. b
    <3>1. PICK i \in 1 .. Len(s) : x = s[i] BY <1>1, RangeAt
    <3> QED BY <3>1, <1>1
  <2>2. ASSUME NEW x \in a .. b PROVE x \in Range(s)
    <3>1. x - a + 1 \in 1 .. Len(s) BY <1>1
    <3>2. s[x - a + 1] = x BY <3>1, <1>1
    <3> QED BY <3>1, <3>2, <1>1, RangeAt
  <2> QED BY <2>1, <2>2
<1>4. b >= a => s[Len(s)] = b BY <1>1
<1> QED BY <1>2, <1>3, <1>4 DEF s

\* A frame is Frame samples, the last of them f * Frame.
LEMMA SamplesFacts ==
  \A f \in Int :
    /\ Sorted(Samples(f)) /\ Range(Samples(f)) = (f - 1) * Frame + 1 .. f * Frame
    /\ Samples(f)[Len(Samples(f))] = f * Frame
    /\ \A i \in 1 .. Frame : Samples(f)[i] = (f - 1) * Frame + i
    /\ f * Frame = (f - 1) * Frame + Frame /\ f * Frame \in Int /\ (f - 1) * Frame \in Int
<1> TAKE f \in Int
<1>1. /\ (f - 1) * Frame \in Int /\ f * Frame \in Int
      /\ f * Frame = (f - 1) * Frame + Frame
  BY Constants
<1> DEFINE a == (f - 1) * Frame
           b == f * Frame
<1>2. a \in Int /\ a + 1 \in Int /\ b \in Int /\ b = a + Frame BY <1>1
<1>3. Samples(f) = Span(a + 1, b) BY DEF Samples
<1> HIDE DEF a, b
<1>4. b - (a + 1) + 1 = Frame /\ b >= a + 1 BY <1>2, Constants
<1>5. /\ Sorted(Span(a + 1, b)) /\ Range(Span(a + 1, b)) = a + 1 .. b
      /\ Span(a + 1, b)[Len(Span(a + 1, b))] = b
  BY <1>2, <1>4, SpanFacts, Constants
<1>6. \A i \in 1 .. Frame : Span(a + 1, b)[i] = a + i BY <1>2, <1>4, Constants DEF Span
<1>7. Sorted(Samples(f)) /\ Range(Samples(f)) = a + 1 .. b /\ Samples(f)[Len(Samples(f))] = b
      /\ \A i \in 1 .. Frame : Samples(f)[i] = a + i
  BY <1>3, <1>5, <1>6
<1> QED BY <1>7, <1>1 DEF a, b

\* The last k of the frames fs are the k frames up to f.
Ends(fs, k, f) == k <= Len(fs) /\ \A i \in 1 .. k : fs[Len(fs) - k + i] = f - k + i

\* The ring's audio, when it holds the k frames up to f: one stretch of speech.
LEMMA RingAudio ==
  ASSUME NEW fs \in Seq(Int), NEW f \in Nat, Len(fs) <= f, Ends(fs, Len(fs), f)
  PROVE  \A i \in 1 .. Len(fs) * Frame : SamplesOf(fs)[i] = (f - Len(fs)) * Frame + i
<1> DEFINE k == Len(fs)
           a == f - k
<1>1. k \in Nat /\ a \in Nat /\ k * Frame \in Nat BY Constants
<1>2. \A i \in 1 .. k : fs[i] = a + i BY DEF Ends
<1> HIDE DEF k, a
<1> SUFFICES ASSUME NEW i \in 1 .. k * Frame
             PROVE  SamplesOf(fs)[i] = a * Frame + i
  BY DEF k, a
<1> DEFINE q == (i - 1) \div Frame
           r == (i - 1) % Frame
<1>3. SamplesOf(fs)[i] = Samples(fs[q + 1])[r + 1] BY DEF SamplesOf, k
<1>4. i - 1 \in Nat /\ i - 1 < k * Frame BY <1>1
<1>5. q \in 0 .. k - 1 BY <1>1, <1>4, FrameOfSample
<1>6. r \in 0 .. Frame - 1 /\ i - 1 = q * Frame + r BY <1>4, Constants
<1> HIDE DEF q, r
<1>7. fs[q + 1] = a + q + 1 BY <1>1, <1>2, <1>5
<1>8. Samples(a + q + 1)[r + 1] = (a + q) * Frame + (r + 1)
  <2>1. a + q + 1 \in Int /\ r + 1 \in 1 .. Frame /\ (a + q + 1) - 1 = a + q
    BY <1>1, <1>5, <1>6, Constants
  <2>2. Samples(a + q + 1)[r + 1] = ((a + q + 1) - 1) * Frame + (r + 1) BY <2>1, SamplesFacts
  <2> QED BY <2>1, <2>2
<1>9. (a + q) * Frame = a * Frame + q * Frame /\ a * Frame \in Int /\ q * Frame \in Int
  BY <1>1, <1>5, Constants
<1>10. (a + q) * Frame + (r + 1) = a * Frame + i BY <1>6, <1>9, Constants
<1> QED BY <1>3, <1>7, <1>8, <1>10

\* The ring after one more frame ends on one more of them, as far as it holds.
LEMMA RingedEnds ==
  ASSUME NEW k \in Nat, NEW f \in Nat,
         ring \in Seq(Int), Len(ring) <= Prefill, Ends(ring, k, f)
  PROVE  /\ Len(Ringed(f + 1)) = Least(Len(ring) + 1, Prefill)
         /\ \A n \in 0 .. Least(k + 1, Prefill) : Ends(Ringed(f + 1), n, f + 1)
<1> DEFINE R == Ringed(f + 1)
           drop == IF Len(ring) < Prefill THEN 0 ELSE 1
<1>1. /\ R \in Seq(Int) /\ Len(R) = Len(ring) + 1 - drop
      /\ \A i \in 1 .. Len(ring) - drop : R[i] = ring[i + drop]
      /\ R[Len(R)] = f + 1
  <2>1. CASE Len(ring) < Prefill BY <2>1 DEF Ringed
  <2>2. CASE ~(Len(ring) < Prefill)
    <3>1. ring # <<>> BY <2>2, Constants
    <3>2. /\ Tail(ring) \in Seq(Int) /\ Len(Tail(ring)) = Len(ring) - 1
          /\ \A i \in 1 .. Len(Tail(ring)) : Tail(ring)[i] = ring[i + 1]
      BY <3>1, HeadTailProperties
    <3> DEFINE T == Tail(ring)
    <3>3. R = Append(T, f + 1) /\ drop = 1 BY <2>2 DEF Ringed
    <3>4. /\ T \in Seq(Int) /\ Len(T) = Len(ring) - 1
          /\ \A i \in 1 .. Len(T) : T[i] = ring[i + 1]
      BY <3>2
    <3> HIDE DEF T, R, drop
    <3>5. /\ Append(T, f + 1) \in Seq(Int) /\ Len(Append(T, f + 1)) = Len(T) + 1
          /\ \A i \in 1 .. Len(T) : Append(T, f + 1)[i] = T[i]
          /\ Append(T, f + 1)[Len(T) + 1] = f + 1
      BY <3>4, AppendProperties
    <3> QED BY <3>3, <3>4, <3>5
  <2> QED BY <2>1, <2>2
<1>2. Len(ring) \in Nat /\ drop \in 0 .. 1 /\ (drop = 1 => Len(ring) = Prefill)
      /\ (drop = 0 => Len(ring) < Prefill)
  BY Constants
<1> HIDE DEF R, drop
<1>3. Len(R) = Least(Len(ring) + 1, Prefill) BY <1>1, <1>2, Constants DEF Least
<1>4. ASSUME NEW n \in 0 .. Least(k + 1, Prefill) PROVE Ends(R, n, f + 1)
  <2>1. n \in Nat /\ n <= k + 1 /\ n <= Prefill BY Constants DEF Least
  <2>2. k <= Len(ring) BY DEF Ends
  <2>3. n <= Len(R) BY <1>3, <2>1, <2>2, <1>2, Constants DEF Least
  <2>4. ASSUME NEW i \in 1 .. n PROVE R[Len(R) - n + i] = f + 1 - n + i
    <3>1. CASE i = n BY <3>1, <1>1, <1>2
    <3>2. CASE i < n
      <4> DEFINE m == Len(R) - n + i
      <4>1. m \in 1 .. Len(ring) - drop BY <3>2, <2>1, <2>3, <1>1, <1>2
      <4>2. R[m] = ring[m + drop] BY <4>1, <1>1
      <4> DEFINE j == k - n + i + 1
      <4>3. j \in 1 .. k /\ m + drop = Len(ring) - k + j BY <3>2, <2>1, <1>1, <1>2
      <4>4. ring[Len(ring) - k + j] = f - k + j BY <4>3 DEF Ends
      <4>5. f - k + j = f + 1 - n + i BY <2>1
      <4> QED BY <4>2, <4>3, <4>4, <4>5
    <3> QED BY <3>1, <3>2, <2>1
  <2> QED BY <2>3, <2>4 DEF Ends
<1> QED BY <1>3, <1>4 DEF R

-----------------------------------------------------------------------------
\* The invariant behind what is sent. The ring is only known while the detector
\* has not failed; what is kept and what is newest do not depend on it.

\* How many frames at the end of the ring are known to be the latest: all of it in
\* a pause, and those of the hangover in speech, whose voiced frames may be left out.
Fresh == IF vad.speech THEN Least(Prefill, Hangover - vad.hang) ELSE Least(Prefill, fed)

\* The frame up to which speech was taken at most.
Taken == IF vad.speech THEN fed ELSE Most(fed - 1 - since, 0)

\* The counters of the detector and of the chunker fit the frames there have been.
Detecting ==
  /\ errors \in Nat
  /\ vad.hang \in 0 .. Hangover /\ since \in 0 .. Prefill
  /\ vad.speech => fed > Hangover - vad.hang
  /\ ~vad.speech /\ since < Prefill => fed >= Hangover + 2 + since

\* The ring ends on the latest frames, and in a pause holds no others.
Ringing == errors = 0 =>
  /\ Ends(ring, Fresh, fed)
  /\ ~vad.speech => Len(ring) = Fresh

\* The frames of a hangover were speech, so the next segment may leave them out.
Recalled == errors = 0 =>
  /\ vad.speech => fed - (Hangover - vad.hang) .. fed \subseteq owed
  /\ ~vad.speech /\ since < Prefill =>
       fed - since - 1 - Hangover .. fed - since - 1 \subseteq owed

\* In order, nothing twice, and nothing from after the last segment.
Once   == errors = 0 => LinedUp(sent, held, pending)
Behind == errors = 0 /\ step # "ended" =>
            \A x \in Said(sent, held, pending) : x <= Taken * Frame

\* Nothing that is owed is lost.
Kept == end # "Cancel" =>
          \A f \in owed : Range(Samples(f)) \subseteq Said(sent, held, pending)

\* In speech the last sample of the last frame is pending.
Newest == vad.speech /\ step # "ended" =>
            pending # <<>> /\ pending[Len(pending)] = fed * Frame

SInv == Detecting /\ Ringing /\ Recalled /\ Once /\ Behind /\ Kept /\ Newest

LEMMA SmoothedFacts ==
  ASSUME NEW voiced \in BOOLEAN, vad \in [speech : BOOLEAN, run : Int, hang : Int],
         vad.hang \in 0 .. Hangover, NEW v, v = Smoothed(voiced)
  PROVE  /\ v.speech \in BOOLEAN /\ v.hang \in 0 .. Hangover
         /\ v.speech /\ voiced => v.hang = Hangover
         /\ v.speech /\ ~voiced => vad.speech /\ vad.hang > 0 /\ v.hang = vad.hang - 1
         /\ ~v.speech => v.hang = 0
         /\ ~v.speech /\ vad.speech => ~voiced /\ vad.hang = 0
<1> DEFINE run    == IF vad.speech \/ ~voiced THEN 0 ELSE vad.run + 1
           inside == IF vad.speech THEN voiced \/ vad.hang > 0 ELSE run >= Onset
<1>1. /\ v.speech = inside
      /\ v.hang = (IF ~inside THEN 0 ELSE IF voiced THEN Hangover ELSE vad.hang - 1)
  BY DEF Smoothed
<1>2. vad.speech \in BOOLEAN /\ vad.run \in Int /\ run \in Int OBVIOUS
<1>3. inside \in BOOLEAN /\ (inside /\ ~voiced => vad.speech /\ vad.hang > 0) BY <1>2, Constants
<1>4. ~inside /\ vad.speech => ~voiced /\ vad.hang = 0 BY <1>2, Constants
<1> HIDE DEF run, inside
<1> QED BY <1>1, <1>3, <1>4, Constants

\* The steps between two frames leave all of this alone.
LEMMA SpeechKeepsSInv ==
  SInv /\ UNCHANGED <<speech, fed, end>> /\ (step' = "ended" <=> step = "ended") => SInv'
<1> HAVE SInv /\ UNCHANGED <<speech, fed, end>> /\ (step' = "ended" <=> step = "ended")
<1>1. /\ vad' = vad /\ ring' = ring /\ pending' = pending /\ since' = since /\ held' = held
      /\ sent' = sent /\ owed' = owed /\ errors' = errors /\ fed' = fed /\ end' = end
  BY DEF speech
<1>2. Detecting' BY <1>1 DEF SInv, Detecting
<1>3. Ringing' BY <1>1 DEF SInv, Ringing, Fresh
<1>4. Recalled' BY <1>1 DEF SInv, Recalled
<1>5. Once' BY <1>1 DEF SInv, Once
<1>6. Behind' BY <1>1 DEF SInv, Behind, Taken
<1>7. Kept' BY <1>1 DEF SInv, Kept
<1>8. Newest' BY <1>1 DEF SInv, Newest
<1> QED BY <1>2, <1>3, <1>4, <1>5, <1>6, <1>7, <1>8 DEF SInv

\* Every case of a frame the detector has heard.
LEMMA Frames ==
  \A voiced \in BOOLEAN : IInv /\ SInv /\ PushFrame(voiced) =>
    /\ step = "chunking" /\ step' = "chunking" /\ end' = end /\ errors' = errors
    /\ fed \in Nat /\ fed' = fed + 1 /\ since \in 0 .. Prefill
    /\ vad.hang \in 0 .. Hangover /\ vad'.hang \in 0 .. Hangover
    /\ ring \in Seq(Int) /\ Len(ring) <= Prefill
    /\ Hangover \in Nat /\ Prefill \in Nat /\ Prefill > 0 /\ Hangover >= Prefill - 1
    /\ \/ /\ ~vad.speech /\ vad'.speech /\ vad'.hang = Hangover /\ OpensSegment(fed')
       \/ /\ vad.speech /\ vad'.speech /\ ContinuesSegment(fed')
          /\ voiced /\ vad'.hang = Hangover /\ ring' \in {ring, Ringed(fed')}
       \/ /\ vad.speech /\ vad'.speech /\ ContinuesSegment(fed')
          /\ ~voiced /\ vad.hang > 0 /\ vad'.hang = vad.hang - 1 /\ ring' = Ringed(fed')
       \/ /\ vad.speech /\ ~vad'.speech /\ vad.hang = 0 /\ vad'.hang = 0
          /\ EndsSegment /\ ring' = Ringed(fed')
       \/ /\ ~vad.speech /\ ~vad'.speech /\ vad'.hang = 0
          /\ Silence /\ ring' = Ringed(fed')
<1> TAKE voiced \in BOOLEAN
<1> HAVE IInv /\ SInv /\ PushFrame(voiced)
<1>1. /\ step = "chunking" /\ step' = "chunking" /\ end' = end /\ errors' = errors
      /\ fed' = fed + 1 /\ vad' = Smoothed(voiced)
  BY DEF PushFrame
<1>2. /\ fed \in Nat /\ ring \in Seq(Int) /\ Len(ring) <= Prefill
      /\ vad \in [speech : BOOLEAN, run : Int, hang : Int]
  BY DEF IInv, Typed
<1>3. vad.hang \in 0 .. Hangover /\ since \in 0 .. Prefill BY DEF SInv, Detecting
<1>4. Hangover >= Prefill - 1 BY CaptureAssumption DEF CaptureAssumption, ConfigFits
<1>5. /\ vad'.speech \in BOOLEAN /\ vad'.hang \in 0 .. Hangover
      /\ vad'.speech /\ voiced => vad'.hang = Hangover
      /\ vad'.speech /\ ~voiced => vad.speech /\ vad.hang > 0 /\ vad'.hang = vad.hang - 1
      /\ ~vad'.speech => vad'.hang = 0
      /\ ~vad'.speech /\ vad.speech => ~voiced /\ vad.hang = 0
  BY <1>1, <1>2, <1>3, SmoothedFacts
<1>6. CASE ~vad.speech /\ vad'.speech /\ OpensSegment(fed')
  <2>1. voiced /\ vad'.hang = Hangover BY <1>5, <1>6
  <2> QED BY <2>1, <1>1, <1>2, <1>3, <1>4, <1>5, <1>6, Constants
<1>7. CASE /\ vad.speech /\ vad'.speech /\ ContinuesSegment(fed')
           /\ ring' = IF voiced /\ ~ringsVoice THEN ring ELSE Ringed(fed')
  BY <1>1, <1>2, <1>3, <1>4, <1>5, <1>7, Constants
<1>8. CASE vad.speech /\ ~vad'.speech /\ EndsSegment /\ ring' = Ringed(fed')
  BY <1>1, <1>2, <1>3, <1>4, <1>5, <1>8, Constants
<1>9. CASE ~vad.speech /\ ~vad'.speech /\ Silence /\ ring' = Ringed(fed')
  BY <1>1, <1>2, <1>3, <1>4, <1>5, <1>9, Constants
<1> QED BY <1>6, <1>7, <1>8, <1>9 DEF PushFrame

\* What a segment's cases say of the counters and of what is owed.
LEMMA PushDetecting == \A voiced \in BOOLEAN : IInv /\ SInv /\ PushFrame(voiced) => Detecting'
<1> TAKE voiced \in BOOLEAN
<1> HAVE IInv /\ SInv /\ PushFrame(voiced)
<1>1. /\ errors' = errors /\ fed \in Nat /\ fed' = fed + 1 /\ since \in 0 .. Prefill
      /\ vad.hang \in 0 .. Hangover /\ vad'.hang \in 0 .. Hangover
      /\ Hangover \in Nat /\ Prefill \in Nat /\ Prefill > 0
  BY Frames
<1>2. Detecting BY DEF SInv
<1>3. CASE ~vad.speech /\ vad'.speech /\ vad'.hang = Hangover /\ OpensSegment(fed')
  <2>1. since' = since BY <1>3 DEF OpensSegment
  <2> QED BY <2>1, <1>1, <1>2, <1>3 DEF Detecting
<1>4. CASE vad.speech /\ vad'.speech /\ ContinuesSegment(fed') /\ vad'.hang = Hangover
  <2>1. since' = since BY <1>4 DEF ContinuesSegment
  <2> QED BY <2>1, <1>1, <1>2, <1>4 DEF Detecting
<1>5. CASE /\ vad.speech /\ vad'.speech /\ ContinuesSegment(fed')
           /\ vad.hang > 0 /\ vad'.hang = vad.hang - 1
  <2>1. since' = since BY <1>5 DEF ContinuesSegment
  <2> QED BY <2>1, <1>1, <1>2, <1>5 DEF Detecting
<1>6. CASE vad.speech /\ ~vad'.speech /\ vad.hang = 0 /\ vad'.hang = 0 /\ EndsSegment
  <2>1. since' = 0 BY <1>6 DEF EndsSegment
  <2> QED BY <2>1, <1>1, <1>2, <1>6 DEF Detecting
<1>7. CASE ~vad.speech /\ ~vad'.speech /\ vad'.hang = 0 /\ Silence
  <2>1. since' = Least(since + 1, Prefill) BY <1>7 DEF Silence
  <2>2. since' \in 0 .. Prefill /\ (since' < Prefill => since' = since + 1 /\ since < Prefill)
    BY <2>1, <1>1 DEF Least
  <2>3. ASSUME since' < Prefill PROVE fed' >= Hangover + 2 + since'
    <3>1. since' = since + 1 /\ since < Prefill BY <2>2, <2>3
    <3>2. fed >= Hangover + 2 + since BY <3>1, <1>2, <1>7 DEF Detecting
    <3> QED BY <3>1, <3>2, <1>1
  <2>4. errors' \in Nat BY <1>1, <1>2 DEF Detecting
  <2> QED BY <2>2, <2>3, <2>4, <1>1, <1>7 DEF Detecting
<1> QED BY <1>3, <1>4, <1>5, <1>6, <1>7, Frames

LEMMA PushRinging == \A voiced \in BOOLEAN : IInv /\ SInv /\ PushFrame(voiced) => Ringing'
<1> TAKE voiced \in BOOLEAN
<1> HAVE IInv /\ SInv /\ PushFrame(voiced)
<1> SUFFICES ASSUME errors' = 0
             PROVE  Ends(ring', Fresh', fed') /\ (~vad'.speech => Len(ring') = Fresh')
  BY DEF Ringing
<1>1. /\ errors = 0 /\ fed \in Nat /\ fed' = fed + 1 /\ since \in 0 .. Prefill
      /\ vad.hang \in 0 .. Hangover /\ vad'.hang \in 0 .. Hangover
      /\ ring \in Seq(Int) /\ Len(ring) <= Prefill /\ Len(ring) \in Nat
      /\ Hangover \in Nat /\ Prefill \in Nat /\ Prefill > 0 /\ Hangover >= Prefill - 1
  BY Frames
<1>2. Ends(ring, Fresh, fed) /\ (~vad.speech => Len(ring) = Fresh) BY <1>1 DEF SInv, Ringing
<1>3. Fresh \in Nat BY <1>1 DEF Fresh, Least
<1>4. /\ Len(Ringed(fed + 1)) = Least(Len(ring) + 1, Prefill)
      /\ \A n \in 0 .. Least(Fresh + 1, Prefill) : Ends(Ringed(fed + 1), n, fed + 1)
  BY <1>1, <1>2, <1>3, RingedEnds
<1>5. \A r \in Seq(Int) : Ends(r, 0, fed + 1) BY DEF Ends
<1>6. Fresh' = IF vad'.speech THEN Least(Prefill, Hangover - vad'.hang)
               ELSE Least(Prefill, fed')
  BY DEF Fresh
<1>7. CASE ~vad.speech /\ vad'.speech /\ vad'.hang = Hangover /\ OpensSegment(fed')
  <2>1. ring' = (IF ringsVoice THEN <<fed + 1>> ELSE <<>>) BY <1>1, <1>7 DEF OpensSegment
  <2>2. ring' \in Seq(Int) BY <2>1, <1>1
  <2>3. Fresh' = 0 BY <1>1, <1>6, <1>7 DEF Least
  <2> QED BY <2>2, <2>3, <1>1, <1>5, <1>7
<1>8. CASE vad.speech /\ vad'.speech /\ vad'.hang = Hangover /\ ring' \in {ring, Ringed(fed')}
  <2>1. Ringed(fed + 1) \in Seq(Int) BY <1>1, RingFits
  <2>2. ring' \in Seq(Int) BY <2>1, <1>1, <1>8
  <2>3. Fresh' = 0 BY <1>1, <1>6, <1>8 DEF Least
  <2> QED BY <2>2, <2>3, <1>1, <1>5, <1>8
<1>9. CASE /\ vad.speech /\ vad'.speech /\ vad.hang > 0 /\ vad'.hang = vad.hang - 1
           /\ ring' = Ringed(fed')
  <2>1. Fresh = Least(Prefill, Hangover - vad.hang) BY <1>9 DEF Fresh
  <2>2. Fresh' \in 0 .. Least(Fresh + 1, Prefill) BY <2>1, <1>1, <1>6, <1>9 DEF Least
  <2> QED BY <2>2, <1>1, <1>4, <1>9
<1>10. CASE vad.speech /\ ~vad'.speech /\ vad.hang = 0 /\ ring' = Ringed(fed')
  <2>1. Fresh = Least(Prefill, Hangover) BY <1>1, <1>10 DEF Fresh
  <2>2. fed > Hangover BY <1>1, <1>10 DEF SInv, Detecting
  <2>3. Fresh' = Prefill /\ Prefill \in 0 .. Least(Fresh + 1, Prefill)
    BY <2>1, <2>2, <1>1, <1>6, <1>10 DEF Least
  <2>4. Len(ring') = Prefill
    <3>1. Fresh <= Len(ring) BY <1>2 DEF Ends
    <3>2. Fresh + 1 >= Prefill BY <2>1, <1>1 DEF Least
    <3> QED BY <3>1, <3>2, <1>1, <1>3, <1>4, <1>10 DEF Least
  <2> QED BY <2>3, <2>4, <1>1, <1>4, <1>10
<1>11. CASE ~vad.speech /\ ~vad'.speech /\ ring' = Ringed(fed')
  <2>1. Fresh = Least(Prefill, fed) /\ Len(ring) = Fresh BY <1>2, <1>11 DEF Fresh
  <2>2. Fresh' = Least(Fresh + 1, Prefill) BY <2>1, <1>1, <1>6, <1>11 DEF Least
  <2>3. Fresh' \in 0 .. Least(Fresh + 1, Prefill) BY <2>2, <1>1, <1>3 DEF Least
  <2> QED BY <2>1, <2>2, <2>3, <1>1, <1>4, <1>11
<1> QED BY <1>7, <1>8, <1>9, <1>10, <1>11, Frames

LEMMA PushRecalled == \A voiced \in BOOLEAN : IInv /\ SInv /\ PushFrame(voiced) => Recalled'
<1> TAKE voiced \in BOOLEAN
<1> HAVE IInv /\ SInv /\ PushFrame(voiced)
<1> SUFFICES ASSUME errors' = 0
             PROVE  /\ vad'.speech => fed' - (Hangover - vad'.hang) .. fed' \subseteq owed'
                    /\ ~vad'.speech /\ since' < Prefill =>
                         fed' - since' - 1 - Hangover .. fed' - since' - 1 \subseteq owed'
  BY DEF Recalled
<1>1. /\ errors = 0 /\ fed \in Nat /\ fed' = fed + 1 /\ since \in 0 .. Prefill
      /\ vad.hang \in 0 .. Hangover /\ vad'.hang \in 0 .. Hangover
      /\ Hangover \in Nat /\ Prefill \in Nat /\ Prefill > 0
  BY Frames
<1>2. /\ vad.speech => fed - (Hangover - vad.hang) .. fed \subseteq owed
      /\ ~vad.speech /\ since < Prefill =>
           fed - since - 1 - Hangover .. fed - since - 1 \subseteq owed
  BY <1>1 DEF SInv, Recalled
<1>3. CASE ~vad.speech /\ vad'.speech /\ vad'.hang = Hangover /\ OpensSegment(fed')
  <2>1. fed' \in owed' BY <1>3 DEF OpensSegment
  <2>2. fed' - (Hangover - vad'.hang) .. fed' = {fed'} BY <1>1, <1>3
  <2> QED BY <2>1, <2>2, <1>3
<1>4. CASE vad.speech /\ vad'.speech /\ ContinuesSegment(fed') /\ vad'.hang = Hangover
  <2>1. fed' \in owed' BY <1>4 DEF ContinuesSegment
  <2>2. fed' - (Hangover - vad'.hang) .. fed' = {fed'} BY <1>1, <1>4
  <2> QED BY <2>1, <2>2, <1>4
<1>5. CASE /\ vad.speech /\ vad'.speech /\ ContinuesSegment(fed')
           /\ vad.hang > 0 /\ vad'.hang = vad.hang - 1
  <2>1. owed' = owed \cup {fed'} BY <1>5 DEF ContinuesSegment
  <2>2. ASSUME NEW f \in fed' - (Hangover - vad'.hang) .. fed' PROVE f \in owed'
    <3>1. f = fed' \/ f \in fed - (Hangover - vad.hang) .. fed BY <1>1, <1>5
    <3> QED BY <3>1, <2>1, <1>2, <1>5
  <2> QED BY <2>2, <1>5
<1>6. CASE vad.speech /\ ~vad'.speech /\ vad.hang = 0 /\ EndsSegment
  <2>1. since' = 0 /\ owed' = owed BY <1>6 DEF EndsSegment
  <2>2. ASSUME NEW f \in fed' - since' - 1 - Hangover .. fed' - since' - 1 PROVE f \in owed'
    <3>1. f \in fed - (Hangover - vad.hang) .. fed BY <2>1, <1>1, <1>6
    <3> QED BY <3>1, <2>1, <1>2, <1>6
  <2> QED BY <2>2, <1>6
<1>7. CASE ~vad.speech /\ ~vad'.speech /\ Silence
  <2>1. since' = Least(since + 1, Prefill) /\ owed' = owed BY <1>7 DEF Silence
  <2>2. ASSUME since' < Prefill
        PROVE  fed' - since' - 1 - Hangover .. fed' - since' - 1 \subseteq owed'
    <3>1. since' = since + 1 /\ since < Prefill BY <2>1, <2>2, <1>1 DEF Least
    <3>2. fed' - since' - 1 = fed - since - 1 BY <3>1, <1>1
    <3> QED BY <3>1, <3>2, <2>1, <1>2, <1>7
  <2> QED BY <2>2, <1>7
<1> QED BY <1>3, <1>4, <1>5, <1>6, <1>7, Frames

\* Speech joined to what is pending, cut and grouped as it may be.
LEMMA MoreSpeech ==
  ASSUME NEW new \in Seq(Int), new # <<>>, Typed,
         Len(pending \o new) < MaxPiece + Frame, Grow(pending \o new)
  PROVE  /\ Said(sent', held', pending') = Said(sent, held, pending) \cup Range(new)
         /\ pending' # <<>> /\ pending'[Len(pending')] = new[Len(new)]
         /\ \A b \in Int :
              /\ LinedUp(sent, held, pending) /\ Sorted(new)
              /\ \A x \in Said(sent, held, pending) : x <= b
              /\ \A y \in Range(new) : y > b
              => LinedUp(sent', held', pending')
<1> DEFINE grown == pending \o new
<1>1. pending \in Seq(Int) /\ held \in Seq(Int) /\ sent \in Seq(Seq(Int)) BY DEF Typed
<1>2. /\ grown \in Seq(Int) /\ Len(grown) = Len(pending) + Len(new)
      /\ \A i \in 1 .. Len(pending) + Len(new) :
           grown[i] = IF i <= Len(pending) THEN pending[i] ELSE new[i - Len(pending)]
  BY <1>1, ConcatProperties
<1>3. Len(new) \in Nat \ {0} /\ Len(pending) \in Nat BY <1>1, EmptySeq
<1>4. grown # <<>> /\ grown[Len(grown)] = new[Len(new)]
  <2> HIDE DEF grown
  <2>1. Len(grown) # 0 BY <1>2, <1>3
  <2>2. Len(grown) - Len(pending) = Len(new) /\ ~(Len(grown) <= Len(pending)) BY <1>2, <1>3
  <2> DEFINE n == Len(grown)
  <2>3. n \in 1 .. Len(pending) + Len(new) /\ ~(n <= Len(pending)) BY <2>2, <1>2, <1>3
  <2> HIDE DEF n
  <2>4. grown[n] = new[n - Len(pending)] BY <2>3, <1>2
  <2> QED BY <2>1, <2>2, <2>4 DEF n
<1>5. /\ Said(sent', held', pending') = Said(sent, held, grown)
      /\ LinedUp(sent, held, grown) => LinedUp(sent', held', pending')
      /\ pending' # <<>> /\ pending'[Len(pending')] = grown[Len(grown)]
  BY <1>1, <1>2, <1>4, GrowLined
<1>6. Said(sent, held, grown) = Said(sent, held, pending) \cup Range(new)
  <2>1. Range(grown) = Range(pending) \cup Range(new) BY <1>1, RangeConcatenation
  <2> QED BY <2>1 DEF Said
<1>7. ASSUME NEW b \in Int, LinedUp(sent, held, pending), Sorted(new),
             \A x \in Said(sent, held, pending) : x <= b, \A y \in Range(new) : y > b
      PROVE  LinedUp(sent', held', pending')
  <2>1. LinedUp(sent, held, grown) BY <1>1, <1>7, LinedExtend
  <2> QED BY <2>1, <1>5
<1> QED BY <1>4, <1>5, <1>6, <1>7

\* In a pause the ring brings one stretch of speech, from after what was taken up to
\* now; a frame before the onset that it does not bring was in the segment before.
LEMMA OpensLead ==
  IInv /\ SInv /\ ~vad.speech /\ errors = 0 =>
    \E from \in Nat :
      /\ Taken <= from /\ from <= fed
      /\ Sorted(LeadKept) /\ Range(LeadKept) = from * Frame + 1 .. fed * Frame
      /\ \A g \in Most(fed + 1 - Prefill, 1) .. fed : g > from \/ g \in owed
<1> HAVE IInv /\ SInv /\ ~vad.speech /\ errors = 0
<1>1. Typed /\ ChunkFits BY DEF IInv
<1>2. fed \in Nat /\ ring \in Seq(Int) /\ since \in 0 .. Prefill
  BY <1>1 DEF Typed, SInv, Detecting
<1>3. /\ Len(Lead) = Len(ring) * Frame /\ Overlap(since) \in Nat /\ Skip \in 0 .. Len(Lead)
      /\ LeadKept \in Seq(Int) /\ Len(LeadKept) = Len(Lead) - Skip
      /\ \A i \in 1 .. Len(Lead) - Skip : LeadKept[i] = Lead[Skip + i]
  BY <1>1, LeadFits
<1>4. Len(ring) = Least(Prefill, fed) /\ Ends(ring, Len(ring), fed)
  BY DEF SInv, Ringing, Fresh
<1> DEFINE k == Len(ring)
           o == Least(Overlap(since), k)
           from == fed - k + o
<1>5. k \in Nat /\ k = Least(Prefill, fed) /\ k <= fed /\ k <= Prefill
  BY <1>2, <1>4, Constants DEF Least
<1>6. Overlap(since) = Most(Prefill - 1 - since, 0) BY DEF Overlap
<1>7. o \in 0 .. k /\ from \in Nat /\ from <= fed BY <1>3, <1>5, <1>2 DEF Least
<1>8. Skip = o * Frame
  <2>1. CASE Overlap(since) <= k
    <3>1. Overlap(since) * Frame <= k * Frame BY <2>1, <1>3, <1>5, Constants, TimesMonotone
    <3>2. o = Overlap(since) BY <2>1 DEF Least
    <3> QED BY <3>1, <3>2, <1>3 DEF Skip, Least
  <2>2. CASE ~(Overlap(since) <= k)
    <3>1. k * Frame <= Overlap(since) * Frame BY <2>2, <1>3, <1>5, Constants, TimesMonotone
    <3>2. o = k BY <2>2 DEF Least
    <3>3. k * Frame \in Nat /\ Overlap(since) * Frame \in Nat BY <1>3, <1>5, Constants
    <3> QED BY <3>1, <3>2, <3>3, <1>3 DEF Skip, Least
  <2> QED BY <2>1, <2>2
<1>9. \A i \in 1 .. k * Frame : Lead[i] = (fed - k) * Frame + i
  BY <1>2, <1>4, <1>5, RingAudio DEF Lead
<1>10. Taken <= from
  <2>1. CASE since < Prefill - 1
    <3>1. Overlap(since) = Prefill - 1 - since BY <2>1, <1>2, <1>6, Constants DEF Most
    <3> QED BY <3>1, <1>2, <1>5, <1>7, Constants DEF Taken, Most, Least
  <2>2. CASE ~(since < Prefill - 1)
    BY <2>2, <1>2, <1>5, <1>7, Constants DEF Taken, Most, Least
  <2> QED BY <2>1, <2>2
<1>11. ASSUME NEW g \in Most(fed + 1 - Prefill, 1) .. fed PROVE g > from \/ g \in owed
  <2>1. g \in Int /\ g >= fed + 1 - Prefill /\ g >= 1 /\ g <= fed
    BY <1>2, Constants DEF Most
  <2>2. SUFFICES ASSUME g <= from PROVE g \in owed BY <2>1, <1>7
  <2>3. since < Prefill - 1
    <3> SUFFICES ASSUME ~(since < Prefill - 1) PROVE FALSE OBVIOUS
    <3>1. Overlap(since) = 0 BY <1>2, <1>6, Constants DEF Most
    <3>2. o = 0 BY <3>1, <1>5 DEF Least
    <3> QED BY <3>2, <2>1, <2>2, <1>2, <1>5, Constants DEF Least
  <2>4. Overlap(since) = Prefill - 1 - since BY <2>3, <1>2, <1>6, Constants DEF Most
  <2>5. fed >= Hangover + 2 + since /\ Hangover >= Prefill - 1 /\ Hangover \in Nat
    <3>1. Hangover >= Prefill - 1 BY CaptureAssumption DEF CaptureAssumption, ConfigFits
    <3>2. since < Prefill BY <2>3, <1>2, Constants
    <3> QED BY <3>1, <3>2, Constants DEF SInv, Detecting
  <2>6. from <= fed - 1 - since
    <3>1. k = Prefill BY <2>5, <1>2, <1>5, Constants DEF Least
    <3>2. o = Prefill - 1 - since BY <3>1, <2>3, <2>4, <1>2, Constants DEF Least
    <3> QED BY <3>1, <3>2, <1>2, Constants
  <2>7. g \in fed - since - 1 - Hangover .. fed - since - 1
    BY <2>1, <2>2, <2>5, <2>6, <1>2, <1>7, Constants
  <2>8. since < Prefill BY <2>3, <1>2, Constants
  <2> QED BY <2>7, <2>8 DEF SInv, Recalled
<1>12. Sorted(LeadKept) /\ Range(LeadKept) = from * Frame + 1 .. fed * Frame
  <2>1. /\ (fed - k) * Frame \in Nat /\ o * Frame \in Nat /\ k * Frame \in Nat
        /\ from * Frame = (fed - k) * Frame + o * Frame
        /\ fed * Frame = (fed - k) * Frame + k * Frame
    BY <1>2, <1>5, <1>7, Constants
  <2> DEFINE a == (fed - k) * Frame
             m == o * Frame
             n == k * Frame
  <2>2. /\ a \in Nat /\ m \in Nat /\ n \in Nat /\ m <= n
        /\ from * Frame = a + m /\ fed * Frame = a + n
    BY <2>1, <1>3, <1>8
  <2>3. /\ Len(LeadKept) = n - m
        /\ \A i \in 1 .. n - m : LeadKept[i] = Lead[m + i]
    BY <1>3, <1>8
  <2>4. \A i \in 1 .. n : Lead[i] = a + i BY <1>9
  <2> HIDE DEF a, m, n, k, from
  <2>5. \A i \in 1 .. n - m : LeadKept[i] = a + m + i
    <3> TAKE i \in 1 .. n - m
    <3>1. m + i \in 1 .. n BY <2>2
    <3>2. Lead[m + i] = a + (m + i) BY <3>1, <2>4
    <3> QED BY <3>2, <2>2, <2>3
  <2>6. /\ Span(a + m + 1, a + n) \in Seq(Int)
        /\ Len(Span(a + m + 1, a + n)) = n - m
    <3>1. a + m + 1 \in Int /\ a + n \in Int /\ (a + n) - (a + m + 1) + 1 = n - m /\ n - m \in Nat
      BY <2>2
    <3> QED BY <3>1, SpanSeq
  <2>7. \A i \in 1 .. n - m : Span(a + m + 1, a + n)[i] = a + m + i
    <3> TAKE i \in 1 .. n - m
    <3>1. i \in 1 .. (a + n) - (a + m + 1) + 1 /\ a + m + 1 + i - 1 = a + m + i BY <2>2
    <3> QED BY <3>1 DEF Span
  <2>8. LeadKept = Span(a + m + 1, a + n)
    <3> DEFINE t == Span(a + m + 1, a + n)
    <3>1. t \in Seq(Int) /\ LeadKept \in Seq(Int) /\ Len(LeadKept) = Len(t) BY <1>3, <2>3, <2>6
    <3>2. \A i \in 1 .. Len(LeadKept) : LeadKept[i] = t[i] BY <2>3, <2>5, <2>7
    <3> HIDE DEF t
    <3>3. LeadKept = t BY <3>1, <3>2, SeqEqual
    <3> QED BY <3>3 DEF t
  <2>9. /\ Sorted(Span(a + m + 1, a + n))
        /\ Range(Span(a + m + 1, a + n)) = a + m + 1 .. a + n
    <3>1. a + m + 1 \in Int /\ a + n \in Int /\ (a + n) - (a + m + 1) + 1 \in Nat BY <2>2
    <3> QED BY <3>1, SpanFacts
  <2> QED BY <2>2, <2>8, <2>9
<1> HIDE DEF from
<1> QED BY <1>7, <1>10, <1>11, <1>12

\* What all cases of a frame share.
FrameStep ==
  /\ IInv /\ SInv
  /\ step = "chunking" /\ step' = "chunking" /\ end' = end /\ fed' = fed + 1
  /\ errors' = 0 => errors = 0

\* Samples of the frames after one and up to another lie between their ends.
LEMMA FramesBetween ==
  \A a, b, g \in Nat : a < g /\ g <= b =>
    Range(Samples(g)) \subseteq a * Frame + 1 .. b * Frame
<1> TAKE a, b, g \in Nat
<1> HAVE a < g /\ g <= b
<1>1. g - 1 \in Nat /\ a <= g - 1 BY Constants
<1>2. a * Frame <= (g - 1) * Frame BY <1>1, Constants, TimesMonotone
<1>3. g * Frame <= b * Frame BY Constants, TimesMonotone
<1>4. Range(Samples(g)) = (g - 1) * Frame + 1 .. g * Frame BY SamplesFacts
<1>5. a * Frame \in Int /\ b * Frame \in Int /\ g * Frame \in Int /\ (g - 1) * Frame \in Int
  BY <1>1, Constants
<1> QED BY <1>2, <1>3, <1>4, <1>5

LEMMA OpensSaid ==
  FrameStep /\ ~vad.speech /\ vad'.speech /\ OpensSegment(fed')
  => Once' /\ Behind' /\ Kept' /\ Newest'
<1> HAVE FrameStep /\ ~vad.speech /\ vad'.speech /\ OpensSegment(fed')
<1>1. /\ IInv /\ SInv /\ Typed /\ ChunkFits /\ fed \in Nat /\ fed' = fed + 1 /\ fed' \in Nat
      /\ step # "ended" /\ end' = end /\ (errors' = 0 => errors = 0)
  BY DEF FrameStep, IInv, Typed
<1> DEFINE old == Said(sent, held, pending)
           f   == fed'
           own == Samples(f)
           new == LeadKept \o own
<1>2. LeadKept \in Seq(Int) /\ pending \in Seq(Int) /\ own \in Seq(Int) /\ Len(own) = Frame
  BY <1>1, LeadFits, SamplesSeq DEF Typed
<1>3. /\ Sorted(own) /\ Range(own) = fed * Frame + 1 .. f * Frame /\ own[Len(own)] = f * Frame
      /\ f * Frame = fed * Frame + Frame /\ f * Frame \in Int /\ fed * Frame \in Int
  <2>1. f \in Int /\ f - 1 = fed BY <1>1
  <2> QED BY <2>1, SamplesFacts
<1> HIDE DEF own
<1>4. /\ new \in Seq(Int) /\ new # <<>> /\ new[Len(new)] = f * Frame
      /\ Range(new) = Range(LeadKept) \cup Range(own)
  <2>1. /\ new \in Seq(Int) /\ Len(new) = Len(LeadKept) + Len(own)
        /\ \A i \in 1 .. Len(LeadKept) + Len(own) :
             new[i] = IF i <= Len(LeadKept) THEN LeadKept[i] ELSE own[i - Len(LeadKept)]
    BY <1>2, ConcatProperties
  <2> DEFINE n == Len(LeadKept) + Len(own)
  <2>2. n \in 1 .. n /\ ~(n <= Len(LeadKept)) /\ n - Len(LeadKept) = Len(own)
    BY <1>2, Constants
  <2>3. new[n] = own[Len(own)] BY <2>1, <2>2
  <2>4. Range(new) = Range(LeadKept) \cup Range(own) BY <1>2, RangeConcatenation
  <2>5. new # <<>>
    <3> HIDE DEF new
    <3>1. Len(new) # 0 BY <2>1, <2>2
    <3> QED BY <3>1, EmptySeq
  <2> QED BY <2>1, <2>3, <2>4, <2>5, <1>3
<1>5. /\ Len(pending \o new) < MaxPiece + Frame /\ Grow(pending \o new)
      /\ owed' = owed \cup {f} \cup (IF errors = 0 THEN Most(f - Prefill, 1) .. f - 1 ELSE {})
  <2>1. pending \o LeadKept \o own = pending \o new BY <1>2, ConcatAssociative
  <2>2. Len(pending \o LeadKept \o own) < MaxPiece + Frame
    <3>1. f \in Int /\ Typed /\ ChunkFits /\ ~vad.speech BY <1>1
    <3> HIDE DEF f
    <3> QED BY <3>1, LeadFits DEF own
  <2>3. /\ Grow(pending \o LeadKept \o own)
        /\ owed' = owed \cup {f} \cup (IF errors = 0 THEN Most(f - Prefill, 1) .. f - 1 ELSE {})
    BY DEF OpensSegment, LeadKept, Skip, Lead, own
  <2> QED BY <2>1, <2>2, <2>3
<1> HIDE DEF new, f
<1>6. /\ Said(sent', held', pending') = old \cup Range(new)
      /\ pending' # <<>> /\ pending'[Len(pending')] = f * Frame
      /\ \A b \in Int :
           /\ LinedUp(sent, held, pending) /\ Sorted(new)
           /\ \A x \in old : x <= b
           /\ \A y \in Range(new) : y > b
           => LinedUp(sent', held', pending')
  BY <1>1, <1>4, <1>5, MoreSpeech
<1> DEFINE now == Said(sent', held', pending')
<1>7. f = fed + 1 /\ f \in Nat /\ fed' = f BY <1>1 DEF f
<1>8. Newest' BY <1>6, <1>7 DEF Newest
<1>9. ASSUME errors = 0
      PROVE  \E from \in Nat :
               /\ Taken <= from /\ from <= fed
               /\ Sorted(LeadKept) /\ Range(LeadKept) = from * Frame + 1 .. fed * Frame
               /\ \A g \in Most(fed + 1 - Prefill, 1) .. fed : g > from \/ g \in owed
  BY <1>1, <1>9, OpensLead
<1>10. Kept'
  <2> SUFFICES ASSUME end' # "Cancel", NEW g \in owed' PROVE Range(Samples(g)) \subseteq now
    BY DEF Kept
  <2>1. ASSUME g \in owed PROVE Range(Samples(g)) \subseteq now
    <3>1. Range(Samples(g)) \subseteq old BY <1>1, <2>1 DEF SInv, Kept
    <3> QED BY <3>1, <1>6
  <2>2. CASE g = f BY <2>2, <1>4, <1>6 DEF own
  <2>3. CASE errors = 0 /\ g \in Most(f - Prefill, 1) .. f - 1
    <3>1. PICK from \in Nat :
            /\ Taken <= from /\ from <= fed
            /\ Sorted(LeadKept) /\ Range(LeadKept) = from * Frame + 1 .. fed * Frame
            /\ \A i \in Most(fed + 1 - Prefill, 1) .. fed : i > from \/ i \in owed
      BY <2>3, <1>9
    <3>2. g \in Most(fed + 1 - Prefill, 1) .. fed /\ g \in Nat /\ g <= fed
      BY <2>3, <1>1, <1>7, Constants DEF Most
    <3>3. CASE g > from
      <4>1. Range(Samples(g)) \subseteq from * Frame + 1 .. fed * Frame
        BY <3>2, <3>3, <1>1, FramesBetween
      <4> QED BY <4>1, <3>1, <1>4, <1>6
    <3> QED BY <3>1, <3>2, <3>3, <2>1
  <2> QED BY <2>1, <2>2, <2>3, <1>5
<1>11. ASSUME errors' = 0
       PROVE  LinedUp(sent', held', pending') /\ \A x \in now : x <= Taken' * Frame
  <2>1. PICK from \in Nat :
          /\ Taken <= from /\ from <= fed
          /\ Sorted(LeadKept) /\ Range(LeadKept) = from * Frame + 1 .. fed * Frame
          /\ \A i \in Most(fed + 1 - Prefill, 1) .. fed : i > from \/ i \in owed
    BY <1>1, <1>9, <1>11
  <2>2. LinedUp(sent, held, pending) /\ \A x \in old : x <= Taken * Frame
    BY <1>1, <1>11 DEF SInv, Once, Behind
  <2>3. Taken \in Nat
    BY <1>1 DEF Taken, Most, SInv, Detecting
  <2>4. /\ Taken * Frame <= from * Frame /\ from * Frame <= fed * Frame
        /\ Taken * Frame \in Int /\ from * Frame \in Int
    BY <2>1, <2>3, <1>1, Constants, TimesMonotone
  <2>5. Taken' = f BY <1>7 DEF Taken
  <2>6. old \subseteq Int
    <3>1. held \in Seq(Int) /\ pending \in Seq(Int) /\ sent \in Seq(Seq(Int)) BY <1>1 DEF Typed
    <3>2. \A i \in 1 .. Len(sent) : sent[i] \in Seq(Int) BY <3>1
    <3> QED BY <3>1, <3>2, RangeAt DEF Said
  <2>7. \A x \in old : x <= from * Frame BY <2>2, <2>4, <2>6
  <2>8. \A y \in Range(new) : y > from * Frame /\ y <= f * Frame
    BY <2>1, <2>4, <1>3, <1>4, Constants
  <2>9. Precedes(LeadKept, own) BY <2>1, <2>4, <1>3 DEF Precedes
  <2>10. Sorted(new) BY <2>1, <2>9, <1>2, <1>3, SortedConcat DEF new
  <2>11. LinedUp(sent', held', pending') BY <2>2, <2>4, <2>7, <2>8, <2>10, <1>6
  <2>12. ASSUME NEW x \in now PROVE x <= f * Frame
    <3>1. CASE x \in old
      <4>1. x \in Int /\ x <= from * Frame BY <3>1, <2>6, <2>7
      <4> QED BY <4>1, <2>4, <1>3, Constants
    <3>2. CASE x \in Range(new) BY <3>2, <2>8
    <3> QED BY <3>1, <3>2, <1>6
  <2> QED BY <2>5, <2>11, <2>12
<1> QED BY <1>8, <1>10, <1>11 DEF Once, Behind

LEMMA ContinuesSaid ==
  FrameStep /\ vad.speech /\ vad'.speech /\ ContinuesSegment(fed')
  => Once' /\ Behind' /\ Kept' /\ Newest'
<1> HAVE FrameStep /\ vad.speech /\ vad'.speech /\ ContinuesSegment(fed')
<1>1. /\ IInv /\ SInv /\ Typed /\ ChunkFits /\ fed \in Nat /\ fed' = fed + 1 /\ fed' \in Nat
      /\ step # "ended" /\ end' = end /\ (errors' = 0 => errors = 0)
  BY DEF FrameStep, IInv, Typed
<1> DEFINE old == Said(sent, held, pending)
           f   == fed'
           own == Samples(f)
           now == Said(sent', held', pending')
<1>2. own \in Seq(Int) /\ Len(own) = Frame /\ own # <<>>
  <2>1. f \in Int BY <1>1
  <2>2. own \in Seq(Int) /\ Len(own) = Frame BY <2>1, SamplesSeq
  <2> HIDE DEF own
  <2> QED BY <2>2, Constants
<1>3. /\ Sorted(own) /\ Range(own) = fed * Frame + 1 .. f * Frame /\ own[Len(own)] = f * Frame
      /\ f * Frame = fed * Frame + Frame /\ f * Frame \in Int /\ fed * Frame \in Int
  <2>1. f \in Int /\ f - 1 = fed BY <1>1
  <2> QED BY <2>1, SamplesFacts
<1>4. Len(pending \o own) < MaxPiece + Frame /\ Grow(pending \o own) /\ owed' = owed \cup {f}
  <2>1. Grow(pending \o own) /\ owed' = owed \cup {f} BY DEF ContinuesSegment
  <2>2. pending \in Seq(Int) /\ Len(pending) < MaxPiece BY <1>1 DEF Typed, ChunkFits
  <2>3. Len(pending \o own) = Len(pending) + Frame
    <3> HIDE DEF own
    <3> QED BY <2>2, <1>2
  <2> QED BY <2>1, <2>2, <2>3, Constants
<1>5. fed' = f /\ f \in Nat BY <1>1
<1> HIDE DEF own, f
<1>6. /\ now = old \cup Range(own)
      /\ pending' # <<>> /\ pending'[Len(pending')] = f * Frame
      /\ \A b \in Int :
           /\ LinedUp(sent, held, pending) /\ Sorted(own)
           /\ \A x \in old : x <= b
           /\ \A y \in Range(own) : y > b
           => LinedUp(sent', held', pending')
  BY <1>1, <1>2, <1>3, <1>4, MoreSpeech
<1>7. Newest' BY <1>5, <1>6 DEF Newest
<1>8. Kept'
  <2> SUFFICES ASSUME end' # "Cancel", NEW g \in owed' PROVE Range(Samples(g)) \subseteq now
    BY DEF Kept
  <2>1. ASSUME g \in owed PROVE Range(Samples(g)) \subseteq now
    <3>1. Range(Samples(g)) \subseteq old BY <1>1, <2>1 DEF SInv, Kept
    <3> QED BY <3>1, <1>6
  <2>2. CASE g = f BY <2>2, <1>6 DEF own
  <2> QED BY <2>1, <2>2, <1>4
<1>9. ASSUME errors' = 0
      PROVE  LinedUp(sent', held', pending') /\ \A x \in now : x <= Taken' * Frame
  <2>1. LinedUp(sent, held, pending) /\ \A x \in old : x <= fed * Frame
    BY <1>1, <1>9 DEF SInv, Once, Behind, Taken
  <2>2. Taken' = f BY <1>5 DEF Taken
  <2>3. \A y \in Range(own) : y > fed * Frame /\ y <= f * Frame BY <1>3
  <2>4. LinedUp(sent', held', pending') BY <2>1, <2>3, <1>3, <1>6
  <2>5. ASSUME NEW x \in now PROVE x <= f * Frame
    <3>1. CASE x \in old
      <4>1. held \in Seq(Int) /\ pending \in Seq(Int) /\ sent \in Seq(Seq(Int)) BY <1>1 DEF Typed
      <4>2. \A i \in 1 .. Len(sent) : sent[i] \in Seq(Int) BY <4>1
      <4>3. x \in Int BY <3>1, <4>1, <4>2, RangeAt DEF Said
      <4>4. x <= fed * Frame BY <3>1, <2>1
      <4> QED BY <4>3, <4>4, <1>3, Constants
    <3>2. CASE x \in Range(own) BY <3>2, <2>3
    <3> QED BY <3>1, <3>2, <1>6
  <2> QED BY <2>2, <2>4, <2>5
<1> QED BY <1>7, <1>8, <1>9 DEF Once, Behind

\* The end of a segment groups what is pending, or leaves it.
LEMMA EndsSaid ==
  FrameStep /\ vad.speech /\ ~vad'.speech /\ EndsSegment
  => Once' /\ Behind' /\ Kept' /\ Newest'
<1> HAVE FrameStep /\ vad.speech /\ ~vad'.speech /\ EndsSegment
<1>1. /\ SInv /\ Typed /\ fed \in Nat /\ fed' = fed + 1 /\ since' = 0 /\ owed' = owed
      /\ step # "ended" /\ end' = end /\ (errors' = 0 => errors = 0)
  BY DEF FrameStep, IInv, Typed, EndsSegment
<1>2. pending \in Seq(Int) /\ held \in Seq(Int) /\ sent \in Seq(Seq(Int)) /\ <<>> \in Seq(Int)
  BY <1>1 DEF Typed
<1>3. /\ Said(sent', held', pending') = Said(sent, held, pending)
      /\ LinedUp(sent, held, pending) => LinedUp(sent', held', pending')
  <2>1. CASE Group(pending) /\ pending' = <<>>
    <3>1. pending \o <<>> = pending BY <1>2, ConcatEmptySeq
    <3> QED BY <2>1, <3>1, <1>2, GroupLined
  <2>2. CASE UNCHANGED <<pending, held, sent>> BY <2>2
  <2> QED BY <2>1, <2>2 DEF EndsSegment
<1>4. Taken' = Taken BY <1>1 DEF Taken, Most
<1>5. Once' BY <1>1, <1>3 DEF SInv, Once
<1>6. Behind' BY <1>1, <1>3, <1>4 DEF SInv, Behind
<1>7. Kept' BY <1>1, <1>3 DEF SInv, Kept
<1>8. Newest' BY DEF Newest
<1> QED BY <1>5, <1>6, <1>7, <1>8

\* A pause goes on: what was taken stays as far back as it was.
LEMMA SilenceSaid ==
  FrameStep /\ ~vad.speech /\ ~vad'.speech /\ Silence
  => Once' /\ Behind' /\ Kept' /\ Newest'
<1> HAVE FrameStep /\ ~vad.speech /\ ~vad'.speech /\ Silence
<1>1. /\ SInv /\ Typed /\ fed \in Nat /\ fed' = fed + 1 /\ since' = Least(since + 1, Prefill)
      /\ step # "ended" /\ end' = end /\ (errors' = 0 => errors = 0)
      /\ UNCHANGED <<pending, held, sent, owed>>
  BY DEF FrameStep, IInv, Typed, Silence
<1>2. Taken \in Nat /\ Taken' \in Nat /\ Taken <= Taken'
  <2>1. since \in 0 .. Prefill BY <1>1 DEF SInv, Detecting
  <2>2. since' \in Nat /\ since' <= since + 1 BY <2>1, <1>1, Constants DEF Least
  <2> QED BY <2>1, <2>2, <1>1 DEF Taken, Most
<1>3. Taken * Frame <= Taken' * Frame /\ Taken * Frame \in Int /\ Taken' * Frame \in Int
  <2>1. \A a, b \in Nat : a <= b => a * Frame <= b * Frame /\ a * Frame \in Int /\ b * Frame \in Int
    BY Constants, TimesMonotone
  <2> QED BY <1>2, <2>1
<1>4. Once' BY <1>1 DEF SInv, Once
<1>5. Behind'
  <2> SUFFICES ASSUME errors' = 0, NEW x \in Said(sent, held, pending)
               PROVE  x <= Taken' * Frame
    BY <1>1 DEF Behind
  <2>1. x <= Taken * Frame BY <1>1 DEF SInv, Behind
  <2>2. held \in Seq(Int) /\ pending \in Seq(Int) /\ sent \in Seq(Seq(Int)) BY <1>1 DEF Typed
  <2>3. \A i \in 1 .. Len(sent) : sent[i] \in Seq(Int) BY <2>2
  <2>4. x \in Int BY <2>2, <2>3, RangeAt DEF Said
  <2> QED BY <2>1, <2>4, <1>3
<1>6. Kept' BY <1>1 DEF SInv, Kept
<1>7. Newest' BY DEF Newest
<1> QED BY <1>4, <1>5, <1>6, <1>7

-----------------------------------------------------------------------------
\* The last tick.

\* What the order of the two threads' steps gives: when the monitor has seen the end
\* asked for, the device delivers no more, and the drain after that has all of it.
Closing ==
  /\ done => stop
  /\ stop => ~streaming
  /\ produced <= Available(heard)
  /\ done /\ step = "chunking" => produced = Available(heard)
  /\ step = "ended" => done
  /\ step # "ended" => end = "none"

\* The same with nothing after it.
LEMMA LinedLast ==
  ASSUME NEW s \in Seq(Seq(Int)), NEW h \in Seq(Int), NEW c \in Seq(Int)
  PROVE  /\ Said(Append(s, h), c, <<>>) = Said(s, h, c)
         /\ LinedUp(s, h, c) => LinedUp(Append(s, h), c, <<>>)
         /\ Said(s, h \o c, <<>>) = Said(s, h, c)
         /\ LinedUp(s, h, c) => LinedUp(s, h \o c, <<>>)
<1> DEFINE e == <<>>
<1>1. e \in Seq(Int) /\ c \o e = c OBVIOUS
<1> HIDE DEF e
<1>2. /\ LinedUp(s, h, c \o e) => LinedUp(Append(s, h), c, e)
      /\ Said(Append(s, h), c, e) = Said(s, h, c \o e)
  BY <1>1, LinedAppend
<1>3. /\ LinedUp(s, h, c \o e) => LinedUp(s, h \o c, e)
      /\ Said(s, h \o c, e) = Said(s, h, c \o e)
  BY <1>1, LinedJoin
<1> QED BY <1>1, <1>2, <1>3 DEF e

\* The pieces of the session: those sent, then what is held and the rest r.
AllPieces(s, h, r, full) ==
  s \o (IF full THEN <<h>> ELSE <<>>) \o LastOf(IF full THEN r ELSE h \o r)

LEMMA LastTickSaid ==
  ASSUME NEW s \in Seq(Seq(Int)), NEW h \in Seq(Int), NEW r \in Seq(Int), NEW full \in BOOLEAN
  PROVE  /\ Said(AllPieces(s, h, r, full), <<>>, <<>>) = Said(s, h, r)
         /\ LinedUp(s, h, r) => LinedUp(AllPieces(s, h, r, full), <<>>, <<>>)
         /\ r # <<>> => Last(Last(AllPieces(s, h, r, full))) = r[Len(r)]
<1> DEFINE t  == AllPieces(s, h, r, full)
           t1 == s \o (IF full THEN <<h>> ELSE <<>>)
           l  == IF full THEN r ELSE h \o r
<1>1. <<>> \in Seq(Int) /\ r \o <<>> = r /\ <<>> \o <<>> = <<>> OBVIOUS
<1>2. /\ t1 \in Seq(Seq(Int)) /\ l \in Seq(Int)
      /\ Said(t1, l, <<>>) = Said(s, h, r)
      /\ LinedUp(s, h, r) => LinedUp(t1, l, <<>>)
  <2>1. CASE full
    <3>1. t1 = Append(s, h) /\ l = r BY <2>1, AppendIsConcat
    <3>2. Append(s, h) \in Seq(Seq(Int)) OBVIOUS
    <3>3. /\ Said(Append(s, h), r, <<>>) = Said(s, h, r)
          /\ LinedUp(s, h, r) => LinedUp(Append(s, h), r, <<>>)
      BY LinedLast
    <3> HIDE DEF t1, l
    <3> QED BY <3>1, <3>2, <3>3
  <2>2. CASE ~full
    <3>1. t1 = s /\ l = h \o r BY <2>2, ConcatEmptySeq
    <3>2. h \o r \in Seq(Int) OBVIOUS
    <3>3. /\ Said(s, h \o r, <<>>) = Said(s, h, r)
          /\ LinedUp(s, h, r) => LinedUp(s, h \o r, <<>>)
      BY LinedLast
    <3> HIDE DEF t1, l
    <3> QED BY <3>1, <3>2, <3>3
  <2> QED BY <2>1, <2>2
<1>3. r # <<>> => l # <<>> /\ l[Len(l)] = r[Len(r)]
  <2> HAVE r # <<>>
  <2>1. CASE full BY <2>1
  <2>2. CASE ~full
    <3> DEFINE u == h \o r
    <3>1. /\ u \in Seq(Int) /\ Len(u) = Len(h) + Len(r)
          /\ \A i \in 1 .. Len(h) + Len(r) : u[i] = IF i <= Len(h) THEN h[i] ELSE r[i - Len(h)]
      BY ConcatProperties
    <3>2. Len(h) \in Nat /\ Len(r) \in Nat \ {0} BY EmptySeq
    <3>3. l = u BY <2>2
    <3> HIDE DEF u, l
    <3> DEFINE n == Len(h) + Len(r)
    <3>4. n \in 1 .. n /\ ~(n <= Len(h)) /\ n - Len(h) = Len(r) BY <3>2
    <3>5. u[n] = r[Len(r)] BY <3>1, <3>4
    <3>6. u # <<>>
      <4>1. Len(u) # 0 BY <3>1, <3>2
      <4> QED BY <4>1, EmptySeq
    <3> QED BY <3>1, <3>3, <3>5, <3>6
  <2> QED BY <2>1, <2>2
<1>4. t = t1 \o LastOf(l) BY DEF AllPieces
<1> HIDE DEF t1, l, t
<1>5. CASE l = <<>>
  <2>1. t = t1 BY <1>2, <1>4, <1>5, ConcatEmptySeq DEF LastOf
  <2> QED BY <2>1, <1>2, <1>3, <1>5 DEF t
<1>6. CASE l # <<>>
  <2>1. t = Append(t1, l) BY <1>2, <1>4, <1>6, AppendIsConcat DEF LastOf
  <2>2. /\ Said(t, <<>>, <<>>) = Said(t1, l, <<>>)
        /\ LinedUp(t1, l, <<>>) => LinedUp(t, <<>>, <<>>)
    <3>1. l \in Seq(Int) /\ t1 \in Seq(Seq(Int)) BY <1>2
    <3>2. <<>> \in Seq(Int) BY <1>1
    <3>3. /\ Said(Append(t1, l), <<>>, <<>>) = Said(t1, l, <<>>)
          /\ LinedUp(t1, l, <<>>) => LinedUp(Append(t1, l), <<>>, <<>>)
      BY <3>1, <3>2, LinedLast
    <3> QED BY <3>3, <2>1
  <2>3. Last(t) = l
    <3>1. Len(Append(t1, l)) = Len(t1) + 1 /\ Append(t1, l)[Len(t1) + 1] = l
      BY <1>2, AppendProperties
    <3> QED BY <3>1, <2>1 DEF Last
  <2>4. Last(Last(t)) = l[Len(l)] BY <2>3 DEF Last
  <2> QED BY <2>2, <2>4, <1>2, <1>3 DEF t
<1> QED BY <1>5, <1>6 DEF t

\* What finish adds: the part of a frame that speech ended on.
LEMMA RestSaid ==
  IInv /\ SInv /\ step # "ended" =>
    /\ Rest \in Seq(Int)
    /\ Said(sent, held, pending) \subseteq Said(sent, held, Rest)
    /\ errors = 0 => LinedUp(sent, held, Rest)
    /\ vad.speech => Rest # <<>> /\ Rest[Len(Rest)] = produced
<1> HAVE IInv /\ SInv /\ step # "ended"
<1>1. /\ pending \in Seq(Int) /\ held \in Seq(Int) /\ sent \in Seq(Seq(Int))
      /\ fed \in Nat /\ produced \in Nat /\ fed * Frame <= produced
  BY DEF IInv, Typed
<1>2. CASE ~vad.speech
  <2>1. Rest = pending BY <1>1, <1>2, ConcatEmptySeq DEF Rest
  <2> QED BY <2>1, <1>1, <1>2 DEF SInv, Once
<1>3. CASE vad.speech
  <2> DEFINE a == fed * Frame
             n == Span(a + 1, produced)
  <2>1. a \in Nat /\ a <= produced BY <1>1, Constants
  <2>2. Rest = pending \o n BY <1>3 DEF Rest
  <2>3. pending # <<>> /\ pending[Len(pending)] = a BY <1>3 DEF SInv, Newest
  <2> HIDE DEF a
  <2>4. a + 1 \in Int /\ produced \in Int /\ produced - (a + 1) + 1 \in Nat
        /\ produced - (a + 1) + 1 = produced - a
    BY <2>1, <1>1
  <2>5. /\ n \in Seq(Int) /\ Len(n) = produced - a /\ Sorted(n) /\ Range(n) = a + 1 .. produced
        /\ produced >= a + 1 => n[Len(n)] = produced
    BY <2>4, SpanSeq, SpanFacts
  <2> HIDE DEF n
  <2>6. /\ Rest \in Seq(Int) /\ Len(Rest) = Len(pending) + Len(n)
        /\ \A i \in 1 .. Len(pending) + Len(n) :
             Rest[i] = IF i <= Len(pending) THEN pending[i] ELSE n[i - Len(pending)]
    BY <1>1, <2>2, <2>5, ConcatProperties
  <2>7. Len(pending) \in Nat \ {0} /\ Len(n) \in Nat BY <1>1, <2>3, <2>5, EmptySeq
  <2>8. Rest # <<>>
    <3>1. Len(Rest) # 0 BY <2>6, <2>7
    <3> QED BY <3>1, EmptySeq
  <2>9. Rest[Len(Rest)] = produced
    <3>1. CASE produced = a
      <4>1. Len(n) = 0 BY <3>1, <2>1, <2>5
      <4>2. Len(Rest) \in 1 .. Len(pending) + Len(n) /\ Len(Rest) = Len(pending)
        BY <4>1, <2>6, <2>7
      <4>3. Rest[Len(pending)] = pending[Len(pending)] BY <4>2, <2>6
      <4> QED BY <4>2, <4>3, <3>1, <2>3
    <3>2. CASE produced >= a + 1
      <4> DEFINE k == Len(pending) + Len(n)
      <4>1. k \in 1 .. k /\ ~(k <= Len(pending)) /\ k - Len(pending) = Len(n)
        BY <3>2, <2>1, <2>5, <2>7, <1>1
      <4>2. Rest[k] = n[Len(n)] BY <4>1, <2>6
      <4> QED BY <4>2, <3>2, <2>5, <2>6
    <3> QED BY <3>1, <3>2, <2>1, <1>1
  <2>10. /\ Said(sent, held, Rest) = Said(sent, held, pending) \cup Range(n)
         /\ LinedUp(sent, held, pending) /\ Sorted(n)
              /\ (\A x \in Said(sent, held, pending) : x <= a) => LinedUp(sent, held, Rest)
    <3>1. a \in Int /\ \A y \in Range(n) : y > a BY <2>1, <2>5, <1>1
    <3>2. pending \in Seq(Int) /\ held \in Seq(Int) /\ sent \in Seq(Seq(Int)) /\ n \in Seq(Int)
      BY <1>1, <2>5
    <3>3. /\ Said(sent, held, pending \o n) = Said(sent, held, pending) \cup Range(n)
          /\ LinedUp(sent, held, pending) /\ Sorted(n)
               /\ (\A x \in Said(sent, held, pending) : x <= a) => LinedUp(sent, held, pending \o n)
      BY <3>1, <3>2, LinedExtend
    <3> QED BY <3>3, <2>2
  <2>11. ASSUME errors = 0 PROVE LinedUp(sent, held, Rest)
    <3>1. LinedUp(sent, held, pending) /\ \A x \in Said(sent, held, pending) : x <= a
      BY <1>3, <2>11 DEF SInv, Once, Behind, Taken, a
    <3> QED BY <3>1, <2>5, <2>10
  <2> QED BY <2>6, <2>8, <2>9, <2>10, <2>11
<1> QED BY <1>2, <1>3

LEMMA FlushSInv ==
  IInv /\ SInv /\ Closing /\ Flush => SInv' /\ (vad.speech => Last(Last(sent')) = produced)
<1> HAVE IInv /\ SInv /\ Closing /\ Flush
<1>1. /\ step = "chunking" /\ step' = "ended" /\ end' = "Flush" /\ end' # "Cancel"
      /\ pending' = <<>> /\ held' = <<>>
      /\ UNCHANGED <<fed, vad, ring, since, owed, errors>>
      /\ sent' = AllPieces(sent, held, Rest, Full(held, Rest))
  BY DEF Flush, AllPieces
<1>2. held \in Seq(Int) /\ sent \in Seq(Seq(Int)) BY DEF IInv, Typed
<1>3. /\ Rest \in Seq(Int)
      /\ Said(sent, held, pending) \subseteq Said(sent, held, Rest)
      /\ errors = 0 => LinedUp(sent, held, Rest)
      /\ vad.speech => Rest # <<>> /\ Rest[Len(Rest)] = produced
  BY <1>1, RestSaid
<1>4. Full(held, Rest) \in BOOLEAN BY DEF Full
<1>5. /\ Said(sent', held', pending') = Said(sent, held, Rest)
      /\ LinedUp(sent, held, Rest) => LinedUp(sent', held', pending')
      /\ Rest # <<>> => Last(Last(sent')) = Rest[Len(Rest)]
  <2>1. /\ Said(sent', <<>>, <<>>) = Said(sent, held, Rest)
        /\ LinedUp(sent, held, Rest) => LinedUp(sent', <<>>, <<>>)
        /\ Rest # <<>> => Last(Last(sent')) = Rest[Len(Rest)]
    BY <1>1, <1>2, <1>3, <1>4, LastTickSaid
  <2> QED BY <2>1, <1>1
<1>6. Detecting' BY <1>1 DEF SInv, Detecting
<1>7. Ringing' BY <1>1 DEF SInv, Ringing, Fresh
<1>8. Recalled' BY <1>1 DEF SInv, Recalled
<1>9. Once' BY <1>1, <1>3, <1>5 DEF Once
<1>10. Behind' BY <1>1 DEF Behind
<1>11. Kept'
  <2> SUFFICES ASSUME end # "Cancel", NEW f \in owed
               PROVE  Range(Samples(f)) \subseteq Said(sent', held', pending')
    <3>1. end # "Cancel" BY <1>1 DEF Closing
    <3> QED BY <3>1, <1>1 DEF Kept
  <2>1. Range(Samples(f)) \subseteq Said(sent, held, pending) BY DEF SInv, Kept
  <2> QED BY <2>1, <1>3, <1>5
<1>12. Newest' BY <1>1 DEF Newest
<1> QED BY <1>3, <1>5, <1>6, <1>7, <1>8, <1>9, <1>10, <1>11, <1>12 DEF SInv

LEMMA CancelSInv == IInv /\ SInv /\ Cancel => SInv'
<1> HAVE IInv /\ SInv /\ Cancel
<1>1. /\ step' = "ended" /\ end' = "Cancel" /\ pending' = <<>> /\ held' = <<>> /\ sent' = sent
      /\ UNCHANGED <<fed, vad, ring, since, owed, errors>>
  BY DEF Cancel
<1>2. Detecting' BY <1>1 DEF SInv, Detecting
<1>3. Ringing' BY <1>1 DEF SInv, Ringing, Fresh
<1>4. Recalled' BY <1>1 DEF SInv, Recalled
<1>5. Once'
  <2> SUFFICES ASSUME errors = 0 PROVE LinedUp(sent, <<>>, <<>>) BY <1>1 DEF Once
  <2>1. LinedUp(sent, held, pending) BY DEF SInv, Once
  <2>2. /\ \A i \in 1 .. Len(sent) : Sorted(sent[i])
        /\ \A i, j \in 1 .. Len(sent) : i < j => Precedes(sent[i], sent[j])
    BY <2>1 DEF LinedUp
  <2>3. \A q \in Seq(Int) : Precedes(q, <<>>) BY PrecedesEmpty
  <2>4. sent \in Seq(Seq(Int)) BY DEF IInv, Typed
  <2>5. \A i \in 1 .. Len(sent) : sent[i] \in Seq(Int) BY <2>4
  <2>6. Sorted(<<>>) /\ Precedes(<<>>, <<>>) /\ <<>> \in Seq(Int)
    <3>1. <<>> \in Seq(Int) OBVIOUS
    <3> QED BY <3>1, PrecedesEmpty
  <2> QED BY <2>2, <2>3, <2>5, <2>6 DEF LinedUp
<1>6. Behind' BY <1>1 DEF Behind
<1>7. Kept' BY <1>1 DEF Kept
<1>8. Newest' BY <1>1 DEF Newest
<1> QED BY <1>2, <1>3, <1>4, <1>5, <1>6, <1>7, <1>8 DEF SInv

-----------------------------------------------------------------------------
LEMMA PushFrameSInv == \A voiced \in BOOLEAN : IInv /\ SInv /\ PushFrame(voiced) => SInv'
<1> TAKE voiced \in BOOLEAN
<1> HAVE IInv /\ SInv /\ PushFrame(voiced)
<1>1. FrameStep
  <2>1. /\ step = "chunking" /\ step' = "chunking" /\ end' = end /\ errors' = errors
        /\ fed' = fed + 1
    BY Frames
  <2> QED BY <2>1 DEF FrameStep
<1>2. Detecting' /\ Ringing' /\ Recalled' BY PushDetecting, PushRinging, PushRecalled
<1>3. CASE ~vad.speech /\ vad'.speech /\ OpensSegment(fed')
  <2>1. Once' /\ Behind' /\ Kept' /\ Newest' BY <1>1, <1>3, OpensSaid
  <2> QED BY <1>2, <2>1 DEF SInv
<1>4. CASE vad.speech /\ vad'.speech /\ ContinuesSegment(fed')
  <2>1. Once' /\ Behind' /\ Kept' /\ Newest' BY <1>1, <1>4, ContinuesSaid
  <2> QED BY <1>2, <2>1 DEF SInv
<1>5. CASE vad.speech /\ ~vad'.speech /\ EndsSegment
  <2>1. Once' /\ Behind' /\ Kept' /\ Newest' BY <1>1, <1>5, EndsSaid
  <2> QED BY <1>2, <2>1 DEF SInv
<1>6. CASE ~vad.speech /\ ~vad'.speech /\ Silence
  <2>1. Once' /\ Behind' /\ Kept' /\ Newest' BY <1>1, <1>6, SilenceSaid
  <2> QED BY <1>2, <2>1 DEF SInv
<1> QED BY <1>3, <1>4, <1>5, <1>6, Frames

\* A frame the detector fails on: from here on nothing is claimed of the ring.
LEMMA PushUnheardSInv == IInv /\ SInv /\ PushUnheard => SInv'
<1> HAVE IInv /\ SInv /\ PushUnheard
<1>1. /\ step = "chunking" /\ step' = "chunking" /\ end' = end /\ fed' = fed + 1
      /\ errors' = errors + 1 /\ vad' = vad
  BY DEF PushUnheard
<1>2. errors' \in Nat /\ errors' # 0 /\ fed \in Nat /\ since \in 0 .. Prefill
  BY <1>1 DEF SInv, Detecting, IInv, Typed
<1>3. FrameStep BY <1>1, <1>2 DEF FrameStep
<1>4. Ringing' BY <1>2 DEF Ringing
<1>5. Recalled' BY <1>2 DEF Recalled
<1>6. CASE vad.speech /\ ContinuesSegment(fed')
  <2>1. Once' /\ Behind' /\ Kept' /\ Newest' BY <1>1, <1>3, <1>6, ContinuesSaid
  <2>2. since' = since BY <1>6 DEF ContinuesSegment
  <2>3. vad.hang \in 0 .. Hangover /\ fed > Hangover - vad.hang
    BY <1>6 DEF SInv, Detecting
  <2>4. Detecting' BY <2>2, <2>3, <1>1, <1>2, <1>6, Constants DEF Detecting
  <2> QED BY <2>1, <2>4, <1>4, <1>5 DEF SInv
<1>7. CASE ~vad.speech /\ Silence
  <2>1. Once' /\ Behind' /\ Kept' /\ Newest' BY <1>1, <1>3, <1>7, SilenceSaid
  <2>2. since' = Least(since + 1, Prefill) BY <1>7 DEF Silence
  <2>3. since' \in 0 .. Prefill /\ (since' < Prefill => since' = since + 1 /\ since < Prefill)
    BY <2>2, <1>2, Constants DEF Least
  <2>4. ASSUME since' < Prefill PROVE fed' >= Hangover + 2 + since'
    <3>1. since' = since + 1 /\ since < Prefill BY <2>3, <2>4
    <3>2. fed >= Hangover + 2 + since BY <3>1, <1>7 DEF SInv, Detecting
    <3> QED BY <3>1, <3>2, <1>1, <1>2, Constants
  <2>5. vad.hang \in 0 .. Hangover BY DEF SInv, Detecting
  <2>6. Detecting' BY <2>3, <2>4, <2>5, <1>1, <1>2, <1>7 DEF Detecting
  <2> QED BY <2>1, <2>6, <1>4, <1>5 DEF SInv
<1> QED BY <1>6, <1>7 DEF PushUnheard

LEMMA InitSInv == Init => SInv
<1> HAVE Init
<1>1. /\ fed = 0 /\ vad = [speech |-> FALSE, run |-> 0, hang |-> 0] /\ ring = <<>>
      /\ pending = <<>> /\ held = <<>> /\ sent = <<>> /\ owed = {} /\ errors = 0
      /\ since = Prefill
  BY DEF Init, ChunkerInit, GrouperInit
<1>2. ~vad.speech /\ vad.hang = 0 BY <1>1
<1>3. Detecting BY <1>1, <1>2, Constants DEF Detecting
<1>4. Fresh = 0 BY <1>1, <1>2, Constants DEF Fresh, Least
<1>5. Ringing BY <1>1, <1>4 DEF Ringing, Ends
<1>6. Recalled BY <1>1, <1>2, Constants DEF Recalled
<1>7. Sorted(<<>>) /\ Precedes(<<>>, <<>>) /\ Range(<<>>) = {}
  <2>1. <<>> \in Seq(Int) OBVIOUS
  <2> QED BY <2>1, PrecedesEmpty
<1>8. Len(sent) = 0 BY <1>1
<1>9. Once BY <1>1, <1>7, <1>8 DEF Once, LinedUp
<1>10. Said(sent, held, pending) = {} BY <1>1, <1>7, <1>8 DEF Said
<1>11. Behind BY <1>10 DEF Behind
<1>12. Kept BY <1>1 DEF Kept
<1>13. Newest BY <1>2 DEF Newest
<1> QED BY <1>3, <1>5, <1>6, <1>9, <1>11, <1>12, <1>13 DEF SInv

\* The parts of a session are its pieces and the two sequences still open.
LEMMA PartsFacts ==
  held \in Seq(Int) /\ pending \in Seq(Int) /\ sent \in Seq(Seq(Int)) =>
    /\ Len(Parts) = Len(sent) + 2 /\ Len(sent) \in Nat /\ DOMAIN Parts = 1 .. Len(Parts)
    /\ Parts[Len(sent) + 1] = held /\ Parts[Len(sent) + 2] = pending
    /\ \A i \in 1 .. Len(sent) : Parts[i] = sent[i] /\ sent[i] \in Seq(Int)
<1> HAVE held \in Seq(Int) /\ pending \in Seq(Int) /\ sent \in Seq(Seq(Int))
<1> DEFINE open == <<held, pending>>
<1>1. open \in Seq(Seq(Int)) /\ Len(open) = 2 /\ open[1] = held /\ open[2] = pending OBVIOUS
<1>2. Len(sent) \in Nat /\ \A i \in 1 .. Len(sent) : sent[i] \in Seq(Int) OBVIOUS
<1>3. Parts = sent \o open BY DEF Parts
<1> HIDE DEF open
<1>4. /\ sent \o open \in Seq(Seq(Int)) /\ Len(sent \o open) = Len(sent) + 2
      /\ \A i \in 1 .. Len(sent) + 2 :
           (sent \o open)[i] = IF i <= Len(sent) THEN sent[i] ELSE open[i - Len(sent)]
  <2>1. /\ sent \o open \in Seq(Seq(Int)) /\ Len(sent \o open) = Len(sent) + Len(open)
        /\ \A i \in 1 .. Len(sent) + Len(open) :
             (sent \o open)[i] = IF i <= Len(sent) THEN sent[i] ELSE open[i - Len(sent)]
    BY <1>1, ConcatProperties
  <2> QED BY <2>1, <1>1
<1>5. /\ Parts \in Seq(Seq(Int)) /\ Len(Parts) = Len(sent) + 2
      /\ \A i \in 1 .. Len(sent) + 2 :
           Parts[i] = IF i <= Len(sent) THEN sent[i] ELSE open[i - Len(sent)]
  BY <1>3, <1>4
<1>6. DOMAIN Parts = 1 .. Len(Parts) BY <1>5, LenProperties
<1> DEFINE n == Len(sent)
<1>7. n \in Nat /\ n + 1 \in 1 .. n + 2 /\ n + 2 \in 1 .. n + 2 /\ ~(n + 1 <= n) /\ ~(n + 2 <= n)
      /\ n + 1 - n = 1 /\ n + 2 - n = 2
  BY <1>2
<1>8. Parts[n + 1] = held /\ Parts[n + 2] = pending
  <2> HIDE DEF n
  <2>1. \A i \in 1 .. n + 2 : Parts[i] = IF i <= n THEN sent[i] ELSE open[i - n] BY <1>5 DEF n
  <2>2. Parts[n + 1] = open[n + 1 - n] /\ Parts[n + 2] = open[n + 2 - n] BY <2>1, <1>7
  <2> QED BY <2>2, <1>1, <1>7
<1>9. \A i \in 1 .. Len(sent) : Parts[i] = sent[i]
  <2> TAKE i \in 1 .. Len(sent)
  <2>1. i \in 1 .. Len(sent) + 2 /\ i <= Len(sent) BY <1>2
  <2> QED BY <2>1, <1>5
<1> QED BY <1>2, <1>5, <1>6, <1>8, <1>9

-----------------------------------------------------------------------------
\* The more the device has delivered, the more is resampled.
LEMMA AvailableMonotone == \A m, n \in Nat : m <= n => Available(m) <= Available(n)
<1> TAKE m, n \in Nat
<1> HAVE m <= n
<1> DEFINE at(k) == {j \in 0 .. k * To : (j * From) \div To + 1 < k}
<1>1. m * To \in Int /\ n * To \in Int /\ m * To <= n * To BY Constants, TimesMonotone
<1>2. IsFiniteSet(at(n))
  <2>1. IsFiniteSet(0 .. n * To) BY <1>1, FS_Interval
  <2> QED BY <2>1, FS_Subset
<1>3. at(m) \subseteq at(n)
  <2> SUFFICES ASSUME NEW j \in at(m) PROVE j \in at(n) OBVIOUS
  <2>1. j \in 0 .. n * To BY <1>1
  <2>2. (j * From) \div To \in Int
    <3> DEFINE x == j * From
    <3>1. x \in Nat BY <2>1, Constants
    <3> HIDE DEF x
    <3>2. To \in Nat /\ To > 0 BY CaptureAssumption DEF CaptureAssumption
    <3>3. x \div To \in Nat BY <3>1, <3>2
    <3> QED BY <3>3 DEF x
  <2>3. (j * From) \div To + 1 < n BY <2>2
  <2> QED BY <2>1, <2>3
<1>4. Cardinality(at(m)) <= Cardinality(at(n)) BY <1>2, <1>3, FS_Subset
<1> QED BY <1>4 DEF Available

LEMMA InitClosing == Init => Closing
<1> HAVE Init
<1>1. produced = 0 /\ heard = 0 BY DEF Init, ResamplerInit
<1>2. Available(heard) \in Nat BY <1>1, AvailableNat
<1> QED BY <1>1, <1>2 DEF Init, Closing

LEMMA NextClosing == IInv /\ Closing /\ [Next]_vars => Closing'
<1> SUFFICES ASSUME IInv, Closing, [Next]_vars PROVE Closing'
  OBVIOUS
<1>1. heard \in Nat /\ produced \in Nat /\ Available(heard) \in Nat
  BY AvailableNat DEF IInv, Typed
<1>2. ASSUME NEW k \in Batches, Deliver(k) PROVE Closing'
  <2>1. streaming /\ heard' = heard + k /\ heard' \in Nat /\ heard <= heard'
    BY <1>1, <1>2, Constants DEF Deliver
  <2>2. Available(heard) <= Available(heard') /\ Available(heard') \in Nat
    BY <2>1, <1>1, AvailableMonotone, AvailableNat
  <2>3. produced' <= Available(heard')
    <3>1. produced' = produced /\ produced <= Available(heard) BY <1>2 DEF Deliver, Closing
    <3> QED BY <3>1, <2>2, <1>1
  <2>4. ~stop /\ ~done BY <2>1 DEF Closing
  <2> QED BY <2>3, <2>4, <1>2 DEF Deliver, control, Closing
<1>3. ASSUME NEW c \in BOOLEAN, DropStream(c) PROVE Closing'
  BY <1>3 DEF DropStream, Closing
<1>4. CASE SetStop BY <1>4 DEF SetStop, device, Closing
<1>5. CASE ReadStop BY <1>5 DEF ReadStop, device, control, Closing
<1>6. CASE Drain
  <2>1. produced' = Available(heard) BY <1>1, <1>6 DEF Drain, Closing, Most
  <2>2. /\ heard' = heard /\ step = "awake" /\ step' = "chunking"
        /\ UNCHANGED <<streaming, stop, done, end>>
    BY <1>6 DEF Drain, device, control
  <2>3. produced' = Available(heard') /\ produced' \in Nat BY <2>1, <2>2, <1>1
  <2>4. produced' <= Available(heard') BY <2>3
  <2> QED BY <2>2, <2>3, <2>4 DEF Closing
<1>7. ASSUME NEW voiced \in BOOLEAN, PushFrame(voiced) PROVE Closing'
  BY <1>7 DEF PushFrame, device, control, Closing
<1>8. CASE PushUnheard BY <1>8 DEF PushUnheard, device, control, Closing
<1>9. CASE NextTick BY <1>9 DEF NextTick, device, control, Closing
<1>10. CASE Flush BY <1>10 DEF Flush, device, control, Closing
<1>11. CASE Cancel BY <1>11 DEF Cancel, device, control, Closing
<1>12. CASE UNCHANGED vars BY <1>12 DEF vars, device, control, Closing
<1> QED BY <1>2, <1>3, <1>4, <1>5, <1>6, <1>7, <1>8, <1>9, <1>10, <1>11, <1>12 DEF Next

LEMMA NextSInv == IInv /\ SInv /\ Closing /\ [Next]_vars => SInv'
<1> SUFFICES ASSUME IInv, SInv, Closing, [Next]_vars PROVE SInv'
  OBVIOUS
<1>1. ASSUME NEW k \in Batches, Deliver(k) PROVE SInv'
  BY <1>1, SpeechKeepsSInv DEF Deliver
<1>2. ASSUME NEW c \in BOOLEAN, DropStream(c) PROVE SInv'
  BY <1>2, SpeechKeepsSInv DEF DropStream
<1>3. CASE SetStop BY <1>3, SpeechKeepsSInv DEF SetStop
<1>4. CASE ReadStop BY <1>4, SpeechKeepsSInv DEF ReadStop
<1>5. CASE Drain BY <1>5, SpeechKeepsSInv DEF Drain
<1>6. ASSUME NEW voiced \in BOOLEAN, PushFrame(voiced) PROVE SInv'
  BY <1>6, PushFrameSInv
<1>7. CASE PushUnheard BY <1>7, PushUnheardSInv
<1>8. CASE NextTick BY <1>8, SpeechKeepsSInv DEF NextTick
<1>9. CASE Flush BY <1>9, FlushSInv
<1>10. CASE Cancel BY <1>10, CancelSInv
<1>11. CASE UNCHANGED vars BY <1>11, SpeechKeepsSInv DEF vars
<1> QED BY <1>1, <1>2, <1>3, <1>4, <1>5, <1>6, <1>7, <1>8, <1>9, <1>10, <1>11 DEF Next

\* The flush of a recording the user was still speaking in ends on the last sample
\* there was, and nothing is delivered or sent after it.
Ending == end = "Flush" => step = "ended" /\ LastWordHeard

LEMMA NextEnding == IInv /\ SInv /\ Closing /\ Ending /\ [Next]_vars => Ending'
<1> SUFFICES ASSUME IInv, SInv, Closing, Ending, [Next]_vars, end' = "Flush"
             PROVE  step' = "ended" /\ LastWordHeard'
  BY DEF Ending
<1>1. CASE Flush
  <2>1. /\ step' = "ended" /\ vad' = vad /\ heard' = heard
        /\ vad.speech => Last(Last(sent')) = produced
        /\ produced = Available(heard)
    BY <1>1, FlushSInv DEF Flush, device, Closing
  <2> QED BY <2>1 DEF LastWordHeard
<1>2. CASE ~Flush
  <2>1. end = "Flush" BY <1>2 DEF Next, Deliver, DropStream, SetStop, ReadStop, Drain, PushFrame,
                               PushUnheard, NextTick, Cancel, vars
  <2>2. step = "ended" /\ LastWordHeard /\ ~streaming BY <2>1 DEF Ending, Closing
  <2>3. UNCHANGED <<step, heard, sent, vad>>
    BY <2>2, <1>2 DEF Next, Deliver, DropStream, SetStop, ReadStop, Drain, PushFrame,
                      PushUnheard, NextTick, Cancel, vars, device, speech
  <2>4. Available(heard') = Available(heard) /\ Last(Last(sent')) = Last(Last(sent))
    BY <2>3
  <2>5. vad.speech => Last(Last(sent)) = Available(heard) BY <2>1, <2>2 DEF LastWordHeard
  <2> QED BY <2>2, <2>3, <2>4, <2>5 DEF LastWordHeard
<1> QED BY <1>1, <1>2

-----------------------------------------------------------------------------
\* The invariants say what the properties say.

LEMMA LinedUpParts ==
  IInv /\ LinedUp(sent, held, pending) =>
    \A j \in 1 .. Len(Parts) :
      Increasing(Parts[j]) /\ \A i \in 1 .. j - 1 : Before(Parts[i], Parts[j])
<1> HAVE IInv /\ LinedUp(sent, held, pending)
<1>1. held \in Seq(Int) /\ pending \in Seq(Int) /\ sent \in Seq(Seq(Int)) BY DEF IInv, Typed
<1>2. /\ Len(Parts) = Len(sent) + 2 /\ Len(sent) \in Nat
      /\ Parts[Len(sent) + 1] = held /\ Parts[Len(sent) + 2] = pending
      /\ \A i \in 1 .. Len(sent) : Parts[i] = sent[i] /\ sent[i] \in Seq(Int)
  BY <1>1, PartsFacts
<1>3. \A i \in 1 .. Len(Parts) : i \in 1 .. Len(sent) \/ i = Len(sent) + 1 \/ i = Len(sent) + 2
  BY <1>2
<1>4. ASSUME NEW j \in 1 .. Len(Parts) PROVE Parts[j] \in Seq(Int) /\ Sorted(Parts[j])
  <2>1. CASE j \in 1 .. Len(sent) BY <2>1, <1>2 DEF LinedUp
  <2>2. CASE j = Len(sent) + 1 BY <2>2, <1>1, <1>2 DEF LinedUp
  <2>3. CASE j = Len(sent) + 2 BY <2>3, <1>1, <1>2 DEF LinedUp
  <2> QED BY <2>1, <2>2, <2>3, <1>3
<1>5. ASSUME NEW j \in 1 .. Len(Parts), NEW i \in 1 .. j - 1 PROVE Precedes(Parts[i], Parts[j])
  <2>0. i \in 1 .. Len(Parts) /\ i < j BY <1>2
  <2>1. CASE j \in 1 .. Len(sent)
    <3>1. i \in 1 .. Len(sent) BY <2>0, <2>1, <1>2
    <3>2. Precedes(sent[i], sent[j]) BY <3>1, <2>0, <2>1 DEF LinedUp
    <3> QED BY <3>1, <3>2, <2>1, <1>2
  <2>2. CASE j = Len(sent) + 1
    <3>1. i \in 1 .. Len(sent) BY <2>0, <2>2, <1>2
    <3>2. Precedes(sent[i], held) BY <3>1 DEF LinedUp
    <3> QED BY <3>1, <3>2, <2>2, <1>2
  <2>3. CASE j = Len(sent) + 2
    <3>1. CASE i \in 1 .. Len(sent)
      <4>1. Precedes(sent[i], pending) BY <3>1 DEF LinedUp
      <4> QED BY <3>1, <4>1, <2>3, <1>2
    <3>2. CASE i = Len(sent) + 1
      <4>1. Precedes(held, pending) BY DEF LinedUp
      <4> QED BY <3>2, <4>1, <2>3, <1>2
    <3>3. i # Len(sent) + 2 BY <2>0, <2>3, <1>2
    <3> QED BY <3>1, <3>2, <3>3, <2>0, <1>3
  <2> QED BY <2>1, <2>2, <2>3, <1>3
<1> TAKE j \in 1 .. Len(Parts)
<1>6. Increasing(Parts[j]) BY <1>4, SortedIncreasing
<1>7. ASSUME NEW i \in 1 .. j - 1 PROVE Before(Parts[i], Parts[j])
  <2>1. i \in 1 .. Len(Parts) BY <1>2
  <2> QED BY <2>1, <1>4, <1>5, PrecedesBefore
<1> QED BY <1>6, <1>7

LEMMA SaidParts ==
  IInv => Said(sent, held, pending) \subseteq UNION {Range(p) : p \in Range(Parts)}
<1> HAVE IInv
<1>1. held \in Seq(Int) /\ pending \in Seq(Int) /\ sent \in Seq(Seq(Int)) BY DEF IInv, Typed
<1>2. /\ Len(Parts) = Len(sent) + 2 /\ Len(sent) \in Nat /\ DOMAIN Parts = 1 .. Len(Parts)
      /\ Parts[Len(sent) + 1] = held /\ Parts[Len(sent) + 2] = pending
      /\ \A i \in 1 .. Len(sent) : Parts[i] = sent[i] /\ sent[i] \in Seq(Int)
  BY <1>1, PartsFacts
<1>3. \A i \in 1 .. Len(Parts) : Parts[i] \in Range(Parts) BY <1>2 DEF Range
<1>4. held \in Range(Parts) /\ pending \in Range(Parts)
  <2>1. Len(sent) + 1 \in 1 .. Len(Parts) /\ Len(sent) + 2 \in 1 .. Len(Parts) BY <1>2
  <2>2. Parts[Len(sent) + 1] \in Range(Parts) /\ Parts[Len(sent) + 2] \in Range(Parts)
    BY <2>1, <1>3
  <2> QED BY <2>2, <1>2
<1>5. \A i \in 1 .. Len(sent) : sent[i] \in Range(Parts)
  <2> TAKE i \in 1 .. Len(sent)
  <2>1. i \in 1 .. Len(Parts) BY <1>2
  <2>2. Parts[i] \in Range(Parts) BY <2>1, <1>3
  <2> QED BY <2>2, <1>2
<1> SUFFICES ASSUME NEW x \in Said(sent, held, pending)
             PROVE  \E p \in Range(Parts) : x \in Range(p)
  OBVIOUS
<1>6. CASE x \in Range(held) \/ x \in Range(pending) BY <1>4, <1>6
<1>7. ASSUME NEW i \in 1 .. Len(sent), x \in Range(sent[i])
      PROVE  \E p \in Range(Parts) : x \in Range(p)
  BY <1>5, <1>7
<1> QED BY <1>6, <1>7 DEF Said

\* However the user speaks and pauses, however speech is cut, held and grouped, and
\* whether the detector fails on frames: what belongs to speech is sent or on its way
\* until the recording is cancelled (VadChunker, PieceGrouper, the forced cut, finish).
THEOREM NothingIsLost == Spec => []SpeechKept
<1>1. Spec => [](IInv /\ SInv /\ Closing)
  BY InitIInv, InitSInv, InitClosing, NextIInv, NextSInv, NextClosing, PTL DEF Spec
<1>2. IInv /\ SInv => SpeechKept
  <2> SUFFICES ASSUME IInv, SInv, end # "Cancel", NEW f \in owed
               PROVE  Range(Samples(f)) \subseteq UNION {Range(p) : p \in Range(Parts)}
    BY DEF SpeechKept
  <2>1. Range(Samples(f)) \subseteq Said(sent, held, pending) BY DEF SInv, Kept
  <2> QED BY <2>1, SaidParts
<1> QED BY <1>1, <1>2, PTL

\* And none of it is sent twice or out of order: the ring never repeats the hangover of
\* the segment before, for every length of pause (VadChunker::push_frame).
THEOREM NothingIsDoubled == Spec => []SpeechOnce
<1>1. Spec => [](IInv /\ SInv /\ Closing)
  BY InitIInv, InitSInv, InitClosing, NextIInv, NextSInv, NextClosing, PTL DEF Spec
<1>2. IInv /\ SInv => SpeechOnce
  <2> SUFFICES ASSUME IInv, SInv, errors = 0
               PROVE  \A j \in 1 .. Len(Parts) :
                        Increasing(Parts[j]) /\ \A i \in 1 .. j - 1 : Before(Parts[i], Parts[j])
    BY DEF SpeechOnce
  <2>1. LinedUp(sent, held, pending) BY DEF SInv, Once
  <2> QED BY <2>1, LinedUpParts
<1> QED BY <1>1, <1>2, PTL

\* Both together: what was spoken is sent whole, and once.
THEOREM SpeechStaysIntact == Spec => []SpeechIntact
<1>1. SpeechOnce /\ SpeechKept => SpeechIntact BY DEF SpeechIntact
<1> QED BY <1>1, NothingIsLost, NothingIsDoubled, PTL

\* A recording that ends while the user speaks is sent up to the last sample delivered:
\* Session::stop drops the stream before it sets the flag, and the monitor reads the flag
\* before it drains the buffer.
THEOREM LastWordIsHeard == Spec => []LastWordHeard
<1>1. Init => Ending BY DEF Init, Ending
<1>2. Spec => [](IInv /\ SInv /\ Closing /\ Ending)
  BY InitIInv, InitSInv, InitClosing, <1>1, NextIInv, NextSInv, NextClosing, NextEnding, PTL DEF Spec
<1>3. Ending => LastWordHeard BY DEF Ending, LastWordHeard
<1> QED BY <1>2, <1>3, PTL

-----------------------------------------------------------------------------
(* The devices the sessions record from *)

\* What is plugged in under a name is a connection of that name.
Named ==
  /\ \A n \in Names : plugged[n] = None \/ plugged[n].name = n
  /\ plugged = [n \in Names |-> plugged[n]]
  /\ lives \in [Names -> 0 .. MaxPlugs]
  /\ default \in {None} \cup Present
  /\ stage \in {"opened", "playing", "waiting", "recording"} => input # None

\* A blamed device in hand is to be reopened: the flag says so, or it is about to be.
Armed ==
  /\ input # None /\ input \in blamed => failed \/ stage = "opening"
  /\ stage \in {"opened", "playing"} /\ input \in blamed => kept

\* From the press to the end of the session.
Chosen ==
  stage \in {"opened", "playing", "waiting", "recording"} /\ steady /\ ~kept =>
    Wanted(preferred) \in {input.name, None}

MInv == Named /\ Armed /\ Chosen

\* What Wanted gives is plugged in, if it gives anything.
LEMMA WantedPresent ==
  ASSUME Named, NEW n, Wanted(n) # None
  PROVE  Wanted(n) \in Present /\ plugged[Wanted(n)].name = Wanted(n)
BY DEF Named, Wanted, Present

LEMMA InitMInv == MInit => MInv
<1> SUFFICES ASSUME MInit PROVE MInv
  OBVIOUS
<1>1. PICK present \in SUBSET Names, r \in [Names -> Rates] :
        plugged = [n \in Names |-> IF n \in present THEN [name |-> n, life |-> 1, rate |-> r[n]]
                                                   ELSE None]
  BY DEF MInit
<1>2. \A n \in Names : plugged[n] = None \/ plugged[n].name = n BY <1>1
<1>3. plugged = [n \in Names |-> plugged[n]] BY <1>1
<1>4. default \in {None} \cup Present BY DEF MInit
<1>5. lives \in [Names -> 0 .. MaxPlugs] BY MicrophoneAssumption DEF MInit, MicrophoneAssumption
<1>6. Named BY <1>2, <1>3, <1>4, <1>5 DEF MInit, Named
<1> QED BY <1>6 DEF MInit, MInv, Armed, Chosen

\* A change of the system leaves the session its device, and its blame.
LEMMA SystemChanges ==
  ASSUME Named, NEW n \in Names,
         NEW h, h = None \/ h.name = n,
         plugged' = [plugged EXCEPT ![n] = h],
         DefaultAmong(IF h = None THEN Present \ {n} ELSE Present \cup {n}),
         lives' \in [Names -> 0 .. MaxPlugs],
         UNCHANGED <<input, stage>>
  PROVE  Named'
<1>1. \A m \in Names : plugged'[m] = None \/ plugged'[m].name = m BY DEF Named
<1>2. plugged' = [m \in Names |-> plugged'[m]] BY DEF Named
<1>3. Present' = IF h = None THEN Present \ {n} ELSE Present \cup {n}
  BY DEF Named, Present
<1>4. default' \in {None} \cup Present' BY <1>3 DEF DefaultAmong
<1> QED BY <1>1, <1>2, <1>4 DEF Named

LEMMA NextMInv == MInv /\ [MNext]_micVars => MInv'
<1> SUFFICES ASSUME MInv, [MNext]_micVars PROVE MInv'
  OBVIOUS
<1>0. Named /\ Armed /\ Chosen BY DEF MInv
<1>1. ASSUME NEW n \in Names, Plug(n) PROVE MInv'
  <2>1. PICK r \in Rates :
          plugged' = [plugged EXCEPT ![n] = [name |-> n, life |-> lives'[n], rate |-> r]]
    BY <1>1 DEF Plug
  <2> DEFINE h == [name |-> n, life |-> lives'[n], rate |-> r]
  <2>2. lives' \in [Names -> 0 .. MaxPlugs] /\ lives'[n] \in 1 .. MaxPlugs
    BY <1>0, <1>1, MicrophoneAssumption DEF Plug, Named, MicrophoneAssumption
  <2>3. h.name = n /\ h # None BY <2>2, MicrophoneAssumption DEF MicrophoneAssumption
  <2>4. plugged' = [plugged EXCEPT ![n] = h] BY <2>1
  <2> HIDE DEF h
  <2>5. Named'
    BY <1>0, <1>1, <2>2, <2>3, <2>4, SystemChanges DEF Plug
  <2> QED BY <1>0, <1>1, <2>5 DEF Plug, MInv, Armed, Chosen, bounds
<1>2. ASSUME NEW n \in Names, Unplug(n) PROVE MInv'
  <2>1. Named' BY <1>0, <1>2, SystemChanges DEF Unplug, Named
  <2>2. Armed' BY <1>0, <1>2 DEF Unplug, Armed
  <2> QED BY <1>2, <2>1, <2>2 DEF Unplug, MInv, Chosen
<1>3. CASE Choose
  BY <1>0, <1>3 DEF Choose, Options, MInv, Named, Armed, Chosen, Wanted, Present
<1>4. CASE Press
  <2>1. Named' BY <1>0, <1>4 DEF Press, Named, Present, Stale, system
  <2>2. Armed' BY <1>0, <1>4 DEF Press, Armed, Stale
  <2>3. Wanted(choice)' = Wanted(choice) BY <1>4 DEF Press, Wanted, Present, system
  <2>4. Chosen' BY <1>4, <2>3 DEF Press, Chosen, Stale, Wanted, Present, system
  <2> QED BY <2>1, <2>2, <2>4 DEF MInv
<1>5. CASE Open
  <2>1. Wanted(preferred) \in Present /\ plugged[Wanted(preferred)].name = Wanted(preferred)
    BY <1>0, <1>5, WantedPresent DEF Open
  <2>2. Named' BY <1>0, <1>5, <2>1 DEF Open, Named, Present, system
  <2>3. Armed' BY <1>5 DEF Open, Armed
  <2>4. Chosen' BY <1>5, <2>1 DEF Open, Chosen, Wanted, Present, system
  <2> QED BY <2>2, <2>3, <2>4 DEF MInv
<1>6. CASE OpenFails
  BY <1>0, <1>6 DEF OpenFails, MInv, Named, Armed, Chosen, Present, system
<1>7. CASE MakeResampler
  BY <1>0, <1>7 DEF MakeResampler, MInv, Named, Armed, Chosen, Wanted, Present, system
<1>8. CASE Play
  BY <1>0, <1>8 DEF Play, MInv, Named, Armed, Chosen, Wanted, Present, system
<1>9. CASE PlayFails
  BY <1>0, <1>9 DEF PlayFails, MInv, Named, Armed, Chosen, Wanted, Present, system
<1>10. CASE FirstSample
  BY <1>0, <1>10 DEF FirstSample, MInv, Named, Armed, Chosen, Wanted, Present, system
<1>11. CASE NoSamples
  BY <1>0, <1>11 DEF NoSamples, MInv, Named, Armed, Chosen, Wanted, Present, system
<1>12. CASE Stop
  BY <1>0, <1>12 DEF Stop, MInv, Named, Armed, Chosen, Wanted, Present, system
<1>13. CASE UNCHANGED micVars
  BY <1>0, <1>13 DEF micVars, MInv, Named, Armed, Chosen, Wanted, Present, system
<1> QED
  BY <1>1, <1>2, <1>3, <1>4, <1>5, <1>6, <1>7, <1>8, <1>9, <1>10, <1>11, <1>12, <1>13 DEF MNext

\* A microphone that died without a word, or whose stream reported an error, is
\* opened anew before it is played again (stream_failed through the callback,
\* mark_stream_failed, ensure_input's consuming and rearming, and open_stream).
THEOREM DeadDeviceFailsOnce == MSpec => []FailsOnce
<1>1. MSpec => []MInv BY InitMInv, NextMInv, PTL DEF MSpec
<1>2. MInv => FailsOnce BY DEF MInv, Armed, FailsOnce
<1> QED BY <1>1, <1>2, PTL

\* A session that runs uses the preferred microphone or the default one
\* (ensure_input's comparison of names, and the second chance of open_stream).
THEOREM PreferredIsUsed == MSpec => []RightMicrophone
<1>1. MSpec => []MInv BY InitMInv, NextMInv, PTL DEF MSpec
<1>2. MInv => RightMicrophone BY DEF MInv, Chosen, RightMicrophone, Running
<1> QED BY <1>1, <1>2, PTL
=============================================================================
