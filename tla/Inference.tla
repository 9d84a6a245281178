------------------------------ MODULE Inference ------------------------------
(***************************************************************************)
(* What becomes of the words: the inference worker of diktafond            *)
(* (inference.rs, llm.rs, transcript.rs), from the models provisioning has *)
(* left on disk to the text it answers a session with.                     *)
(*                                                                         *)
(* Chunks of speech are transcribed as they arrive, the transcript is      *)
(* polished by a local language model that has a context of NCtx tokens,   *)
(* and what cannot be polished whole is answered raw. DaemonServe models   *)
(* whose session it is; here one client at a time keeps to the protocol: a *)
(* Start, chunks, then a Flush or a Cancel. Lengths of audio are in        *)
(* quarters of a second, of text in words, each a token.                   *)
(***************************************************************************)
EXTENDS Provisioning, Catalog

CONSTANTS
  Selection,    \* the pair of models the daemon was started with
  Languages,    \* what a session may be dictated in
  DefaultLanguage,
  Word, Folded, \* words, and what is left of one when case is ignored
  Texts,        \* what a chunk may be heard as, a sequence of words
  Clips,        \* lengths of a chunk's audio
  NCtx,         \* N_CTX
  Overheads,    \* tokens a prompt may have beside the transcript
  Margin,       \* tokens a polish may have beyond 1.3 times the transcript
  TrainedLimit, \* the longest transcript the Croatian polisher was trained on
  MaxSessions, MaxChunks  \* bounds

ASSUME InferenceAssumption ==
  /\ ValidSelection(Selection) /\ Downloadable(Model(Selection.polishing))
  /\ \A half \in Pair : Loadable(Model(Selection[half]))
  /\ Selected = SelectedFiles(Selection)
  /\ \A f \in File : DirOf[f] = DirectoryOf(f)
  /\ NoDirectory = NoDir
  /\ DefaultLanguage \in Languages
  /\ Texts \subseteq Seq(Word) /\ Clips \subseteq Nat
  /\ NCtx \in Nat /\ Margin \in Nat /\ TrainedLimit \in Nat /\ Overheads \subseteq Nat
  /\ MaxSessions \in Nat /\ MaxChunks \in Nat

\* Provisioning stages by a path's first component, promotes by a model's
\* directory: they agree for the bundled catalog, though validate_catalog does
\* not ask it of one.
ASSUME PlacedAssumption ==
  \A half \in Pair : LET m == Model(Selection[half]) IN
    \A k \in DOMAIN m.files :
      m.directory = IF Len(m.files[k].path) > 1 THEN <<Head(m.files[k].path)>> ELSE NoDirectory

VARIABLES
  models,    \* the models in memory
  session,   \* the session the worker holds
  decode,    \* the polish under way
  sent,      \* the last answer, with what the properties ask of it
  spoken,    \* of this session, the length of its audio
  sessions   \* sessions so far

worker == <<models, session, decode, sent, spoken>>
allVars == <<vars, worker, sessions>>

MaxSpokenRun == 3
MinSession   == 4

NoModels == [asr |-> {}, polishing |-> {}, limited |-> FALSE]
NoDecode == [prompt |-> 0, budget |-> 0, made |-> 0]
NoAnswer == [by |-> "none", spoken |-> 0]
Closed   == [stage |-> "closed", language |-> DefaultLanguage, quiet |-> FALSE, chunks |-> 0,
             words |-> 0, speech |-> 0, failed |-> FALSE, text |-> "none", kept |-> "no"]

-----------------------------------------------------------------------------
(* The models *)

\* load_models: what the two backends are given exists, Provisioning sees to it.
LoadModels ==
  /\ step = "ready" /\ models = NoModels
  /\ models' = [asr       |-> Model(Selection.transcription).languages,
                polishing |-> Model(Selection.polishing).languages,
                limited   |-> Model(Selection.polishing).prompt = "croatian"]
  /\ UNCHANGED <<vars, session, decode, sent, spoken, sessions>>

\* A backend refuses its file: start_up fails and the daemon exits.
LoadFails ==
  /\ step = "ready" /\ models = NoModels /\ Fault
  /\ step' = "down"
  /\ UNCHANGED <<at, tries, store, mishaps, worker, sessions>>

Loaded == step = "ready" /\ models # NoModels

-----------------------------------------------------------------------------
(* Gathering *)

\* mutant: a Start leaves the last session's count of speech
StartCounting == session.speech

StartCount == 0

Start(language, quiet) ==
  /\ Loaded /\ session.stage = "closed" /\ sessions < MaxSessions
  /\ session' = [Closed EXCEPT !.stage = "open", !.language = language, !.quiet = quiet,
                               !.speech = StartCount]
  /\ sent' = NoAnswer /\ spoken' = 0
  /\ sessions' = sessions + 1
  /\ UNCHANGED <<vars, models, decode>>

Same(text, i, j) == Folded[text[i]] = Folded[text[j]]

\* The longest run of one word that i is in, by its ends.
Run(text, i) ==
  LET together(a, b) == \A k \in a .. b : Same(text, k, i)
  IN  CHOOSE ends \in (1 .. i) \X (i .. Len(text)) :
        /\ together(ends[1], ends[2])
        /\ ends[1] > 1 => ~Same(text, ends[1] - 1, i)
        /\ ends[2] < Len(text) => ~Same(text, ends[2] + 1, i)

Loops(ends) == ends[2] - ends[1] + 1 > MaxSpokenRun

\* collapse_word_loops: of a run that loops, its first word stays.
WordsLeft(text) ==
  Cardinality({i \in DOMAIN text : Loops(Run(text, i)) => i = Run(text, i)[1]})

\* A chunk counts by its own length, whatever it is padded to. It is transcribed,
\* or fails the session: a language the model does not know, an error, a panic.
TakeChunk(clip, text) ==
  /\ Loaded /\ session.stage = "open" /\ session.chunks < MaxChunks
  /\ \E failed \in BOOLEAN :
       /\ session.language \notin models.asr => failed
       /\ session' = [session EXCEPT !.chunks = @ + 1, !.speech = @ + clip,
                                      !.words = IF failed THEN @ ELSE @ + WordsLeft(text),
                                      !.failed = @ \/ failed]
  /\ spoken' = spoken + clip
  /\ UNCHANGED <<vars, models, decode, sent, sessions>>

CancelSession ==
  /\ Loaded /\ session.stage = "open"
  /\ session' = Closed /\ spoken' = 0
  /\ UNCHANGED <<vars, models, decode, sent, sessions>>

-----------------------------------------------------------------------------
(* The flush *)

\* The session is over; only a failed one forgets how much speech it counted.
Answer(by) ==
  /\ sent' = [by |-> by, spoken |-> spoken]
  /\ session' = [Closed EXCEPT !.speech = IF session.failed THEN 0 ELSE session.speech]
  /\ decode' = NoDecode /\ spoken' = 0
  /\ UNCHANGED <<vars, models, sessions>>

\* An error, less speech than a dictation has, or none that was recognized.
Flush ==
  /\ Loaded /\ session.stage = "open"
  /\ IF session.failed THEN Answer("error")
     ELSE (session.speech < MinSession \/ session.words = 0) /\ Answer("nothing")

ToPolish ==
  /\ Loaded /\ session.stage = "open" /\ ~session.failed
  /\ session.speech >= MinSession /\ session.words > 0

\* What the session will be answered with.
Becomes(text) ==
  /\ session' = [session EXCEPT !.stage = "text", !.text = text]
  /\ UNCHANGED <<vars, models, sent, spoken, sessions>>

\* polish_session: a language the polisher does not know.
PolishSkipped ==
  /\ ToPolish /\ session.language \notin models.polishing
  /\ Becomes("raw") /\ UNCHANGED decode

\* Polishing keeps roughly the length of the transcript.
MaxNew(tokens) == tokens + (3 * tokens) \div 10 + Margin

\* mutant: a prompt that fits is taken for a polish that fits
FitsPrompt(tokens, prompt) == prompt <= NCtx

\* The prompt and the longest polish have the context to share.
Fits(tokens, prompt) == prompt + MaxNew(tokens) <= NCtx

\* Polisher.polish, up to the prefill: too long for its training or its context,
\* the transcript stands.
PolishBegins(overhead) ==
  /\ ToPolish /\ session.language \in models.polishing
  /\ LET tokens == session.words
         prompt == tokens + overhead
     IN  IF (models.limited /\ tokens > TrainedLimit) \/ ~Fits(tokens, prompt)
         THEN Becomes("raw") /\ UNCHANGED decode
         ELSE /\ decode' = [NoDecode EXCEPT !.prompt = prompt, !.budget = MaxNew(tokens)]
              /\ session' = [session EXCEPT !.stage = "decoding"]
              /\ UNCHANGED <<vars, models, sent, spoken, sessions>>

Decoding == Loaded /\ session.stage = "decoding"

\* A token that does not end the text is decoded into the context.
DecodeToken ==
  /\ Decoding /\ decode.made < decode.budget
  /\ decode' = [decode EXCEPT !.made = @ + 1]
  /\ UNCHANGED <<vars, models, session, sent, spoken, sessions>>

\* The model closes its text; cleaned up, it may be empty.
DecodeEnds ==
  /\ Decoding /\ decode.made < decode.budget
  /\ \E text \in {"polish", "blank"} : Becomes(text)
  /\ UNCHANGED decode

\* A text that is not closed within the budget is not used.
DecodeRunsOut ==
  /\ Decoding /\ decode.made = decode.budget
  /\ Becomes("raw") /\ UNCHANGED decode

\* The language model errs or panics.
DecodeFails == Decoding /\ Becomes("raw") /\ UNCHANGED decode

\* Gated on the raw transcript.
WorthKeeping == session.words > 0

\* The history entry, which may fail to be appended; a rerun has none. (Without a
\* history, as in a benchmark, there is nothing to recover.)
Record ==
  /\ Loaded /\ session.stage = "text" /\ ~session.quiet /\ WorthKeeping /\ session.kept = "no"
  /\ \E kept \in {"appended", "failed"} : session' = [session EXCEPT !.kept = kept]
  /\ UNCHANGED <<vars, models, decode, sent, spoken, sessions>>

Final ==
  /\ Loaded /\ session.stage = "text"
  /\ session.quiet \/ ~WorthKeeping \/ session.kept # "no"
  /\ Answer(session.text)

-----------------------------------------------------------------------------
(* The daemon: the worker lives while the daemon serves *)

IInit ==
  /\ Init
  /\ models = NoModels /\ session = Closed /\ decode = NoDecode /\ sent = NoAnswer
  /\ spoken = 0 /\ sessions = 0

Survives ==
  IF step' = "ready" THEN UNCHANGED worker
  ELSE /\ models' = NoModels /\ session' = Closed /\ decode' = NoDecode /\ sent' = NoAnswer
       /\ spoken' = 0

Provide == (Fetch \/ EnsureFiles) /\ Survives /\ UNCHANGED sessions

Work ==
  \/ LoadModels \/ LoadFails
  \/ \E language \in Languages, quiet \in BOOLEAN : Start(language, quiet)
  \/ \E clip \in Clips, text \in Texts : TakeChunk(clip, text)
  \/ CancelSession \/ Flush \/ PolishSkipped
  \/ \E overhead \in Overheads : PolishBegins(overhead)
  \/ DecodeToken \/ DecodeEnds \/ DecodeRunsOut \/ DecodeFails \/ Record \/ Final

INext == Provide \/ Work \/ (Outside /\ Survives /\ UNCHANGED sessions)

ISpec == IInit /\ [][INext]_allVars

\* Provisioning's fairness.
IFairSpec == ISpec /\ WF_allVars(Provide)

-----------------------------------------------------------------------------
(* Properties *)

\* The types of what the worker holds.
ITypeOK ==
  /\ session \in [stage : {"closed", "open", "decoding", "text"}, language : Languages,
                  quiet : BOOLEAN, chunks : 0 .. MaxChunks, words : Nat, speech : Nat,
                  failed : BOOLEAN, text : {"none", "raw", "polish", "blank"},
                  kept : {"no", "appended", "failed"}]
  /\ decode \in [prompt : Nat, budget : Nat, made : Nat]
  /\ sent \in [by : {"none", "error", "nothing", "raw", "polish", "blank"}, spoken : Nat]
  /\ spoken \in Nat

\* The texts a session with words in it may be answered with.
Text == {"raw", "polish", "blank"}

\* The polish and its prompt stay within the context, however the model goes on:
\* the decision is made before the first token (llm.rs 92-97).
ContextHolds == decode.prompt + decode.made <= NCtx

\* Text is only answered for a second of speech: no tap of the hotkey, no stub
\* padded to a clip, and no earlier session's speech counted again makes the
\* model's inventions into a dictation (inference.rs, MIN_SESSION_SAMPLES).
NothingInvented == sent.by \in Text => sent.spoken >= MinSession
=============================================================================
