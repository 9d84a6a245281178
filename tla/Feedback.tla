------------------------------- MODULE Feedback -------------------------------
(***************************************************************************)
(* What the user gets of a dictation: Dictations composed with what its    *)
(* control thread does with the answer, the clipboard it borrows to paste, *)
(* and the pill windows the main thread opens and removes.                 *)
(*                                                                         *)
(* Every step of Dictations is a step here; those that end a dictation say *)
(* how it ended, and applying a phase event runs the pill's observer.      *)
(***************************************************************************)
EXTENDS Dictations

CONSTANTS
    Contents,       \* what a user may have copied
    Readable,       \* of it, what arboard reads: text and images
    Nothing,        \* an empty clipboard
    Dictated        \* the text of a dictation

ASSUME FeedbackAssumption ==
    /\ Readable \subseteq Contents
    /\ Nothing \notin Contents /\ Dictated \notin Contents \cup {Nothing}

VARIABLES
    answer,         \* the text of the dictation being ended, until it is settled
    typed,          \* Cmd+V was posted for the last dictation pressed
    clip,           \* the clipboard, what insert saved of it, what the user copied
    verdicts,       \* how those ended whose SessionEnded is still in the channel
    outcome,        \* Dictation.outcome
    pill            \* the pill windows

textVars  == <<answer, typed>>
shownVars == <<verdicts, outcome, pill>>
feedbackVars == <<textVars, clip, shownVars>>

\* Outcome, as the entity keeps it.
Outcome == {"pasted", "cancelled", "failed"}

\* No pill is open, one is, or opening one failed; one may be held through its
\* ending. One that only fades out is as good as removed.
NoPill == [open |-> "none", held |-> FALSE]

-----------------------------------------------------------------------------
(* The text: session.rs release, from finish to SessionEnded *)

\* classify, and the one empty answer that is an error: digital silence while
\* access is missing. "text" is still to be pasted.
Classified(result, heard, access) ==
    CASE result = "text" -> "text"
      [] result = "error" -> "failed"
      [] result = "empty" -> IF ~heard /\ access # "Granted" THEN "failed" ELSE "cancelled"

\* What arboard can stash: text first, then an image; anything else reads as empty.
Saved(has) == IF has \in Readable \cup {Dictated} THEN has ELSE Nothing

\* finish returned. A text is pasted at once: insert borrows the clipboard, or
\* cannot open or set it.
FinishReturns ==
    /\ ctl = "finishing" /\ answer = "awaited"
    /\ \E result \in {"text", "empty", "error"}, heard \in BOOLEAN,
          access \in {"Granted", "NotAsked", "Denied"} :
          LET class == Classified(result, heard, access)
          IN  IF class # "text" THEN answer' = class /\ UNCHANGED clip
              ELSE \/ answer' = "failed" /\ UNCHANGED clip
                   \/ /\ answer' = "borrowed"
                      /\ clip' = [clip EXCEPT !.saved = Saved(clip.has), !.has = Dictated]
    /\ UNCHANGED <<vars, typed, shownVars>>

\* mutant: a failed keystroke returns at once
PostKeysOrReturn ==
    /\ answer = "borrowed"
    /\ \/ answer' = "posted" /\ typed' = TRUE
       \/ answer' = "failed" /\ UNCHANGED typed
    /\ UNCHANGED <<vars, clip, shownVars>>

\* press_cmd_v, or it fails: no Accessibility, no event source.
PostKeys ==
    /\ answer = "borrowed"
    /\ \/ answer' = "posted" /\ typed' = TRUE
       \/ answer' = "unposted" /\ UNCHANGED typed
    /\ UNCHANGED <<vars, clip, shownVars>>

Settled == IF answer = "posted" THEN "pasted" ELSE "failed"

\* The saved contents go back, whether or not the keys were posted. Failing to
\* is only logged.
Restored ==
    /\ answer \in {"posted", "unposted"}
    /\ answer' = Settled
    /\ clip' \in {[clip EXCEPT !.has = clip.saved, !.saved = Nothing],
                  [clip EXCEPT !.meddled = TRUE, !.saved = Nothing]}
    /\ UNCHANGED <<vars, typed, shownVars>>

\* The user copies something, perhaps while the clipboard is borrowed.
Copies(c) ==
    /\ Change
    /\ clip' = [clip EXCEPT !.has = c, !.users = c,
                            !.meddled = answer \in {"borrowed", "posted", "unposted"}]
    /\ UNCHANGED <<keyVars, behavior, outVars, events, phases, uiVars, ctl, live, monitor, wire,
                   blind, textVars, shownVars>>

-----------------------------------------------------------------------------
(* The steps of Dictations that say how a dictation ended *)

EndedAs(v) == verdicts' = Append(verdicts, v)

Refused == PressRefused /\ EndedAs("failed") /\ typed' = FALSE
              /\ UNCHANGED <<answer, clip, outcome, pill>>

Starts == PressStarts /\ typed' = FALSE /\ UNCHANGED <<answer, clip, shownVars>>

\* mutant: the error is reported without arming
UnavailableUnarmed ==
    /\ ctl = "opening"
    /\ Tell("Cancel") /\ Emit("Ended")
    /\ live' = NoLive /\ ctl' = "idle"
    /\ EndedAs("failed")
    /\ UNCHANGED <<keyVars, behavior, outVars, bounds, events, uiVars, monitor, blind,
                   textVars, clip, outcome, pill>>

Unavailable == MicUnavailable /\ EndedAs("failed") /\ UNCHANGED <<textVars, clip, outcome, pill>>

Cancelled == CancelEnds /\ EndedAs("cancelled") /\ UNCHANGED <<textVars, clip, outcome, pill>>

AwaitsText == Stopped /\ answer' = "awaited" /\ UNCHANGED <<typed, clip, shownVars>>

\* mutant: the reason a paste failed is dropped
PastedAnyway ==
    /\ answer \in Outcome \cup {"none"}
    /\ Finished
    /\ EndedAs(IF answer = "none" THEN "failed" ELSE IF answer = "failed" THEN "pasted" ELSE answer)
    /\ answer' = "none"
    /\ UNCHANGED <<typed, clip, outcome, pill>>

\* The end of release; of a silent microphone's press, whose result is dropped.
Ended ==
    /\ answer \in Outcome \cup {"none"}
    /\ Finished
    /\ EndedAs(IF answer = "none" THEN "failed" ELSE answer)
    /\ answer' = "none"
    /\ UNCHANGED <<typed, clip, outcome, pill>>

OtherControl ==
    /\ IgnoreEvent \/ MicOpens \/ MicLive \/ MicSilent \/ Release \/ Cancel \/ GaveUp
    /\ UNCHANGED feedbackVars

-----------------------------------------------------------------------------
(* The pill *)

\* mutant: the held pill is not superseded
OpenAnother == \E open \in {"shown", "failed"} : pill' = [pill EXCEPT !.open = open]

OpenPill == \E open \in {"shown", "failed"} : pill' = [pill EXCEPT !.open = open, !.held = FALSE]

\* manage: the observer of the entity.
Manage(idle) ==
    CASE pill.open = "shown" /\ idle    -> pill' = [pill EXCEPT !.open = "none", !.held = TRUE]
      [] pill.open # "shown" /\ ~idle   -> OpenPill
      [] pill.open # "shown" /\ idle    -> pill' = [pill EXCEPT !.open = "none"]
      [] OTHER                          -> UNCHANGED pill

\* apply: what it does beside the phase.
SetOutcome ==
    CASE Head(phases) = "Ended" -> outcome' = Head(verdicts) /\ verdicts' = Tail(verdicts)
      [] Head(phases) = "Armed" -> outcome' = "none" /\ UNCHANGED verdicts
      [] OTHER                  -> UNCHANGED <<outcome, verdicts>>

Apply ==
    /\ ApplyPhase
    /\ SetOutcome
    /\ Manage(phase' = "Idle")
    /\ UNCHANGED <<textVars, clip>>

\* The timer of a pill that ended; a new session may have superseded it.
HoldEnds ==
    /\ pill.held
    /\ pill' = [pill EXCEPT !.held = FALSE]
    /\ UNCHANGED <<vars, textVars, clip, verdicts, outcome>>

\* What a pill paints: an ending outranks the phase.
View ==
    IF phase # "Idle" \/ outcome = "none" THEN "phase"
    ELSE CASE outcome = "failed" -> "error" [] outcome = "pasted" -> "bloom"
           [] outcome = "cancelled" -> "cancel"

-----------------------------------------------------------------------------

FInit ==
    /\ Init
    /\ answer = "none" /\ typed = FALSE
    /\ clip = [has |-> Nothing, users |-> Nothing, saved |-> Nothing, meddled |-> FALSE]
    /\ verdicts = <<>> /\ outcome = "none" /\ pill = NoPill

Settle   == FinishReturns \/ PostKeys \/ Restored
FControl == Settle \/ Refused \/ Starts \/ Unavailable \/ Cancelled \/ AwaitsText \/ Ended
               \/ OtherControl
FMonitor == Monitor /\ UNCHANGED feedbackVars
FUser    == \/ (User \/ Window \/ PolishingArrives) /\ UNCHANGED feedbackVars
            \/ \E c \in Contents : Copies(c)

FNext == FUser \/ FControl \/ FMonitor \/ Apply \/ HoldEnds

FSpec == FInit /\ [][FNext]_<<vars, feedbackVars>>

\* Dictations' fairness, and the main thread's timers fire.
FFairSpec ==
    /\ FSpec
    /\ WF_<<vars, feedbackVars>>(FControl)
    /\ WF_<<vars, feedbackVars>>(MonitorEnds /\ UNCHANGED feedbackVars)
    /\ WF_<<vars, feedbackVars>>(Apply)
    /\ WF_<<vars, feedbackVars>>(HoldEnds)

-----------------------------------------------------------------------------
(* Properties *)

FTypeOK ==
    /\ answer \in {"none", "awaited", "borrowed", "posted", "unposted"} \cup Outcome
    /\ typed \in BOOLEAN
    /\ clip \in [has : Contents \cup {Nothing, Dictated}, users : Contents \cup {Nothing},
                 saved : Readable \cup {Nothing, Dictated},
                 meddled : BOOLEAN]
    /\ outcome \in Outcome \cup {"none"}
    /\ Len(verdicts) = Cardinality({i \in DOMAIN phases : phases[i] = "Ended"})
    /\ pill \in [open : {"none", "shown", "failed"}, held : BOOLEAN]

\* The bloom, and the failure and the quiet ending, tell what became of the
\* words: once a dictation is over and its events are applied, the pill blooms
\* exactly if Cmd+V was posted for it (session.rs 312-313, "keeping the success
\* bloom to mean words actually landed").
BloomMeansWords ==
    ctl = "idle" /\ ~live.on /\ phases = <<>> => (View = "bloom" <=> typed)

\* Dictating does not cost the user the clipboard: once a dictation is over the
\* dictated text is off it and what the user copied is back, also when the keys
\* could not be posted. What arboard cannot read comes back as nothing
\* (paste.rs 58-62), and a copy made while it was borrowed is lost.
ClipboardGivenBack ==
    ctl = "idle" /\ ~clip.meddled => clip.has \in {clip.users, Saved(clip.users)}

\* At most one pill stays put, and it belongs to the session at hand: a finished
\* one never stands over a running one, and the held one shows an ending
\* (pill.rs 110-111, 138-142).
OneStandingPill ==
    /\ pill.open = "shown" => phase # "Idle" /\ ~pill.held
    /\ pill.held => phase = "Idle" /\ View # "phase"

\* An error is never reported to nobody: whichever way a dictation fails, a pill
\* was opened for it that turns to the error (session.rs 187-188, "an error
\* reported before arming is one the user never sees"). The exception is a pill
\* that could not be opened.
ErrorIsSeen ==
    [][verdicts # <<>> /\ verdicts' = Tail(verdicts) /\ outcome' = "failed" =>
          pill.open = "failed" \/ pill'.held]_<<vars, feedbackVars>>

=============================================================================
