---------------------------- MODULE MCInference ----------------------------
(***************************************************************************)
(* A catalog for TLC: a transcription model of a directory of two files, a *)
(* polisher in one file, and a system model.                               *)
(***************************************************************************)
EXTENDS Inference

Recognizer == [id |-> "canary", category |-> "transcription", backend |-> "transcribe_cpp",
               languages |-> {"en", "hr"}, directory |-> <<"canary">>, prompt |-> "s1",
               files |-> <<[path |-> <<"canary", "weights">>, size |-> 2],
                           [path |-> <<"canary", "vocab">>, size |-> 2]>>]
Polisher   == [id |-> "polisher-hr", category |-> "polishing", backend |-> "llama_cpp",
               languages |-> {"hr"}, directory |-> NoDir, prompt |-> "croatian",
               files |-> <<[path |-> <<"polisher-hr">>, size |-> 2]>>]
Apple      == [id |-> "apple", category |-> "polishing", backend |-> "apple_foundation_models",
               languages |-> {"en"}, directory |-> NoDir, prompt |-> "s1", files |-> <<>>]

MCModels    == <<Recognizer, Apple, Polisher>>
MCSelection == [transcription |-> "canary", polishing |-> "polisher-hr"]
MCSelected  == <<<<"canary", "weights">>, <<"canary", "vocab">>, <<"polisher-hr">>>>
MCDirOf     == [path \in {MCSelected[i] : i \in 1 .. 3} |->
                  IF Len(path) = 2 THEN "canary" ELSE NoDir]

\* "No" and "no" are one word.
MCFolded == [word \in {"No", "no", "wait"} |-> IF word = "No" THEN "no" ELSE word]
MCTexts  == {<<>>, <<"No", "no", "no", "wait">>, <<"wait", "no", "No", "no", "no">>}
=============================================================================
