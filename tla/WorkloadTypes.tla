---------------------------- MODULE WorkloadTypes ----------------------------
(***************************************************************************)
(* What kind of work a prompt is: WorkloadRouter (src/src/serving/         *)
(* request_handler.py), which the server asks, and WorkloadClassifier      *)
(* (src/src/feature_engineering/workload_classifier.py), which the         *)
(* features come from.                                                     *)
(*                                                                         *)
(* A prompt is a sequence of phrases of equal length, each an example of   *)
(* what the patterns of the two see: both, one of them, or neither.  A     *)
(* behaviour writes a prompt phrase by phrase, as a conversation grows.    *)
(***************************************************************************)
EXTENDS Naturals, Sequences, SequencesExt

CONSTANTS Excerpt,            \* phrases that fit the first 2048 characters
          RouterWords,        \* the router's length from which a prompt is a question
          ClassifierWords,    \* the classifier's
          MaxPhrases          \* bound: length of a prompt

ASSUME WorkloadAssumption ==
  /\ {Excerpt, RouterWords, ClassifierWords, MaxPhrases} \subseteq Nat
  /\ ClassifierWords <= RouterWords

\* The patterns in the order they are tried.  The classifier looks for code in lower
\* case alone, and "user:" is found by neither when a space follows.
RouterPatterns ==
  << <<"code", {"def f", "Class"}>>, <<"multi_doc_qa", {"compare"}>>,
     <<"summarization", {"summary"}>>, <<"dialogue", {"said", "chat"}>>,
     <<"structured_data", {"table"}>>, <<"single_doc_qa", {"what is"}>> >>
ClassifierPatterns ==
  << <<"code", {"def f"}>>, <<"multi_doc_qa", {"compare"}>>,
     <<"summarization", {"summary", "summarise"}>>, <<"dialogue", {"said", "asked"}>>,
     <<"structured_data", {"rank"}>>, <<"single_doc_qa", {"what is", "where"}>> >>

SeenBy(patterns) == UNION {patterns[k][2] : k \in DOMAIN patterns}
Phrases == SeenBy(RouterPatterns) \union SeenBy(ClassifierPatterns) \union {"user: hi", "word"}
Types == {RouterPatterns[k][1] : k \in DOMAIN RouterPatterns} \union {"unknown"}

VARIABLES prompt

WritePhrase(phrase) == Len(prompt) < MaxPhrases /\ prompt' = Append(prompt, phrase)

PromptInit == prompt = <<>>
PromptNext == \E phrase \in Phrases : WritePhrase(phrase)

PromptSpec == PromptInit /\ [][PromptNext]_prompt

-----------------------------------------------------------------------------
ExcerptOf(text) == SubSeq(text, 1, IF Len(text) < Excerpt THEN Len(text) ELSE Excerpt)

\* The first pattern that is found, and the length when none is.
ByPattern(patterns, words, excerpt) ==
  LET found == {k \in DOMAIN patterns : \E n \in DOMAIN excerpt : excerpt[n] \in patterns[k][2]}
  IN IF found # {} THEN patterns[CHOOSE k \in found : \A j \in found : k <= j][1]
     ELSE IF Len(excerpt) > words THEN "single_doc_qa" ELSE "unknown"

\* The caller's metadata, by the keys that are looked at: the first that is not empty
\* decides, unless it names no WorkloadType.
Explicit(first, second) == IF first = "" THEN second ELSE first

Classify(text, workload_type, task) ==
  IF Explicit(workload_type, task) \in Types THEN Explicit(workload_type, task)
  ELSE ByPattern(RouterPatterns, RouterWords, ExcerptOf(text))

\* label: what a trained pipeline says, NoLabel without one or when it raises
NoLabel == "no label"

ClassifyFromPrompt(text, workload_type, task_type, label) ==
  IF Explicit(workload_type, task_type) \in Types THEN Explicit(workload_type, task_type)
  ELSE IF label \in Types THEN label
  ELSE ByPattern(ClassifierPatterns, ClassifierWords, ExcerptOf(text))

ClassifyFromMetrics(prompt_tokens, gen_tokens, reuse) ==
  IF reuse /\ prompt_tokens > 4000 THEN "code"
  ELSE IF gen_tokens > 500 /\ prompt_tokens > 2000 THEN "summarization"
  ELSE IF prompt_tokens > 8000 THEN "multi_doc_qa"
  ELSE IF gen_tokens < 50 /\ prompt_tokens > 500 THEN "single_doc_qa"
  ELSE "unknown"

-----------------------------------------------------------------------------
Routed(text) == Classify(text, "", "")
Classified(text) == ClassifyFromPrompt(text, "", "", NoLabel)

\* The more specific a type, the later it is given up.
Precedence == <<"unknown", "single_doc_qa", "structured_data", "dialogue", "summarization",
                "multi_doc_qa", "code">>
AtLeastAs(t, u) == \E i, j \in DOMAIN Precedence : Precedence[i] = t /\ Precedence[j] = u /\ i >= j

\* As a conversation grows its type only ever gets more specific, and past the excerpt
\* it stays what it is.
GrowingKeepsType ==
  \A n \in 0..Len(prompt) :
    LET before == SubSeq(prompt, 1, n)
    IN /\ AtLeastAs(Routed(prompt), Routed(before))
       /\ AtLeastAs(Classified(prompt), Classified(before))
       /\ n >= Excerpt => Routed(prompt) = Routed(before) /\ Classified(prompt) = Classified(before)

\* The server and the features give a prompt the same type, unless it has a phrase that
\* only one of them knows, or is a text without any whose length is between the two
\* thresholds.
OneSided == (SeenBy(RouterPatterns) \ SeenBy(ClassifierPatterns))
            \union (SeenBy(ClassifierPatterns) \ SeenBy(RouterPatterns))

TypesAgree ==
  LET seen == ToSet(ExcerptOf(prompt))
  IN seen \intersect OneSided = {} =>
       \/ Routed(prompt) = Classified(prompt)
       \/ /\ seen \subseteq {"user: hi", "word"}
          /\ Len(ExcerptOf(prompt)) \in ClassifierWords + 1..RouterWords

\* "overrides heuristic classification": a caller that names a type by workload_type is
\* believed by both, whatever the prompt, its other keys and the pipeline say; one that
\* misspells it is not, and its second key is not looked at.
ExplicitWins ==
  \A t \in {"code", "dialogue", "dialog"} : \A u \in {"", "summarization"} :
    \A label \in {NoLabel, "unknown", "spam"} :
      LET routed == Classify(prompt, t, u)
          classified == ClassifyFromPrompt(prompt, t, u, label)
      IN IF t \in Types THEN routed = t /\ classified = t
         ELSE /\ routed = Routed(prompt)
              /\ classified = IF label \in Types THEN label ELSE Classified(prompt)

\* A request that generates on keeps the type its metrics gave it once that is code or
\* summarization, and no longer prompt is taken for a question after the first tokens.
Lengths == {0, 49, 50, 500, 501, 2000, 2001, 4000, 4001, 8000, 8001}
MetricsSettle ==
  \A p, g, h \in Lengths : \A reuse \in BOOLEAN :
    LET early == ClassifyFromMetrics(p, g, reuse)
        late == ClassifyFromMetrics(p, h, reuse)
    IN g <= h => /\ early \in {"code", "summarization"} => late = early
                 /\ late = "single_doc_qa" => early = "single_doc_qa"

TypesTrue == GrowingKeepsType /\ TypesAgree /\ ExplicitWins /\ (prompt = <<>> => MetricsSettle)

\* "a "task" or "workload_type" key that overrides heuristic classification" when the
\* caller knows the task: a type named by either is the one given.
EitherKeyWins == \A t \in {"", "dialog"} : Classify(prompt, t, "code") = "code"
=============================================================================
