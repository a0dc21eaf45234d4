----------------------------- MODULE Predictor ------------------------------
(***************************************************************************)
(* Classification of one utterance: regular expressions first, then the    *)
(* NLU service, then a language model that chooses among the service's     *)
(* candidates, each of which may fail or be unsure and leave the answer to *)
(* another; and what the NLU handler and dialog management make of it.     *)
(***************************************************************************)
CONSTANTS
  Intents,    \* names of the project's intents
  Stale,      \* an intent the service was trained on that is none of them
  Slots,
  SlotsOf,    \* the slots of each intent
  NONE,       \* the none intent
  NULL

ASSUME PredictorAssumption ==
  /\ SlotsOf \in [Intents -> SUBSET Slots]
  /\ NONE # NULL /\ NONE # Stale /\ Stale # NULL /\ {NONE, NULL, Stale} \cap Intents = {}

VARIABLES
  type,       \* of the intent classification settings: nlu or llm
  trained,    \* the project has a trained model
  dm,         \* the utterance is for an entity that is asked for
  used,       \* intents in use in the version, NULL if it keeps no list
  asking,     \* what is asked next, or done
  nlu,        \* the service's prediction, NULL if none
  pick,       \* intent the language model chose, NULL if none
  filled,     \* history: intent the service filled slots of, NULL if none
  prediction, \* the prediction: intent, slots and the classifier it is of
  requested,  \* intent of the request that goes on, NULL until then
  missed      \* history: classifiers that were asked without success

predictorVars == <<type, trained, dm, used, asking, nlu, pick, filled, prediction, requested, missed>>

settings == <<type, trained, dm, used>>

Classifiers == {"closed", "open", "nlu", "llm"}

SlotSet(intent) == IF intent \in Intents THEN SlotsOf[intent] ELSE {}

\* What the service may predict: an intent with some of its slots, whether the
\* confidence reaches the threshold, and the candidates it ranks.
Prediction ==
  {p \in [intent : Intents \cup {NONE, Stale}, slots : SUBSET Slots,
          sure : BOOLEAN, top : SUBSET (Intents \cup {NONE, Stale})] :
    p.intent \in p.top /\ p.slots \subseteq SlotSet(p.intent)}

ASSUME NullAssumption == NULL \notin Prediction

Answer(i, s, c) ==
  /\ asking' = "predicted"
  /\ prediction' = [intent |-> i, slots |-> s, by |-> c]

Miss(c, next) ==
  /\ asking' = next
  /\ missed' = missed \cup {c}
  /\ UNCHANGED prediction

-----------------------------------------------------------------------------
\* nlc without open slots: an exact match is taken at once.
MatchClosed(i) ==
  /\ asking = "closed"
  /\ \E s \in SUBSET SlotsOf[i] : Answer(i, s, "closed")
  /\ UNCHANGED <<settings, nlu, pick, filled, requested, missed>>

\* No match: the service is asked if it is trained.
MissClosed ==
  /\ asking = "closed"
  /\ Miss("closed", IF trained THEN "nlu" ELSE "open")
  /\ UNCHANGED <<settings, nlu, pick, filled, requested>>

\* With a language model and no trained service there is no intent.
Untrained ==
  /\ asking = "nlu" /\ ~trained
  /\ Answer(NONE, {}, "none")
  /\ UNCHANGED <<settings, nlu, pick, filled, requested, missed>>

\* The service predicts.  Under its own settings a sure prediction is the
\* answer, an unsure one a miss; else the language model is asked, but for an
\* entity that is asked for.
Predict(p) ==
  /\ asking = "nlu" /\ trained
  /\ nlu' = p
  /\ IF type = "nlu"
       THEN IF p.sure
              THEN Answer(p.intent, p.slots, "nlu") /\ UNCHANGED missed
              ELSE Miss("nlu", "open")
       ELSE asking' = (IF dm THEN "open" ELSE "llm") /\ UNCHANGED <<prediction, missed>>
  /\ UNCHANGED <<settings, pick, filled, requested>>

\* Faulty variant: a service that does not answer leaves no intent.
PredictFailsNone ==
  /\ asking = "nlu" /\ trained
  /\ missed' = missed \cup {"nlu"}
  /\ Answer(NONE, {}, "none")
  /\ UNCHANGED <<settings, nlu, pick, filled, requested>>

\* The service does not answer.
PredictFails ==
  /\ asking = "nlu" /\ trained
  /\ IF type = "llm"
       THEN Answer(NONE, {}, "none") /\ missed' = missed \cup {"nlu"}
       ELSE Miss("nlu", "open")
  /\ UNCHANGED <<settings, nlu, pick, filled, requested>>

Candidates == nlu.top \cap Intents

\* No candidate is an intent of the project: the service's own prediction
\* stands for the model's.
NoCandidates ==
  /\ asking = "llm" /\ Candidates = {}
  /\ asking' = "picked"
  /\ pick' = nlu.intent
  /\ UNCHANGED <<settings, nlu, filled, prediction, requested, missed>>

\* The prompt wrapper, code of the project, makes a prompt of the candidates,
\* or fails; as it is awaited beyond its time limit, it may also never settle.
Wrap(result) ==
  /\ asking = "llm" /\ Candidates # {}
  /\ CASE result = "prompt" -> asking' = "complete" /\ UNCHANGED <<prediction, missed>>
       [] result = "failure" -> /\ Answer(nlu.intent, nlu.slots, "nlu")
                                /\ missed' = missed \cup {"llm"}
       [] result = "silence" -> asking' = "stuck" /\ UNCHANGED <<prediction, missed>>
  /\ UNCHANGED <<settings, nlu, pick, filled, requested>>

\* The model names an intent of the project.
Complete(i) ==
  /\ asking = "complete"
  /\ asking' = "picked"
  /\ pick' = i
  /\ UNCHANGED <<settings, nlu, filled, prediction, requested, missed>>

\* Faulty variant: the model is asked again, without end.
CompleteFailsRetry ==
  /\ asking = "complete"
  /\ asking' = "llm"
  /\ missed' = missed \cup {"llm"}
  /\ UNCHANGED <<settings, nlu, pick, filled, prediction, requested>>

\* It fails, is late or names no intent: the service's prediction stands.
CompleteFails ==
  /\ asking = "complete"
  /\ Answer(nlu.intent, nlu.slots, "nlu")
  /\ missed' = missed \cup {"llm"}
  /\ UNCHANGED <<settings, nlu, pick, filled, requested>>

\* Faulty variant: the slots of the service's prediction are kept.
AnswerPickWithSlots ==
  /\ asking = "picked" /\ SlotSet(pick) = {}
  /\ Answer(pick, nlu.slots, "llm")
  /\ UNCHANGED <<settings, nlu, pick, filled, requested, missed>>

\* An intent without slots, or none of the project's, is answered without any.
AnswerPick ==
  /\ asking = "picked" /\ SlotSet(pick) = {}
  /\ Answer(pick, {}, "llm")
  /\ UNCHANGED <<settings, nlu, pick, filled, requested, missed>>

\* The service is asked for the slots of the picked intent alone.  It answers
\* with slots of an intent, which nothing compares with the picked one.
FillSlots(i, s) ==
  /\ asking = "picked" /\ SlotSet(pick) # {} /\ s \subseteq SlotSet(i)
  /\ Answer(pick, s, "llm")
  /\ filled' = i
  /\ UNCHANGED <<settings, nlu, pick, requested, missed>>

\* It does not answer: the picked intent is answered without slots.
FillFails ==
  /\ asking = "picked" /\ SlotSet(pick) # {}
  /\ Answer(pick, {}, "llm")
  /\ UNCHANGED <<settings, nlu, pick, filled, requested, missed>>

\* nlc with open slots, the last resort.
MatchOpen(i) ==
  /\ asking = "open"
  /\ \E s \in SUBSET SlotsOf[i] : Answer(i, s, "open")
  /\ UNCHANGED <<settings, nlu, pick, filled, requested, missed>>

MissOpen ==
  /\ asking = "open"
  /\ Answer(NONE, {}, "none")
  /\ missed' = missed \cup {"open"}
  /\ UNCHANGED <<settings, nlu, pick, filled, requested>>

IsUsed(intent) == used = NULL \/ intent \in used

\* The request that goes on to the runtime: the prediction's if its intent is
\* used in the version, else the none intent.
Request ==
  /\ asking = "predicted"
  /\ asking' = "done"
  /\ requested' = IF IsUsed(prediction.intent) THEN prediction.intent ELSE NONE
  /\ UNCHANGED <<settings, nlu, pick, filled, prediction, missed>>

PredictorInit ==
  /\ type \in {"nlu", "llm"} /\ trained \in BOOLEAN /\ dm \in BOOLEAN
  /\ trained => Intents # {}
  /\ used \in SUBSET Intents \cup {NULL}
  /\ asking = IF type = "llm" THEN "nlu" ELSE "closed"
  /\ nlu = NULL /\ pick = NULL /\ filled = NULL
  /\ prediction = [intent |-> NONE, slots |-> {}, by |-> "none"]
  /\ requested = NULL
  /\ missed = {}

PredictorNext ==
  \/ \E i \in Intents : MatchClosed(i)
  \/ MissClosed
  \/ Untrained
  \/ asking = "nlu" /\ \E p \in Prediction : Predict(p)
  \/ PredictFails
  \/ NoCandidates
  \/ \E result \in {"prompt", "failure", "silence"} : Wrap(result)
  \/ \E i \in Intents : Complete(i)
  \/ CompleteFails
  \/ AnswerPick
  \/ \E i \in Intents \cup {NONE, Stale}, s \in SUBSET Slots : FillSlots(i, s)
  \/ FillFails
  \/ \E i \in Intents : MatchOpen(i)
  \/ MissOpen
  \/ Request

\* The services that are asked answer or fail.
PredictorSpec == PredictorInit /\ [][PredictorNext]_predictorVars /\ WF_predictorVars(PredictorNext)
-----------------------------------------------------------------------------
Predicted == asking \in {"predicted", "done"}

\* The slots that are answered are slots of the intent that is answered, though
\* they may come from another classifier than the intent; unless the service,
\* asked for slots of the intent the language model picked, filled those of
\* another, as the answer's intent is not looked at (predictor.class.ts:132-149).
SlotsAreOfIntent ==
  Predicted =>
    \/ prediction.slots \subseteq SlotSet(prediction.intent)
    \/ /\ filled \notin {NULL, pick} /\ prediction.by = "llm"
       /\ prediction.intent = pick /\ prediction.slots \subseteq SlotSet(filled)

\* The utterance is given up only after every classifier the settings provide
\* for has missed: the service and, without a language model, both passes of
\* the regular expressions.
NoneIsLast ==
  Predicted /\ prediction.by = "none" =>
    /\ trained /\ nlu = NULL => "nlu" \in missed
    /\ type = "nlu" => {"closed", "open"} \subseteq missed
    /\ type = "llm" => "open" \in missed \/ nlu = NULL

\* Each utterance is classified, unless the prompt wrapper never settles.
Classified == <>(asking = "done" \/ (asking = "stuck" /\ type = "llm" /\ ~dm))
=============================================================================
