----------------------------- MODULE Assistant -----------------------------
(***************************************************************************)
(* What is asked of language models in a turn besides its AI responses, and*)
(* what they are told: the window of the conversation that is remembered,  *)
(* the step that sets variables to completions, all asked for at once, and *)
(* the prompt of an utterance that was not understood, from the knowledge  *)
(* base, from a model or from the settings.                                *)
(***************************************************************************)
EXTENDS Naturals, SequencesExt

CONSTANTS
  Vars,                \* variables the steps set
  SetNodes,            \* AI set steps, of a source and the variables they set
  Messages,            \* messages, each the conditions of its variants
  MAX_TURNS,           \* messages that are remembered
  MAX_CONTENT_LENGTH,  \* pieces of speech in a message that is added to
  MaxSteps,            \* bound: steps, a turn's begin among them
  NULL

\* A step asks the knowledge base or a model, or nobody: its model is one the
\* plan does not allow, or there is no gateway.  A NULL among what is set is a
\* set without variable or prompt.
IsSetNode(n) ==
  n.source \in {"knowledge", "model", "nobody"} /\ n.sets \in Seq(Vars \cup {NULL})

ASSUME AssistantAssumption ==
  /\ MAX_TURNS \in Nat /\ MAX_TURNS >= 2
  /\ MAX_CONTENT_LENGTH \in Nat \ {0} /\ MaxSteps \in Nat
  /\ NULL \notin Vars \cup {"knowledge", "model", "notice", "prompt", "throws"}
  /\ \A n \in SetNodes : IsSetNode(n)

VARIABLES
  pc,        \* idle, step (between steps), sets (awaiting them all) or ended
  step,      \* steps begun
  input,     \* the request of the turn says something
  unset,     \* there is no _memory_ yet
  memory,    \* _memory_: messages of a role and the pieces of their content
  setting,   \* variables the AI set step under way sets
  calls,     \* completions under way, each of a step for one of its sets
  held,      \* variable -> the step whose completion it holds, 0 for none
  cited,     \* a trace of the turn names documents of the knowledge base
  fallback,  \* where what an utterance not understood is answered with is from
  lost,      \* history: messages of the user that were never in the memory
  full,      \* history: the others of the conversation, without limits
  failed,    \* history: AI set steps that were given up
  settled    \* history: variable -> the last step that set it and went on

turn == <<input, cited, fallback>>
talk == <<unset, memory, lost, full>>
values == <<held, failed, settled>>
vars == <<pc, step, turn, talk, setting, calls, values>>

-----------------------------------------------------------------------------
\* Which variant of a message is said.  A variant is plain or has a condition:
\* assertions, of which all or some must hold, or a script.
\* Promise.all: one assertion that throws makes the condition throw.
Every(results) == ~\E i \in DOMAIN results : results[i] = "fails"

Some(results) == \E i \in DOMAIN results : results[i] = "holds"

\* One that throws is false.
EvaluateAssertions(condition) ==
  /\ ~\E i \in DOMAIN condition.results : condition.results[i] = "throws"
  /\ IF condition.kind = "all" THEN Every(condition.results) ELSE Some(condition.results)

EvaluateScript(condition) == condition.results = <<"holds">>

Evaluate(condition) ==
  IF condition.kind = "script" THEN EvaluateScript(condition) ELSE EvaluateAssertions(condition)

Conditioned(message) ==
  SelectSeq([i \in DOMAIN message |-> i], LAMBDA i : message[i].kind # "plain")

Matching(message) == SelectSeq(Conditioned(message), LAMBDA i : Evaluate(message[i]))

\* The first whose condition holds, else any of those without one.
SelectVariant(message) ==
  IF Matching(message) # <<>>
    THEN {Head(Matching(message))}
    ELSE {i \in DOMAIN message : message[i].kind = "plain"}

-----------------------------------------------------------------------------
\* What is remembered.
Message(role, piece) == [role |-> role, content |-> <<piece>>]

\* A piece is known by what was said before it: so many messages, the last of
\* so many pieces.
NextPiece == <<Len(full), IF full = <<>> THEN 0 ELSE Len(Last(full).content)>>

Shifted(messages) == IF Len(messages) > MAX_TURNS THEN Tail(messages) ELSE messages

Truncated(content) ==
  IF Len(content) > MAX_CONTENT_LENGTH THEN SubSeq(content, 1, MAX_CONTENT_LENGTH) ELSE content

IsAnswered(messages) == messages # <<>> /\ Last(messages).role = "assistant"

Extended(messages, piece) == [messages EXCEPT ![Len(messages)].content = Append(@, piece)]

\* Faulty variant: each output is a message of its own.
InjectEach(messages, piece) == Shifted(Append(messages, Message("assistant", piece)))

\* AIAssist.injectOutput: what is said without an answer between is one message.
InjectOutput(messages, piece) ==
  IF IsAnswered(messages)
    THEN [messages EXCEPT ![Len(messages)].content = Truncated(Append(@, piece))]
    ELSE Shifted(Append(messages, Message("assistant", piece)))

\* addOutputTrace, with variables: the output is traced and remembered.
AddOutput ==
  /\ unset' = FALSE /\ lost' = lost
  /\ memory' = InjectOutput(memory, NextPiece)
  /\ full' = IF IsAnswered(full) THEN Extended(full, NextPiece)
                                 ELSE Append(full, Message("assistant", NextPiece))

\* What the user says is pushed to the memory, if there is one.  Else it is
\* pushed to an array of its own and the memory that is begun is empty.
Remember ==
  IF unset
    THEN lost' = lost + 1 /\ UNCHANGED <<memory, full>>
    ELSE /\ memory' = Shifted(Append(memory, Message("user", NextPiece)))
         /\ full' = Append(full, Message("user", NextPiece))
         /\ lost' = lost

\* AIAssist.handle, before anything runs.
StartTurn(says, project) ==
  /\ pc = "idle" /\ step < MaxSteps
  /\ pc' = "step" /\ step' = step + 1
  /\ input' = says /\ cited' = FALSE /\ fallback' = NULL
  /\ unset' = (unset /\ ~project)
  /\ IF says /\ project THEN Remember ELSE UNCHANGED <<memory, lost, full>>
  /\ UNCHANGED <<setting, calls, values>>

Begin == pc = "step" /\ step < MaxSteps /\ step' = step + 1

\* A text step says one of its texts, if it has any, and goes on.
SayText(texts) ==
  /\ Begin
  /\ IF texts THEN AddOutput ELSE UNCHANGED talk
  /\ UNCHANGED <<pc, turn, setting, calls, values>>

\* A speak step says one of its texts, or an empty one.
Speak ==
  /\ Begin
  /\ AddOutput
  /\ UNCHANGED <<pc, turn, setting, calls, values>>

\* A message step says one of the variants its conditions leave, if it has text.
SayMessage(message, text) ==
  /\ Begin
  /\ SelectVariant(message) # {}
  /\ IF text THEN AddOutput ELSE UNCHANGED talk
  /\ UNCHANGED <<pc, turn, setting, calls, values>>

\* No variant is left, or the message is unknown: the handler throws.
MessageFails(message) ==
  /\ Begin
  /\ SelectVariant(message) = {}
  /\ pc' = "ended"
  /\ UNCHANGED <<turn, talk, setting, calls, values>>

-----------------------------------------------------------------------------
\* What the gateway answers, or fails with: refused is content that was
\* moderated or tokens that are used up.
Completions == {"text", "not found", "leak", "blank", "refused", "error"}

Thrown(completion) == completion \in {"refused", "error"}

\* fetchChat: without a private gateway the answer is empty.
FetchChat(gateway, completion) == IF gateway THEN completion ELSE "blank"

Chats == {FetchChat(g, k) : g \in BOOLEAN, k \in Completions}

\* canUseModel: the plan decides, if it is known, else what is subscribed to.
CanUseModel(restricted, plan, entitled) ==
  ~restricted \/ plan = "able" \/ (plan = "unknown" /\ entitled)

\* getAnswerEndpoint: the retriever in the clouds that are listed, else the
\* lambda, where it is configured.
AnswerEndpoint(listed, retriever, lambda) == IF listed THEN retriever ELSE lambda

\* fetchKnowledgeBase: nowhere to ask, no chunks and a failure are the same.
FetchKnowledgeBase(endpoint, reply) == endpoint /\ reply = "chunks"

Replies == {"chunks", "no chunks", "error"}

\* What leaks of the prompt is taken off, which may leave nothing.
RemovePromptLeak(output) == IF output = "leak" THEN "blank" ELSE output

\* What says that nothing was found is no answer.
FilterNotFound(output) == IF output = "not found" THEN "blank" ELSE output

AnswerSynthesis(completion) ==
  IF RemovePromptLeak(FilterNotFound(completion)) = "blank" THEN "nothing" ELSE "answer"

\* knowledgeBaseQuery: nothing retrieved is no error; the documents or the
\* completion may fail.
KnowledgeBaseQuery(retrieved, documents, completion) ==
  CASE ~retrieved -> "nothing"
    [] retrieved /\ ~documents -> "error"
    [] OTHER -> IF Thrown(completion) THEN completion ELSE AnswerSynthesis(completion)

\* fetchPrompt: a completion is taken as it is, nothing is asked without a
\* gateway or a prompt.
FetchPrompt(gateway, prompt, completion) ==
  IF gateway /\ prompt /\ Thrown(completion) THEN completion ELSE "answer"

KnowledgeOutcomes ==
  {KnowledgeBaseQuery(r, d, k) : r \in BOOLEAN, d \in BOOLEAN, k \in Chats}

ModelOutcomes ==
  {FetchPrompt(g, p, k) : g \in BOOLEAN, p \in BOOLEAN, k \in Completions}

Outcomes(source) == IF source = "knowledge" THEN KnowledgeOutcomes ELSE ModelOutcomes

-----------------------------------------------------------------------------
\* The AI set step.
VarsOf(node) == ToSet(node.sets) \ {NULL}

Call(s, node, i) == [step |-> s, source |-> node.source, set |-> i, var |-> node.sets[i]]

Own == {c \in calls : c.step = step}

\* The step's completions are all asked for at once.  Those no model is asked
\* for are there before anything else happens.
BeginSets(node) ==
  /\ Begin
  /\ pc' = "sets"
  /\ setting' = VarsOf(node)
  /\ IF node.source # "nobody"
       THEN /\ calls' = calls \cup {Call(step', node, i) :
                                      i \in {j \in DOMAIN node.sets : node.sets[j] # NULL}}
            /\ UNCHANGED held
       ELSE /\ held' = [v \in Vars |-> IF v \in VarsOf(node) THEN step' ELSE held[v]]
            /\ UNCHANGED calls
  /\ UNCHANGED <<turn, talk, failed, settled>>

\* A completion comes and its variable is set, also when the step it was asked
\* for has been given up meanwhile.
Answer(c) ==
  /\ \E outcome \in Outcomes(c.source) : ~Thrown(outcome)
  /\ calls' = calls \ {c}
  /\ held' = [held EXCEPT ![c.var] = c.step]
  /\ UNCHANGED <<pc, step, turn, talk, setting, failed, settled>>

\* Faulty variant: the step goes on with the first completion.
GoOnWithFirst ==
  /\ pc = "sets" /\ (setting = {} \/ \E v \in setting : held[v] = step)
  /\ pc' = "step"
  /\ settled' = [v \in Vars |-> IF v \in setting THEN step ELSE settled[v]]
  /\ setting' = {}
  /\ UNCHANGED <<step, turn, talk, calls, held, failed>>

\* All are there: the tokens used are traced and the step goes on.
GoOn ==
  /\ pc = "sets" /\ Own = {}
  /\ pc' = "step"
  /\ settled' = [v \in Vars |-> IF v \in setting THEN step ELSE settled[v]]
  /\ setting' = {}
  /\ UNCHANGED <<step, turn, talk, calls, held, failed>>

GiveUp(c, outcome, to) ==
  /\ pc = "sets" /\ c \in Own /\ outcome \in Outcomes(c.source)
  /\ pc' = to
  /\ calls' = calls \ {c}
  /\ failed' = failed \cup {step}
  /\ setting' = {}
  /\ UNCHANGED <<step, turn, talk, held, settled>>

\* One is refused because of its content or for want of tokens: the user is
\* told, which is not remembered, and the step goes on; the others still come.
Refuse(c) == GiveUp(c, "refused", "step")

\* One fails for another reason: the handler throws, which ends the turn.
Throw(c) == GiveUp(c, "error", "ended")

\* Only the first failure of a step is heard of.
FailsUnheard(c) ==
  /\ c \in Own => pc # "sets"
  /\ calls' = calls \ {c}
  /\ UNCHANGED <<pc, step, turn, talk, setting, values>>

-----------------------------------------------------------------------------
\* What an utterance that was not understood is answered with.
NoAnswer == [output |-> NULL, cites |-> FALSE]

\* Faulty variant: the documents are traced whatever the answer.
KnowledgeNoMatchTraced(configured, retrieved, completion, documents) ==
  IF ~configured \/ ~retrieved \/ Thrown(completion)
    THEN NoAnswer
    ELSE [output |-> IF AnswerSynthesis(completion) = "answer" THEN "knowledge" ELSE NULL,
          cites |-> documents]

\* knowledgeBaseNoMatch: both services must be configured, whichever is asked.
\* Nothing retrieved, no answer and whatever fails on the way are the same.
KnowledgeNoMatch(configured, retrieved, completion, documents) ==
  IF /\ configured /\ retrieved
     /\ ~Thrown(completion) /\ AnswerSynthesis(completion) = "answer"
     /\ documents
    THEN [output |-> "knowledge", cites |-> TRUE]
    ELSE NoAnswer

Lookups ==
  {KnowledgeNoMatch(r /\ l, FetchKnowledgeBase(AnswerEndpoint(c, r, l), reply), k, d) :
     r \in BOOLEAN, l \in BOOLEAN, c \in BOOLEAN, reply \in Replies, k \in Chats, d \in BOOLEAN}

\* A request that says nothing is no question.
Knowledge == IF input THEN Lookups ELSE {NoAnswer}

\* generateNoMatch: a model's answer to the conversation, or what says that the
\* model is not allowed, or refused it.
GenerateNoMatch(allowed, completion) ==
  CASE ~allowed \/ completion = "refused" -> "notice"
    [] allowed /\ completion = "error" -> "throws"
    [] allowed /\ completion = "blank" -> NULL
    [] OTHER -> "model"

\* The global no-match of the settings: generated, a prompt, or nothing.
Globals ==
  {"prompt", NULL} \cup
  {GenerateNoMatch(CanUseModel(m, p, e), k) :
     m \in BOOLEAN, p \in {"able", "other", "unknown"}, e \in BOOLEAN, k \in Chats}

\* A node gets a request it has no path for and has no prompt left: the
\* knowledge base is asked if the project has documents, then the global
\* no-match is used.  What is said is remembered and the node waits again, as
\* after one of its own prompts.
NoMatch(answer, global) ==
  LET output == IF answer.output = NULL THEN global ELSE answer.output IN
  /\ Begin
  /\ output \notin {NULL, "throws"}
  /\ pc' = "ended"
  /\ cited' = answer.cites /\ fallback' = output
  /\ AddOutput
  /\ UNCHANGED <<input, setting, calls, values>>

\* Nothing is said: the node's path is taken, if it has one.
NoMatchPath(answer, global) ==
  /\ Begin
  /\ answer.output = NULL /\ global = NULL
  /\ pc' \in {"step", "ended"}
  /\ cited' = answer.cites
  /\ UNCHANGED <<input, fallback, talk, setting, calls, values>>

NoMatchThrows(answer, global) ==
  /\ Begin
  /\ answer.output = NULL /\ global = "throws"
  /\ pc' = "ended"
  /\ cited' = answer.cites
  /\ UNCHANGED <<input, fallback, talk, setting, calls, values>>

-----------------------------------------------------------------------------
\* The turn goes into another flow or back: its steps have a store of their
\* own, and what comes for the steps before is set where nothing reads it.
CrossFlow ==
  /\ pc = "step" /\ calls # {}
  /\ calls' = {}
  /\ UNCHANGED <<pc, step, turn, talk, setting, values>>

\* The turn's time is up, or it has nothing to go on with.
Stop ==
  /\ pc = "step"
  /\ pc' = "ended"
  /\ UNCHANGED <<step, turn, talk, setting, calls, values>>

\* The session is saved; what comes later is set nowhere.
EndTurn ==
  /\ pc = "ended"
  /\ pc' = "idle"
  /\ calls' = {}
  /\ input' = FALSE /\ cited' = FALSE /\ fallback' = NULL
  /\ UNCHANGED <<step, talk, setting, values>>

Init ==
  /\ pc = "idle" /\ step = 0
  /\ input = FALSE /\ cited = FALSE /\ fallback = NULL
  /\ unset = TRUE /\ memory = <<>> /\ lost = 0 /\ full = <<>>
  /\ setting = {} /\ calls = {}
  /\ held = [v \in Vars |-> 0] /\ settled = [v \in Vars |-> 0] /\ failed = {}

Next ==
  \/ \E says, project \in BOOLEAN : StartTurn(says, project)
  \/ \E texts \in BOOLEAN : SayText(texts)
  \/ Speak
  \/ \E message \in Messages : (\E text \in BOOLEAN : SayMessage(message, text)) \/ MessageFails(message)
  \/ \E node \in SetNodes : BeginSets(node)
  \/ \E c \in calls : Answer(c) \/ Refuse(c) \/ Throw(c) \/ FailsUnheard(c)
  \/ GoOn
  \/ \E answer \in Knowledge, global \in Globals :
       NoMatch(answer, global) \/ NoMatchPath(answer, global) \/ NoMatchThrows(answer, global)
  \/ CrossFlow
  \/ Stop
  \/ EndTurn

Spec == Init /\ [][Next]_vars
-----------------------------------------------------------------------------
\* Every variable holds a value of its kind.
TypeOK ==
  /\ pc \in {"idle", "step", "sets", "ended"}
  /\ step \in Nat
  /\ setting \in SUBSET Vars
  /\ calls \subseteq [step : Nat, source : {"knowledge", "model"}, set : Nat, var : Vars]
  /\ held \in [Vars -> Nat] /\ settled \in [Vars -> Nat]
  /\ failed \subseteq Nat

\* A part of a message is as much of its beginning as is kept of it.
IsPartOf(m, whole) == m.role = whole.role /\ IsPrefix(m.content, whole.content)

\* What the models are told is the end of the conversation: as many of its last
\* messages as are kept, in their order, user and assistant by turns however
\* many outputs an answer has, the last one there is among them.  Only what the
\* user says before anything else can be missing (AIAssist.handle).
WindowIsRecent ==
  LET kept == IF Len(full) > MAX_TURNS THEN MAX_TURNS ELSE Len(full) IN
  /\ Len(memory) = kept
  /\ \A i \in DOMAIN memory : IsPartOf(memory[i], full[Len(full) - kept + i])
  /\ lost <= 1 /\ (unset => full = <<>> /\ lost = 0)

\* A variable holds an older completion than that of the last step that set it
\* and went on only if the older one's step was given up without it: no
\* completion comes when the conversation has gone on relying on another.
LateOnlyIfGivenUp == \A v \in Vars : held[v] < settled[v] => held[v] \in failed

\* "only add KB trace if result is success" (knowledgeBase/index.ts:149): the
\* user is shown documents exactly when what is said is the answer to them.
KnowledgeIsCited == pc = "ended" => (cited <=> fallback = "knowledge")
=============================================================================
