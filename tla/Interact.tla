------------------------------ MODULE Interact ------------------------------
(***************************************************************************)
(* One request to the interact API: the pipes of context handlers it is    *)
(* sent through, the rounds of automatic delegation, and what becomes of   *)
(* the traces on their way to the answer and to a streaming client.  The   *)
(* project is a voice project; what the runtime does in a turn is reduced  *)
(* to the kinds of the traces it makes.                                    *)
(***************************************************************************)
EXTENDS Traces

CONSTANTS
  MAX_DELEGATION_TURNS,
  Outputs      \* kinds of the traces a turn of the runtime may make

ASSUME InteractAssumption ==
  /\ MAX_DELEGATION_TURNS \in Nat \ {0}
  /\ Outputs \subseteq Seq(Kinds)
  /\ \A output \in Outputs : InOrder(output)   \* a turn of AiResponse

VARIABLES
  api,         \* who called: once (selfDelegate), delegated or streaming
  config,      \* [tts, excludeTypes, stripSSML] of the request
  phase,       \* init, pipes, over (of a round), done or failed
  round,       \* number of the round
  at,          \* <<pipe, handler>> the context is at
  request,     \* context.request: its kind and the round it comes from
  trace,       \* context.trace
  answer,      \* traces of the rounds that are over
  emitted,     \* traces the event handler got
  made,        \* history: every trace made, as it was made
  ran,         \* history: rounds the runtime ran in
  asked        \* history: rounds the dialog ended the pipe in

vars == <<api, config, phase, round, at, request, trace, answer, emitted,
          made, ran, asked>>

fixed == <<api, config>>
history == <<made, ran, asked>>

RequestKinds == {"text", "empty", "intent", "launch", "action", "invalid"}

-----------------------------------------------------------------------------
\* Faulty variant: the filter comes before the handler that parses speech.
PipesFilterFirst ==
  <<IF api = "streaming" THEN <<"asr", "nlu", "aiAssist", "dialog", "runtime">>
                         ELSE <<"asr", "nlu", "aiAssist", "dialog", "runtime", "mergeCompletion">>,
    <<"analytics">>>>
  \o (IF config.tts THEN <<<<"tts">>>> ELSE <<>>)
  \o <<<<"filter", "speak">>>>

\* The handlers added to the turn.
Pipes ==
  <<IF api = "streaming" THEN <<"asr", "nlu", "aiAssist", "dialog", "runtime">>
                         ELSE <<"asr", "nlu", "aiAssist", "dialog", "runtime", "mergeCompletion">>,
    <<"analytics">>>>
  \o (IF config.tts THEN <<<<"tts">>>> ELSE <<>>)
  \o <<<<"speak", "filter">>>>

At(h) == phase = "pipes" /\ Pipes[at[1]][at[2]] = h

\* ContextBuilder.handle, after a handler: context.end breaks off the pipe, and
\* is reset at the start of the next one.
Advance(ends) ==
  IF ~ends /\ at[2] < Len(Pipes[at[1]])
    THEN at' = <<at[1], at[2] + 1>> /\ UNCHANGED phase
    ELSE IF at[1] < Len(Pipes)
      THEN at' = <<at[1] + 1, 1>> /\ UNCHANGED phase
      ELSE phase' = "over" /\ UNCHANGED at

\* Traces of the given kinds, the speech in them numbered on from what was said.
Make(kinds) ==
  LET speaks(i) == kinds[i] \in {"speech", "start", "more"}
      before(i) == Len(Said(made)) + Cardinality({j \in 1..i : speaks(j)})
  IN [i \in DOMAIN kinds |-> Trace(kinds[i], IF speaks(i) THEN <<before(i)>> ELSE <<>>, round)]

-----------------------------------------------------------------------------
\* StateManager.handle: the context of the round, with no traces.
Prepare ==
  /\ phase = "init"
  /\ phase' = "pipes" /\ at' = <<1, 1>>
  /\ trace' = <<>>
  /\ UNCHANGED <<fixed, round, request, answer, emitted, history>>

\* A handler that leaves request and traces alone.
PassOn ==
  /\ At("asr") \/ At("aiAssist")
  /\ Advance(FALSE)
  /\ UNCHANGED <<fixed, round, request, trace, answer, emitted, history>>

\* NLU.handle: text becomes an intent, with debug traces of the prediction.
Nlu(debugs) ==
  /\ At("nlu")
  /\ request.kind # "text" => ~debugs
  /\ IF request.kind \in {"text", "empty"}
       THEN request' = [request EXCEPT !.kind = "intent"]
       ELSE UNCHANGED request
  /\ LET new == Make(IF debugs THEN <<"debug">> ELSE <<>>) IN
     trace' = trace \o new /\ made' = made \o new
  /\ Advance(FALSE)
  /\ UNCHANGED <<fixed, round, answer, emitted, ran, asked>>

\* DialogManagement.handle, when it asks for an entity: the pipe ends.  There
\* is no prompt in it for a request that elicits.
Ask(prompts) ==
  /\ At("dialog") /\ request.kind = "intent"
  /\ LET new == Make(IF prompts THEN <<"speech">> ELSE <<>>) IN
     trace' = trace \o new /\ made' = made \o new
  /\ asked' = asked \cup {round}
  /\ Advance(TRUE)
  /\ UNCHANGED <<fixed, round, request, answer, emitted, ran>>

\* DialogManagement.handle, when nothing is missing or it is no intent.
Resolve ==
  /\ At("dialog")
  /\ Advance(FALSE)
  /\ UNCHANGED <<fixed, round, request, trace, answer, emitted, history>>

\* Faulty variant: traces made before are not announced again.
RunSilent(output) ==
  /\ At("runtime") /\ request.kind # "invalid"
  /\ request.kind = "action" => output = <<>>
  /\ LET new == Make(output) IN
     /\ trace' = trace \o new
     /\ made' = made \o new
     /\ emitted' = emitted \o new
  /\ ran' = ran \cup {round}
  /\ Advance(FALSE)
  /\ UNCHANGED <<fixed, round, request, answer, asked>>

\* RuntimeManager.handle: the traces so far are added to the runtime, which
\* announces each trace that is added, and a turn is run unless the request is
\* an action.
Run(output) ==
  /\ At("runtime") /\ request.kind # "invalid"
  /\ request.kind = "action" => output = <<>>
  /\ LET new == Make(output) IN
     /\ trace' = trace \o new
     /\ made' = made \o new
     /\ emitted' = emitted \o trace \o new
  /\ ran' = ran \cup {round}
  /\ Advance(FALSE)
  /\ UNCHANGED <<fixed, round, request, answer, asked>>

\* MergeCompletion.handle
MergeCompletion ==
  /\ At("mergeCompletion")
  /\ trace' = Merge(trace)
  /\ Advance(FALSE)
  /\ UNCHANGED <<fixed, round, request, answer, emitted, history>>

\* Analytics.handle: not waited for, and its failure is caught.
Track ==
  /\ At("analytics")
  /\ Advance(FALSE)
  /\ UNCHANGED <<fixed, round, request, trace, answer, emitted, history>>

\* TTS.handle
Tts(split) ==
  /\ At("tts")
  /\ trace' = Voiced(trace, split)
  /\ Advance(FALSE)
  /\ UNCHANGED <<fixed, round, request, answer, emitted, history>>

\* Speak.handle
Speak ==
  /\ At("speak")
  /\ trace' = Mapped(Parsed, trace)
  /\ Advance(FALSE)
  /\ UNCHANGED <<fixed, round, request, answer, emitted, history>>

\* Filter.handle
Filter ==
  /\ At("filter")
  /\ LET kept == OfKinds(trace, Kinds \ config.excludeTypes) IN
     trace' = IF config.stripSSML THEN Mapped(Stripped, kept) ELSE kept
  /\ Advance(FALSE)
  /\ UNCHANGED <<fixed, round, request, answer, emitted, history>>

\* A handler rejects: so does the request.
Fail ==
  /\ \/ phase = "init"
     \/ At("nlu") /\ request.kind = "text"
     \/ At("dialog") /\ request.kind = "intent"
     \/ At("runtime")
  /\ phase' = "failed"
  /\ UNCHANGED <<fixed, round, at, request, trace, answer, emitted, history>>

-----------------------------------------------------------------------------
\* With selfDelegate the traces of the one round are the answer.
AnswerOnce ==
  /\ phase = "over" /\ api = "once"
  /\ phase' = "done"
  /\ answer' = trace
  /\ UNCHANGED <<fixed, round, at, request, trace, emitted, history>>

GoTos == OfKinds(trace, {"goto"})

\* Faulty variant: the round's traces replace those of the rounds before.
DelegateLast ==
  /\ phase = "over" /\ api # "once" /\ GoTos # <<>>
  /\ answer' = OfKinds(trace, Kinds \ {"goto"})
  /\ request' = [kind |-> "intent", from |-> round]
  /\ IF round < MAX_DELEGATION_TURNS
       THEN round' = round + 1 /\ phase' = "init"
       ELSE phase' = "done" /\ UNCHANGED round
  /\ UNCHANGED <<fixed, at, trace, emitted, history>>

\* Faulty variant: the last round is not run.
DelegateEarly ==
  /\ phase = "over" /\ api # "once" /\ GoTos # <<>>
  /\ answer' = answer \o OfKinds(trace, Kinds \ {"goto"})
  /\ request' = [kind |-> "intent", from |-> round]
  /\ IF round + 1 < MAX_DELEGATION_TURNS
       THEN round' = round + 1 /\ phase' = "init"
       ELSE phase' = "done" /\ UNCHANGED round
  /\ UNCHANGED <<fixed, at, trace, emitted, history>>

\* autoDelegate: the request of a go-to trace is run in a round of its own, if
\* there is one left.
Delegate ==
  /\ phase = "over" /\ api # "once" /\ GoTos # <<>>
  /\ answer' = answer \o OfKinds(trace, Kinds \ {"goto"})
  /\ request' = [kind |-> "intent", from |-> round]
  /\ IF round < MAX_DELEGATION_TURNS
       THEN round' = round + 1 /\ phase' = "init"
       ELSE phase' = "done" /\ UNCHANGED round
  /\ UNCHANGED <<fixed, at, trace, emitted, history>>

\* autoDelegate, when no trace goes on to another request.
Finish ==
  /\ phase = "over" /\ api # "once" /\ GoTos = <<>>
  /\ phase' = "done"
  /\ answer' = answer \o trace
  /\ UNCHANGED <<fixed, round, at, request, trace, emitted, history>>

Init ==
  /\ api \in {"once", "delegated", "streaming"}
  /\ config \in [tts : BOOLEAN, excludeTypes : {{"debug"}, {"goto"}}, stripSSML : BOOLEAN]
  /\ api = "streaming" => config = [tts |-> FALSE, excludeTypes |-> {"debug"}, stripSSML |-> TRUE]
  /\ phase = "init" /\ round = 1 /\ at = <<1, 1>>
  /\ request \in [kind : RequestKinds, from : {0}]
  /\ trace = <<>> /\ answer = <<>> /\ emitted = <<>>
  /\ made = <<>> /\ ran = {} /\ asked = {}

Next ==
  \/ Prepare
  \/ PassOn
  \/ \E debugs \in BOOLEAN : Nlu(debugs)
  \/ \E prompts \in BOOLEAN : Ask(prompts)
  \/ Resolve
  \/ \E output \in Outputs \cup {<<>>} : Run(output)
  \/ MergeCompletion
  \/ Track
  \/ \E split \in BOOLEAN : Tts(split)
  \/ Speak
  \/ Filter
  \/ Fail
  \/ AnswerOnce
  \/ Delegate
  \/ Finish

Spec == Init /\ [][Next]_vars
-----------------------------------------------------------------------------
Rounds == 1..MAX_DELEGATION_TURNS

\* Whatever was said in any round, by the dialog, by a node or by a completion
\* in pieces, is in the answer once and in its order, whatever becomes of the
\* traces in the pipes and between the rounds.
AnswerSaysAll == phase = "done" => Said(answer) = Said(made)

\* Speech in the answer was searched for its audio source before it lost its
\* SSML, which it did unless the caller declined, also when the dialog ended
\* the pipe in its round; and outside of streaming no continuation or end of a
\* completion is left in it.
AnswerIsFinished ==
  phase = "done" =>
    \A t \in ToSet(answer) :
      /\ t.kind = "speech" => t.parsed /\ (config.stripSSML => ~t.ssml)
      /\ api # "streaming" => t.kind \notin {"more", "last"}

\* A streaming client is told, in order, of all traces made in the rounds the
\* runtime ran in (what the dialog asks in the others is in the state only).
StreamedAsRun ==
  phase # "failed" => emitted = Only(made, {t \in AnyTrace : t.round \in ran})

\* A request a go-to trace asks for is run, and not left in the answer, unless
\* it is the last round's or the caller excluded go-to traces or delegates itself.
GoToIsRun ==
  phase = "done" /\ api # "once" =>
    /\ \A t \in ToSet(answer) : ~IsGoTo(t)
    /\ request.from \in {round - 1, round}
    /\ request.from = round => round = MAX_DELEGATION_TURNS
    /\ "goto" \notin config.excludeTypes =>
         \A t \in ToSet(made) : IsGoTo(t) => request.from >= t.round
=============================================================================
