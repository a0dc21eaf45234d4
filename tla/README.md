# General runtime: TLA+ models and proofs

The general runtime answers the requests of conversational sessions: it reads a session's
state, finds out what the user means, runs nodes of the compiled project until one waits,
and writes the state back. This directory holds TLA+ models of that engine and of the
services around it, the TLC configurations that check them on small projects, and proofs
that the main results hold for every project.

A *project* is what a designer publishes: versions, each with diagrams of nodes. The models
take it as constants (or choose it step by step), so that the theorems are about all
projects; TLC checks small ones that have every kind of node.

    tlc -workers 2 -config MCRuntime.cfg MCRuntime     # a run; others likewise
    tlapm Runtime_proofs.tla                           # proofs; others likewise

## 1. Inventory

A request goes through these parts, in this order:

    controller ──> session store (read) ──> state manager
               ──> pipes: asr nlu aiAssist dialog runtime (mergeCompletion) | analytics | (tts) | speak filter
                     runtime: update ─> cycleStack ─> cycleHandler ─> handlers (nodes)
               ──> again, while a go-to trace asks for another request
               ──> session store (write) ──> answer

| Part | State it keeps | Operations | What is hard about it | Modules |
|---|---|---|---|---|
| Turn engine: `Runtime`, `cycleStack`, `cycleHandler` | stack of frames, `action`, recursion depth, iteration count, turn store | update, enter and leave a frame, run a node, time out, give up, catch | two nested loops that compare array identities over awaits; four ways for a turn to stop, and handlers that may never settle; two limits | `Program`, `Runtime`, `TurnContract` |
| Stack, frames, commands and the handlers that change them (flow, gotoNode, reset, end) | frames: diagram, node id, storage, hydrated | push, pop, popTo, unshift, flush, hydrate | the injected base program shifts all indices; marks written in one turn and read in another | `Runtime` |
| State manager | the stored state | generate, reset on launch or version change, initialise variables | recognises an old version by a frame that may be missing | `Runtime`, `Variables` |
| Prompting: interaction, captures, cards, no-match, no-reply, repeat | two counters in the session's storage | match, miss, stay silent, repeat | one counter for all nodes, deleted by some handlers and only counted up by others | `Prompting` |
| Dialog management | DM store: intent being filled, prior intent | merge a prediction, ask, complete, give up | several ways for an intent to take the place of another; collected entities leave the store and come back within one request | `EntityFilling` |
| Interact pipes and automatic delegation | request, pipe, traces of a request | the handlers of three ways in; up to three rounds | a handler ends the pipe in the middle; traces of several rounds are put together | `Interact`, `Traces` |
| AI response, merging of completions | stream items, memory, last output | stream, settle, break, merge | two consumers of one stream; a stream that is closed early | `AiResponse`, `Traces` |
| Classification | none between requests | closed and open expressions, NLU, language model, prompt wrapper | every service may fail, and the order of fallbacks depends on settings | `Predictor` |
| Variables | global store, a store per frame, the combined store | hydrate, combine, save, map, assign | written to one store, saved to two after the stack has changed; the injected base frame, prepared frames and a new version change it too | `Scopes`, `Variables` |
| API step and limiter of outgoing calls | a counter with an expiry in redis, the mapped variables | validate, count, delay, call directly or by the lambda, map the answer | three awaited commands where one would do; an answer cut off, lost, or of the wrong shape | `OutgoingCalls` |
| Function, stream, condition, random and custom steps | transfers, `STREAM_PLAY`, `STREAM_PAUSE`, `RANDOMS` in the session's storage | run, listen, answer; play, pause, go on; shuffle | one storage for all steps, flows and versions | `StepStorage` |
| Assistant memory, AI set, generated no-match, knowledge base, messages | `_memory_`, variables, completions under way | remember, cut, set variables, fall back | completions asked for at once, of which one fails; every failure swallowed somewhere | `Assistant` |
| Session stores and stateful requests | session document, or object in memory | read, write, delete, patch | whole-state writes of requests that overlap or are rejected though they were made; aliasing in the local store | `Sessions` |

Not modelled, with the reason, are nine parts: see section 7 and `components` in
`PROJECT.json`. The parts interact through the session's state (stack, storage, variables)
and through the request and the traces of one turn; nothing else is shared between requests
except the session store. Each module keeps the part of that state its component reads and
treats what the others decide as a choice: `Runtime` has the stack and leaves the counters
to `Prompting`; `Prompting` has frames without diagrams; `EntityFilling` has the requests of
`GOTO` traces that `Interact` takes through the rounds; `AiResponse` makes the sequences of
traces that `Interact` is given as outputs, and both use `Traces`.

What would make each part wrong, line by line, is the list `hazards` in `PROJECT.json`.

## 2. The modules

**`Program`** is a compiled project as constants: which version a diagram belongs to, where
its nodes are, of which kind and what follows, its commands. `ProgramAssumption` says what
the compiler guarantees. Its kinds cover every handler, as far as the frames and the request
are concerned: a `step` goes on, a `branch` chooses, an `interaction` waits; `card`,
`passingCard`, `function`, `custom` and `condition` differ in which requests they take and when
they wait. `Context` is the stack a version was published with (`prototype.context`), with which
a session of it starts.

**`Runtime`** is one session, turn after turn. `pc` is where the turn is: `idle`, `update`
(`Runtime.update`), `stack` (head of `cycleStack`), `loop` (an iteration of `cycleHandler`),
`leave` (the end of a cycle) and `close`. Each iteration of either loop awaits, hence is an
action. `Handled` stands for what `cycleHandler` does after every handler; each handler is an
action that uses it. `changed` stands for the comparison of the frames array with the one
the cycle started with. `Hang` is an await that never settles (an AI response node on an empty
stream, a proxied call without a limit): the turn is `stuck`, no step of it follows, and nothing
of it is stored. The history variables (`ends`, `size`, `lastNode`, `outcome`) serve
the properties. **`TurnContract`** is what the rest of the service relies on: a request is
pending until one node has had it, one step enters at most one flow, and after END the
session is what the answer carries.

**`Prompting`** has the two counters `noMatchesCounter` and `noRepliesCounter` under every
handler that reads or writes them; a node that randomizes its no-match prompts says any of them,
and counts all the same. `Wait`, `Pass` and `Exit` are the nodes a turn passes
through; `Say`, `Silence`, `Resume`, `Launch` and `Restart` are the requests.

**`EntityFilling`** has the DM store, the prior intent, and the request of a `GOTO` trace.
Predictions are a choice among all that the NLU could answer with the DM prefix. `Dialog`
is one pass of dialog management, `Handle` what the node the session is on makes of the
request it forwards, and `Delegate` another pass of the same request. A new stack stands on
`Begin`, where the one-shot handler takes a command at once; it knows no commands yet as far as
dialog management sees (`fresh`), and custom actions take intents dialog management takes for
out of scope: those pass unfilled (`Overlooked`). `Silence` and `Press` are the requests dialog
management does not look at: a path, a button or an event that a capture does not know is a miss
for it, like an utterance.

**`Interact`** takes one request through the pipe of each API (`once`: the stateless interact,
`delegated`: the stateful one, `streaming`). A handler is an action; a handler that sets
`context.end` breaks off its pipe, and the next pipes run all the same. A trace carries the pieces
of text it says, so that losing, doubling or swapping one is visible. What the runtime makes in a
round is any of the constant `Outputs`, of which `InteractAssumption` says that the pieces of a
completion are in the order a turn of `AiResponse` leaves them in. **`Traces`** has what both it
and `AiResponse` do with traces; `Merge` is `merge-completion`, as the fold its loop is. A list is
filtered by joining what is kept of each element (`Only`), a form whose proofs are inductions over
positions.

**`AiResponse`** is a turn of AI response nodes: the items the gateway streams, the trace
and the memory made of them, a broken stream, an empty one, the knowledge base, whose answer is
asked for, counted and found in three awaits, each of which may fail.

**`Predictor`** is `Predictor.predict` under every setting, with services that answer
anything of the right shape, or fail. Asked for the slots of the intent the language model
picked, the service may fill those of any intent (`filled`).

**`Sessions`** has up to three requests of any kind under way for one session, an action per
awaited call. Contents are the sets of requests whose effects a state shows. `objects` is
the heap of state objects: the local store hands out the stored object itself, mongo a copy.
A call to mongo that writes may be rejected after it was made or before (`LoseWrite`): the
caller is answered with an error in both cases, and the outcome is `unknown`.

**`Scopes`** is what a designer expects of variables: each flow has a scope, what is assigned is in
its place at once. **`Variables`** is what the code does: it makes a combined store when it enters a
flow and takes it apart when it leaves it (`EnterFrame`, `LeaveFrame`), after the stack may have
changed under it. The frame injected for the version is part of the stack, so that a jump below the
flows and a reset drop all of them; a session may start from the frames a version was published
with, or be taken over by another version, which declares other names. `given` remembers what a
frame was handed from without. Its refinement mapping shows, at each moment, what the stores would
be if it were taken apart then.

**`OutgoingCalls`** has one API step of each of several turns that call the same host. A
redis command is an action (`GetHostnameUses`, `GetTTL`, `SetAgain`, `SetFirst`), so is what
comes back, and `Tick` is redis' clock; `heard` says whether the answer to a command
arrives. The time to live is rounded to the nearest second, and is -2 once the key is gone: a
write with an expiry of 0 or less is refused, its error caught, and the call goes on
uncounted. A write with what remained when it was asked for pushes the expiry by the time
between, though the comment there says "without updating expiry date". Bodies are trees, so
that a mapping can meet a missing key or a null; one cut off by the time or the size limit is
an empty object and counts as an answer.

**`StepStorage`** has what function, stream and random steps keep in the storage of the
session, with `if`, `ifV2` and custom steps between them. One flow runs, and the stack
is its node or nothing; the ports of a node may differ between versions, lead nowhere, or lead
alike. A turn may come without a request: then a function that listens runs again, and may lead
on while its transfers stay stored. A function may throw before or within its own try. `orphan`
remembers such a turn, and that the stack was started anew by another version, while transfers or
a stream were stored: then a later request is still taken by what was left, and the properties
say so.

**`Assistant`** has what is asked of language models besides AI responses, and what they are told.
`memory` is the window and `full` the conversation without limits, but for a first message that is
not remembered (section 6). `calls` are the completions under way, each of a step: when one fails
the step is given up, and the others still `Answer` into the same store until another flow or the
turn's end replaces it (`CrossFlow`, `EndTurn`). The no-match side is a function of everything that
may fail (`KnowledgeNoMatch`, `GenerateNoMatch`), the choice of a variant of a message one of what
its conditions do (`SelectVariant`): one assertion that throws makes even an "any" condition false.
What is said and what a variable holds is where it came from, not its text.

Definitions commented "Faulty variant" are plausible mistakes; the properties are sensitive
to them (`mutants` in `PROJECT.json`: put in place of the definition they vary, they break
the property named there). They are part of no specification.

## 3. The runs

| Run | Distinct states | Bounds | What it shows |
|---|---|---|---|
| `engine` | 130,900 | three versions, four diagrams, 21 nodes, two prepared stacks; `STACK_OVERFLOW = 3`, `HANDLER_OVERFLOW = 4`, `MaxStack = 4` | the engine's invariants, that it implements `TurnContract`, and that every request is answered unless what it awaits never settles |
| `prompting` | 3,490 | seven nodes of all kinds, one with random prompts, three settings, `MaxFrames = 2`, `MaxFallbacks = 2` | prompts in order, bounded silences, a silent user is timed |
| `entity_filling` | 2,842 | three intents and entities, five nodes, `MaxTurns = 3` as in the code | the store holds open intents, complete ones reach the runtime unless they were overlooked, a go-to meets no other intent, a spoken miss loses nothing |
| `sessions` | 4,773,687 | three requests, symmetric | a turn is lost only to one that overlapped it, what was deleted comes back only by a request under way with the delete; in mongo a failed one leaves no trace |
| `interact` | 68,016 | `MAX_DELEGATION_TURNS = 3` as in the code; turns of up to two AI or speak nodes | answers say all, once and in order |
| `ai_response` | 26,861 | three nodes, three items a stream | what is said is remembered; only an empty stream hangs |
| `predictor` | 139,374 | three intents, two of them with a slot | fallbacks in order; slots fit the intent unless the service answered for another; only the prompt wrapper hangs |
| `variables` | 821,448 | two versions, two names, two flows deep, one value besides undefined and absent, one map | no step hides a variable of the version from a flow that was not given it; the combined store implements `Scopes` |
| `outgoing_calls` | 71,008 | three calls, `LIMIT = 1`, `WINDOW = 2`; two mapped names, bodies where what is mapped is there, missing or under a null | no call is counted twice or delayed too soon, the count is exact when nothing overlaps, an answer is stored whole or not at all, a direct call ends |
| `step_storage` | 1,132,624 | two versions, twelve nodes of all kinds, seven with ports that differ, lead nowhere or alike, `MaxTaken = 2` | who plays, is paused, listens; the paths of a shuffle are taken evenly |
| `assistant` | 1,706,171 | `MAX_TURNS = 2`, `MAX_CONTENT_LENGTH = 2`, two variables, `MaxSteps = 6` | the window is the end of the conversation; late completions are of steps given up; documents are shown with the answer to them |
| `one_version` | | as `engine` | a disagreement of code and comment, section 6 |

*Why the bounds are enough.* The limits of the loops are constants in the code (60 and 400); what
matters is that a run reaches them, passes them, and has turns that stop before: version v2 of
`MCRuntime` loops and calls itself for that, from a prepared stack; v3 has an empty one. A frame is
only ever related to the one below it, the bottom and the top, so four frames have all the cases;
`MaxStack` ends a session that has grown longer by a launch (it bounds turns, not steps, so that
nothing is cut off within a turn). In `MCPrompting` each kind of node has as few prompts as show the
first, a middle and the last one, and the three settings have each global prompt on and off; one
node randomizes. `MaxFallbacks` bounds how often the counter goes past the last prompt, where
nothing reads its value any more. In `Sessions` two requests overlap and a third is before, between
or after them. In `MCVariables` a single value is enough since no step compares values: the
properties tell apart whether a name is there, undefined or has a value, and which store it is in;
the map hands the value of one name over as the other. The newer version declares a name that the
older one's flow had for itself, and has a prepared session that hides the other one: the two ways,
besides maps, in which a flow may come to hide a variable. The frames' node ids only say whether
they point to a step, a function or nothing, for the handlers that read that.

In `OutgoingCalls` the limit is passed by the second call, so that three have one before, at and
after it, and the window is long enough for a command to be in time, at its end or late; three
overlapping calls lose two counts. In `StepStorage` each shuffle has up to three paths, which
`MaxTaken` lets go through two whole rounds; each kind of step precedes each other one in some flow,
and the second version keeps some nodes of the first, lacks others, and has other paths at a shuffle
in the middle of its round. In `Predictor` the third intent has no slots: slots of one that has are
never slots of it. In `Assistant` six steps are two turns that set the same variable twice with a
completion of the first step still under way, and a window of two is shifted by both who add to it;
`MAX_TURNS` is even in the code and here, and may be any number from 2.

The type invariants are no runs' properties: they are proved in the modules that have
proofs, and TLC would report a value outside a function's domain in the others.

Runs that switch off the deadlock check are those of a bounded number of requests, calls or
steps, which end: `interact`, `ai_response`, `predictor`, `sessions`, `outgoing_calls` and
`assistant`.

## 4. Fairness

`Runtime` assumes weak fairness of `Engine`, the steps of a turn, and nothing of users. `Engine`
includes `Hang`, possible where the base or another program is read and at every node that awaits a
service: what is assumed is only that a turn goes on if what it awaits settles or throws, and a
throw is caught; that it settles is not. `TurnsClose` then says that a turn is answered or hangs: it
rests on the two limits, not on the clock, as fairness of the disjunction does not force `Timeout`.
`TurnContract` asks for fairness of `Reply` alone, which a hung turn disables. `AiResponse` assumes
it of `Turn`: the gateway's stream yields another item, ends or breaks; the knowledge base answers
or fails. `Predictor` assumes it of `PredictorNext`: each service answers or fails. Where the code
has no such guarantee (a promise of a project's prompt wrapper, a stream that is replaced by one
that never yields, whatever a node awaits) there is an action that leads to `stuck`, and the
liveness properties say precisely when. `OutgoingCalls` assumes weak fairness of each call's
`Proceed`, its next step alone and not the clock or the others': redis commands are answered or
fail, a timer fires. An answer of the lambda is not among them, as nothing limits the wait for it;
`DirectCallsEnd` leaves proxied calls out for that. The other modules state no liveness.

## 5. The proofs

All are for every project, within the assumptions the modules name: `ProgramAssumption` and
`LinkAssumption` of `Program`, `LimitAssumption`, `ModelAssumption`, `NullAssumption`,
`VariablesAssumption`, `OutgoingAssumption`, `AnswerAssumption`, `StorageAssumption`,
`AssistantAssumption`, `ObjectAssumption`, `InteractAssumption`, `AiResponseAssumption`,
`PredictorAssumption`, and that of the settings in `Prompting`. For each component a proof file
states an invariant (`IInv`; `LimiterInv`, `RequestInv`, `TurnInv` and `Settled` where a file has
several components), proves that it holds initially and that each action preserves it, one
lemma per action or family of actions.

**`Runtime_proofs`.** The properties are about whole stacks, but each operation changes one
end. `Shape` says a stack is well formed (base frame at the bottom, a pushed flow on a marked
caller) and `Stays(s, t)` what a step may make of it: still well formed, one frame longer at
most, the same bottom, no caller touched. Lemmas prove `Stays` for hydrate, setNodeID, pop,
popTo, push, jump, end. `HandlersStep` derives from them that every handler returns or
restacks; the actions then only differ in control. `IInv` is `Scalars` (types), `Flags`
(what `changed` and `nextID` may be), `Shape(stack)`, `Control` (what each `pc` knows of
`action`, `depth`, `i`) and `Frames` (length against `size + depth`, the frame in the loop is
not the base). None of `BaseAtBottom`, `BoundedGrowth`, `CallerMarked` is inductive alone: a
jump below the base would break the first, and only `Control` excludes it. Proved are these
three, `TypeOK`, the action properties `EndedIsFinal` and `CallersUntouched`, and the safety
part of the refinement of `TurnContract`. `Resumable` is about where a turn leaves the session
and needs two things more. `Homed`: a frame only holds nodes of its own diagram, which every
operation on the stack keeps if the compiler's links stay within diagrams (`LinkAssumption`).
`Ledger`: at each `pc`, what is known of the outcome to come, and whether the end was announced.

**`Prompting_proofs`.** `PromptsInOrder` speaks of what was heard, the code of a counter.
`MatchesAhead` connects them: the counter is the number of the last prompt, or past the
node's last. `SilencesCounted` does it for silences. With `TypeOK` they are inductive.
`SilentUserIsTimed` is inductive by itself: only a silence or a turn that comes to a node leaves
a session waiting on it, and each sets the timer in the same step.

**`EntityFilling_proofs`.** What must be known is where the collected entities are while the
store is empty: `KeptIsCarried` says they are in the store or, when it was emptied, in the
request on its way; `AskedIsMissing` what is asked for is really missing from the store;
`PassesLeft` that a delegated request still gets its pass.

**`Variables_proofs`.** A flow must not hide a variable of the version unless it declares it or was
given it from without: by a map, by a prepared session, or by a new version that declares what the
flow had for itself (`HidesOnlyGiven`). A name becomes local when, at the end of a cycle, it is
neither in the globals nor local: hence `Initialised` (in a turn the version's variables are in the
globals and in the combined store) and `Belongs` (the locals the combined store was made of are
those of frame `running`, which is on the stack or was dropped). `Plain` frames are those that hide
nothing else; the stack is a sequence of them. The refinement of `Scopes` needs the other direction.
`Covers`: what the globals or the flow on top have is in the combined store, so that during a cycle
what the flow sees *is* the combined store; `Mirrored` computes it from the two. Each action is then
a step of `Scopes` (Assign, Publish, Declare, Call, Return, Unwind, Restore) or none, one lemma
each.

**`OutgoingCalls`** (proofs in `StepStorage_proofs`), for any number of calls. `NeverOvercounts`
is not inductive: what a call has read may be written long after. `ReadIsPast` bounds it: what was
read is at most what had been counted then; `AloneIsCurrent` says that as long as calls are
counted one at a time the one that counts has read the present counter. `AllOrNothing` needs
`AnswersEnd`, that only a finished call has an answer; `AnswerAssumption` keeps an answer apart
from its absence.

**`StepStorage_proofs`**, for any diagrams and versions. `RoundsAreKept` connects the paths a
shuffle has used in this round with how often each was taken: those used are one ahead of the
others. `PlaysAlone` and `AnswerIsDue` say what a request in progress may meet in the
storage.

**`Assistant_proofs`.** `CallsAreOwed`: a completion under way is of a step that was given up or
of the one that awaits it, and belongs to no step yet to come. `SetIsHeld`: while a step awaits
its completions, each of its variables holds the step's own or a call for it is under way. From
these, `LateOnlyIfGivenUp`. `Window` gives `WindowIsRecent`: that each message kept is part of
the one it stands for is not inductive, since what is said next is put to what was cut; it
must be *the* cut of it, and `TruncatedAgain` proves that cutting what was cut and added to is
cutting the whole. `CitesItsAnswer` says nothing is cited before the fallback, which is what
`KnowledgeIsCited` needs.

**`Sessions_proofs`**, for any number of requests and either store. A request writes back what
it read, so what the store shows is decided by all the objects requests hold. `Known`: a turn
that must show (answered, not replaced on purpose, overlapped by nobody) is in the store *and*
in whatever a request under way holds, because that one read the store later, or it would have
met it (`AllMet`). `Forgotten`: what was deleted is held only by requests that were under way
with the delete. Both need to know whose object is whose: `Private` (a turn's final state is
its own until it is stored), `Unread` (a request's copy is empty before it reads), `Copied`
(in mongo what is held is never what is stored). `Traceless` gives `FailedLeavesNoTrace`: in
mongo an object has nothing but what was saved, and its own request's part.

**`Interact_proofs`** has the three components that make an answer. Most of it is about lists,
and the library's induction theorems take the property to prove as an operator, which no prover
here can instantiate. `NatSet` and `SeqSet` state induction with a *set* instead, from the
well-foundedness of the naturals. On them rest the lemmas about the folds: what a prefix of a
merge has made (`Merges`), what joining lists does (`Joins`), what a map of each element to a list
keeps (`Spread`): voicing, stripping and the filters are all such maps, and what is said is one.

*A request*, for any outputs of the runtime and any number of rounds. All four promises are about
its end, or about what a caller has already been sent, while every handler reworks the traces;
none is inductive alone. `RequestInv` says what holds at each handler (`Where`).
`Finished`: which form the traces are in, that is which handlers they have been through.
`Told`: what they and the earlier answers say is what was made. It is kept by merging only when
pieces come between a start and an end, hence `InOrder`; and since `mergeCompletion`
is in the pipe of every way in but the streaming one, `Finished` must say that no pieces are left
where it ran. `Counted`: what was emitted and made is of the rounds that ran. `Delegated`: the go-to
traces of a round became the request of the next, or the rounds are used up. From these follow
`AnswerSaysAll`, `AnswerIsFinished`, `StreamedAsRun` and `GoToIsRun`.

*A turn of AI responses*, for any number of nodes and items. `SpokenIsRemembered` compares memory
and merged traces, at the end only. `TurnInv` says what merging *would* make at any moment: until
the merge, the memory is what the speech of the merge of the traces so far says, but for the
notices (`Sound`), and in the middle of a stream the merge ends with what was heard of it
(`Going`). One more trace is one more step of the fold. `TurnsInOrder` proves of `AiResponse` what
`Interact` assumes of its outputs, so the two fit together.

*A classification*, for any settings, intents and services. `WayHere` says for each stage what
the settings must be and what must have been asked, and have missed, for `predict` to be there;
`NoneIsLast` reads it at the end, and `SlotsAreOfIntent` is inductive beside it.

Only model-checked: liveness (`TurnsClose`, `TurnEnds`, `Classified`, `DirectCallsEnd`) and with
it the fairness part of `ImplementsContract`, which the prover has no rules for. `OneVersion` is
violated. Every other property of a run is stated by a theorem.

## 6. What was found

* **`OneVersion`.** `state/index.ts:115` resets a stack "if base frameID is not the same as
  the current version, otherwise they will never update". A stack can be stored without a
  base frame (an action as the first request; a base program that does not load); after a
  switch of version such a session keeps the old version's frames, no turn runs on them, and
  it recovers only by a launch.

Other disagreements met on the way, modelled as the code has them and stated by no run:

* `reset.ts:10` says "reset the entire stack to the first flow and it's first node"; the
  bottom frame is the injected base program, so nothing of the first flow is left and the
  session ends.
* `aiAssist.ts:66` reads the conversation into `transcript` and `:69` reads it again into another
  one, to which the message is pushed: where `_memory_` is unset these are two lists, and the
  outer, empty one is what is kept. The first message of a conversation is not remembered
  (`full` leaves it out).
* `documentation/dialog.md:3` says dialog management "ensures the required entities in an intent
  are filled before sending the request to the next handler": before a session's first turn the
  stack does not yet know its commands, and the paths of custom actions are no interactions, so
  such intents pass unfilled and the runtime acts on them (`Overlooked` in `MatchedIsFilled`).
* `dialog/index.ts:234` wants "previously fulfilled entities" to be considered; an utterance
  that names the intent again without an entity (`:99`) takes the place of the stored request,
  and what the user had said is asked for once more.
* `openapi.yaml:1001` says deletion removes "all state and session data for user"; a turn
  under way writes it all back. `OnlyOverlapsInterfere` says that nothing else does.
* `OutgoingApiLimiter/index.ts:27` says "without updating expiry date": the write renews what
  was left when it was asked for.

Smaller ones: `predictor.class.ts:132-149` asks for the slots of one intent and takes those of
whatever intent the answer is of (`SlotsAreOfIntent` names the case). `merge-completion/index.ts:34`
says an end without a start "should never happen", but a stream of items without output makes one
(harmless: merging drops it; a streaming client sees it). `documentation/contextHandlers.md:6` says
`request.end` also skips the pipes that follow; the flag is the context's, and `Context/index.ts:18`
resets it for each pipe, which is what has the dialog's question spoken and filtered. The test named
'uses slots from NLU if same prediction' (`predictor.class.unit.ts:294`) sets `predicted` without
matching on it: the slots are asked for again and lost if that fails.

## 7. Not modelled

I/O and wording: clients, HTTP server, data APIs, transcripts, rate limits of a library,
authorization, debug logging, test endpoints. They decide nothing a modelled part would read
but an answer or a failure, which the models choose freely.

Data: how expressions and code are evaluated (the expression parser with it), which path a
condition takes, how a message or a prompt is put together, how an utterance matches an
expression, filters and tags of knowledge base queries, token sums. The models take any
outcome. `questionSynthesis`, `Stack.lift` and `Stack.update` have no caller in `src/`.

Within modelled parts: Alexa's own handlers and stream events; the shape of a function's traces;
streams' offsets. In `Assistant` what is set is taken for a variable of the version.

## 8. Plan

The order was: the engine, since everything else runs inside it; the handlers' counters and
the DM store, which live across turns; the pipes and the session store around them; services;
variables; the calls of API steps; what steps keep in the storage; what is asked of models.
What remains:

1. *Expression parser*: the shunting yard against a reference grammar, over short token lists
   (recursive, so model-checked only).
2. *Project resolution* (`middlewares/project.ts`): which version a request is served with.

Every safety property of the runs is proved. What is left to prove is what the parts promise each
other: that the contents of `Sessions` are what a request of `Interact` makes of a state, and
that the requests of `GOTO` traces in `EntityFilling` are those `Interact` takes through the rounds.
