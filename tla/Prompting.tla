------------------------------ MODULE Prompting ------------------------------
(***************************************************************************)
(* How a session waits for its user: the interaction, capture, captureV2,  *)
(* card and carousel nodes, the no-match and no-reply handlers they fall   *)
(* back to, and the two counters those share in the session's storage.     *)
(*                                                                         *)
(* The counters belong to the session and not to a node.  They are deleted *)
(* when a waiting node is visited in the course of a turn, yet a session   *)
(* also comes to wait on a node it does not visit: an exit uncovers the    *)
(* caller of a command, which first hears of the user's next request.      *)
(*                                                                         *)
(* Engine and frames are reduced to what decides where a session waits: a  *)
(* frame is its node id, and module Runtime has the rest.                  *)
(***************************************************************************)
EXTENDS Integers, Sequences

CONSTANTS
  Nodes,          \* node ids
  Node,           \* what each node is, a NodeModel
  Intents,        \* intents a request can have
  Repeat,         \* the intent of REPEAT
  Command,        \* first node of the flow an intent is a command for, or NULL
  Start,          \* first node of the project
  Settings,       \* what the versions of the project set, SettingsModels
  Generated,      \* outcomes of a generated no-match: "answer", "nothing", "throw"
  MaxFrames,      \* bound: commands are not used on a longer stack
  MaxFallbacks,   \* bound: fallback messages in a row
  NULL, UNDEF

WaitingKinds == {"interaction", "capture", "captureV2", "blockingCard"}

NodeOrNull == Nodes \cup {NULL}

NodeModel ==
  [kind : WaitingKinds \cup {"card", "speak", "exit"},
   next : NodeOrNull,
   paths : [Intents -> NodeOrNull \cup {UNDEF}],  \* of its interactions
   intent : Intents \cup {NULL},                  \* captureV2: intent to fill
   entire : BOOLEAN,                              \* captureV2: takes anything
   local : BOOLEAN,                               \* intentScope is NODE
   noMatches : Nat, noMatchTo : NodeOrNull,       \* prompts that are not empty
   randomize : BOOLEAN,                           \* no-matches in any order
   noReplies : Nat, noReplyTo : NodeOrNull,
   timeout : BOOLEAN]                             \* has a no-reply timeout

\* Global prompts, generated no-match and repeat of a version.  A no-match
\* prompt that was never set is the default message.
SettingsModel ==
  [noMatch : {"default", "prompt", "empty"}, noReply : BOOLEAN, generative : BOOLEAN,
   repeat : BOOLEAN]

ASSUME ProgramAssumption ==
  /\ Node \in [Nodes -> NodeModel]
  /\ Repeat \in Intents
  /\ Command \in [Intents -> NodeOrNull]
  /\ Start \in Nodes
  /\ NULL \notin Nodes /\ UNDEF \notin NodeOrNull /\ UNDEF \notin Int
  /\ Settings \subseteq SettingsModel
  /\ Generated \subseteq {"answer", "nothing", "throw"}
  /\ MaxFrames \in Nat /\ MaxFallbacks \in Nat

VARIABLES
  settings,     \* of the version the session talks to
  stack,        \* node id of each frame, first the bottom
  running,      \* a turn is running: the top frame's node is to be visited
  matchCount,   \* NO_MATCHES_COUNTER of the storage, UNDEF when deleted
  replyCount,   \* NO_REPLIES_COUNTER of the storage, UNDEF when deleted
  armed,        \* the last turn asked for a no-reply after a timeout
  visited,      \* history: the waiting node was visited, not uncovered
  heard,        \* history: no-match prompts heard since the session waits here
                \* or took the path of its no-match
  silences,     \* history: no-reply prompts heard, likewise
  last          \* history: what the last turn came from

counters == <<matchCount, replyCount>>
history == <<visited, heard, silences>>
vars == <<settings, stack, running, counters, armed, history, last>>

Top == stack[Len(stack)]

Waits(n) == Node[n].kind \in WaitingKinds

\* The session is idle on node n.
IdleAt(n) == ~running /\ stack # << >> /\ n = Top

-----------------------------------------------------------------------------
(* What a handler does with the top frame.                                 *)

\* It stops on its node.
Stays == UNCHANGED <<stack, running>>

\* It returns the id of another node, or none.
Goes(to) ==
  /\ stack' = [stack EXCEPT ![Len(stack)] = to]
  /\ running' = TRUE

\* The node a handler returned: its own stops the turn.
Returns(n, to) == IF to = n THEN Stays ELSE Goes(to)

\* A command pushes the flow it belongs to.
Pushes(to) ==
  /\ stack' = Append(stack, to)
  /\ running' = TRUE

\* getDelay: the node's own timeout, or the global no-reply's.
Delay(n) == Node[n].timeout \/ settings.noReply

-----------------------------------------------------------------------------
(* NoMatchHandler.                                                         *)

Count(counter) == IF counter = UNDEF THEN 0 ELSE counter

\* The node's own prompts that may come next: any with _.sample.
NextPrompts(n) ==
  IF Node[n].randomize THEN 1..Node[n].noMatches ELSE {Count(matchCount) + 1}

MatchPrompt(n) ==
  /\ Count(matchCount) < Node[n].noMatches
  /\ matchCount' = Count(matchCount) + 1
  /\ \E p \in NextPrompts(n) : heard' = Append(heard, p)
  /\ armed' = Delay(n)
  /\ Stays
  /\ UNCHANGED <<replyCount, visited, silences>>

MatchesExhausted(n) == Count(matchCount) >= Node[n].noMatches

\* A message that is not the node's: generated, the global prompt, the default.
MatchFallback(n) ==
  /\ MatchesExhausted(n) /\ Node[n].noMatchTo = NULL
  /\ settings.noMatch # "empty" \/ (settings.generative /\ "answer" \in Generated)
  /\ Count(matchCount) < Node[n].noMatches + MaxFallbacks
  /\ matchCount' = Count(matchCount) + 1
  /\ armed' = Delay(n)
  /\ Stays
  /\ UNCHANGED <<replyCount, history>>

\* Nothing to say: the counter goes and the path of the no-match is taken.
MatchPath(n) ==
  /\ MatchesExhausted(n)
  /\ \/ Node[n].noMatchTo # NULL
     \/ settings.noMatch = "empty" /\ (settings.generative => "nothing" \in Generated)
  /\ matchCount' = UNDEF
  /\ heard' = << >>
  /\ armed' = FALSE
  /\ Returns(n, Node[n].noMatchTo)
  /\ UNCHANGED <<replyCount, visited, silences>>

\* The generated no-match rejects: the turn ends where it was.
MatchThrows(n) ==
  /\ MatchesExhausted(n) /\ Node[n].noMatchTo = NULL
  /\ settings.generative /\ "throw" \in Generated
  /\ armed' = FALSE
  /\ Stays
  /\ UNCHANGED <<counters, history>>

NoMatch(n) == MatchPrompt(n) \/ MatchFallback(n) \/ MatchPath(n) \/ MatchThrows(n)

\* EntityFillingNoMatchHandler: the first miss sends the user's intent back to
\* be filled, the following ones prompt as well.
Elicit(n) ==
  /\ Node[n].intent # NULL
  /\ matchCount = UNDEF
  /\ matchCount' = 0
  /\ armed' = FALSE
  /\ Stays
  /\ UNCHANGED <<replyCount, history>>

EntityNoMatch(n) ==
  IF matchCount = UNDEF /\ Node[n].intent # NULL THEN Elicit(n) ELSE NoMatch(n)

-----------------------------------------------------------------------------
(* NoReplyHandler.                                                         *)

RepliesLeft(n) ==
  \/ Count(replyCount) < Node[n].noReplies
  \/ Count(replyCount) = Node[n].noReplies /\ settings.noReply

\* Faulty variant: the timeout of the last prompt is the global prompt's.
GlobalDelayOnly(n) ==
  IF Count(replyCount) = Node[n].noReplies - 1 THEN settings.noReply ELSE Delay(n)

\* The delay of the global no-reply, which has a default, announces that the
\* next silence is the global prompt's.
RepromptDelay(n) ==
  IF Count(replyCount) = Node[n].noReplies - 1 THEN TRUE ELSE Delay(n)

\* Faulty variant: the counter is not written back.
ReplyPromptUncounted(n) ==
  /\ RepliesLeft(n) /\ silences <= Node[n].noReplies + 2
  /\ silences' = silences + 1
  /\ armed' = RepromptDelay(n)
  /\ Stays
  /\ UNCHANGED <<counters, visited, heard>>

\* Which of the prompts it is, with randomize any, is left out.
ReplyPrompt(n) ==
  /\ RepliesLeft(n)
  /\ replyCount' = Count(replyCount) + 1
  /\ silences' = silences + 1
  /\ armed' = RepromptDelay(n)
  /\ Stays
  /\ UNCHANGED <<matchCount, visited, heard>>

ReplyPath(n) ==
  /\ ~RepliesLeft(n)
  /\ replyCount' = UNDEF
  /\ silences' = 0
  /\ armed' = FALSE
  /\ Returns(n, Node[n].noReplyTo)
  /\ UNCHANGED <<matchCount, visited, heard>>

NoReply(n) == ReplyPrompt(n) \/ ReplyPath(n)

-----------------------------------------------------------------------------
(* A turn: a request reaches the node the session waits on.                *)

\* The other outcomes of a handler leave the counters alone.
Answers == armed' = FALSE /\ UNCHANGED <<counters, history>>

HasCommand(e) == Command[e] # NULL

\* CommandHandler, with a command of type push.
RunCommand(e) == HasCommand(e) /\ Pushes(Command[e]) /\ Answers

\* RepeatHandler: the last output again.
AsksRepeat(e) == e = Repeat /\ settings.repeat

RunRepeat == Stays /\ Answers

\* InteractionHandler.
InteractionSays(n, e) ==
  IF Node[n].paths[e] # UNDEF THEN Returns(n, Node[n].paths[e]) /\ Answers
  ELSE IF HasCommand(e) /\ ~Node[n].local THEN RunCommand(e)
  ELSE IF AsksRepeat(e) THEN RunRepeat
  ELSE NoMatch(n)

\* CaptureHandler takes whatever is left.
CaptureSays(n, e) ==
  IF HasCommand(e) THEN RunCommand(e)
  ELSE IF AsksRepeat(e) THEN RunRepeat
  ELSE Returns(n, Node[n].next) /\ Answers

\* CaptureV2Handler: a capture of the entire response gives way to a command
\* only when the intent is certain.
CaptureV2Says(n, e, certain) ==
  IF HasCommand(e) /\ ~Node[n].local /\ (Node[n].entire => certain) THEN RunCommand(e)
  ELSE IF AsksRepeat(e) THEN RunRepeat
  ELSE IF e = Node[n].intent \/ Node[n].entire THEN Returns(n, Node[n].next) /\ Answers
  ELSE EntityNoMatch(n)

\* CardV2Handler and CarouselHandler.
CardSays(n, e) ==
  IF HasCommand(e) THEN RunCommand(e)
  ELSE IF Node[n].kind = "card" THEN Goes(NULL) /\ Answers
  ELSE NoMatch(n)

\* PreliminaryHandler: any other node, uncovered by an exit.
OtherSays(n, e) ==
  IF HasCommand(e) THEN RunCommand(e) ELSE Stays /\ Answers

Say(e, certain) ==
  \E n \in Nodes :
    /\ IdleAt(n)
    /\ Len(stack) < MaxFrames \/ ~HasCommand(e)
    /\ last' = "said" /\ UNCHANGED settings
    /\ CASE Node[n].kind = "interaction" -> InteractionSays(n, e)
         [] Node[n].kind = "capture" -> CaptureSays(n, e)
         [] Node[n].kind = "captureV2" -> CaptureV2Says(n, e, certain)
         [] Node[n].kind \in {"card", "blockingCard"} -> CardSays(n, e)
         [] OTHER -> OtherSays(n, e)

\* A no-reply request.
Silence ==
  \E n \in Nodes :
    /\ IdleAt(n)
    /\ last' = "silence" /\ UNCHANGED settings
    /\ IF Waits(n) THEN NoReply(n)
       ELSE IF Node[n].kind = "card" THEN Goes(NULL) /\ Answers
       ELSE Stays /\ Answers

\* A turn without a request visits the node again.
Resume ==
  /\ ~running /\ stack # << >>
  /\ running' = TRUE
  /\ armed' = FALSE
  /\ last' = "resumed"
  /\ UNCHANGED <<settings, stack, counters, history>>

\* A launch starts the session anew, with whatever version answers it.
Launch ==
  /\ ~running
  /\ settings' \in Settings
  /\ stack' = <<Start>>
  /\ running' = TRUE
  /\ matchCount' = UNDEF /\ replyCount' = UNDEF
  /\ armed' = FALSE
  /\ last' = "launched"
  /\ UNCHANGED history

\* Any other turn on a finished session, or on one whose stack is another
\* version's, starts from the first node as well; the storage, and with it
\* the counters, is kept.  The request may be a command (OneShotIntentHandler).
Restart ==
  /\ ~running
  /\ settings' \in Settings
  /\ stack = << >> \/ settings' # settings
  /\ stack' \in {<<Start>>} \cup {<<Start, Command[e]>> : e \in {f \in Intents : HasCommand(f)}}
  /\ running' = TRUE
  /\ armed' = FALSE
  /\ last' = "said"
  /\ UNCHANGED <<counters, history>>

-----------------------------------------------------------------------------
(* The rest of the turn: nodes visited with the action RUNNING.            *)

\* Faulty variant: only the no-replies are cleaned up.
MatchCountKept(n) == matchCount

\* Every waiting node cleans up both counters, except for the capture.
MatchCountAfterVisit(n) == IF Node[n].kind = "capture" THEN matchCount ELSE UNDEF

Wait(n) ==
  /\ running /\ stack # << >> /\ n = Top
  /\ Waits(n)
  /\ running' = FALSE
  /\ matchCount' = MatchCountAfterVisit(n) /\ replyCount' = UNDEF
  /\ armed' = Delay(n)
  /\ visited' = TRUE /\ heard' = << >> /\ silences' = 0
  /\ UNCHANGED <<settings, stack, last>>

\* Anything that talks and goes on.
Pass(n) ==
  /\ running /\ stack # << >> /\ n = Top
  /\ Node[n].kind \in {"speak", "card"}
  /\ Goes(Node[n].next)
  /\ UNCHANGED <<settings, counters, armed, history, last>>

\* EndHandler: the frame and the callers that wait on no node are dropped.
Exit(n) ==
  /\ running /\ stack # << >> /\ n = Top
  /\ Node[n].kind = "exit"
  /\ \E k \in 0..(Len(stack) - 1) :
       /\ k > 0 => stack[k] # NULL
       /\ \A m \in (k + 1)..(Len(stack) - 1) : stack[m] = NULL
       /\ stack' = SubSeq(stack, 1, k)
  /\ running' = FALSE
  /\ armed' = FALSE
  /\ visited' = FALSE /\ heard' = << >> /\ silences' = 0
  /\ UNCHANGED <<settings, counters, last>>

\* cycleStack pops a frame that has no node left; the caller goes on.
PopFrame ==
  /\ running /\ stack # << >> /\ Top = NULL
  /\ stack' = SubSeq(stack, 1, Len(stack) - 1)
  /\ UNCHANGED <<settings, running, counters, armed, history, last>>

Finish ==
  /\ running /\ stack = << >>
  /\ running' = FALSE
  /\ armed' = FALSE
  /\ UNCHANGED <<settings, stack, counters, history, last>>

Turn == (\E n \in Nodes : Wait(n) \/ Pass(n) \/ Exit(n)) \/ PopFrame \/ Finish

Init ==
  /\ settings \in Settings
  /\ stack = << >>
  /\ running = FALSE
  /\ matchCount = UNDEF /\ replyCount = UNDEF
  /\ armed = FALSE
  /\ visited = FALSE /\ heard = << >> /\ silences = 0
  /\ last = "none"

Request ==
  \/ \E e \in Intents, certain \in BOOLEAN : Say(e, certain)
  \/ Silence \/ Resume \/ Launch \/ Restart

Next == Request \/ Turn

Spec == Init /\ [][Next]_vars

-----------------------------------------------------------------------------
Counter == Nat \cup {UNDEF}

\* Every variable holds a value of its kind.
TypeOK ==
  /\ settings \in Settings
  /\ stack \in Seq(NodeOrNull)
  /\ running \in BOOLEAN
  /\ matchCount \in Counter /\ replyCount \in Counter
  /\ armed \in BOOLEAN
  /\ visited \in BOOLEAN
  /\ heard \in Seq(Nat)
  /\ silences \in Nat
  /\ last \in {"none", "said", "silence", "resumed", "launched"}

\* A node prompts no more often than it has no-match prompts, and unless it
\* randomizes them they are heard in their order, none twice and none left
\* out, whatever silences, repeats, fallbacks and requests for entities come
\* between them; and from the first one on, if the turn that came to the node
\* visited it.  Nothing but the shared counter tells getOutput where it is
\* (noMatch.ts, interaction.ts:37, entity.ts:48).
PromptsInOrder ==
  \A n \in Nodes :
    IdleAt(n) =>
      /\ Len(heard) <= Node[n].noMatches
      /\ ~Node[n].randomize =>
           /\ \A k \in 1..(Len(heard) - 1) : heard[k + 1] = heard[k] + 1
           /\ visited /\ heard # << >> => heard[1] = 1

\* A user who stays silent hears every no-reply prompt of the node and the
\* global one at most once before the session moves on (noReply.ts).
SilenceIsBounded ==
  \A n \in Nodes :
    IdleAt(n) /\ Waits(n) =>
      silences <= Node[n].noReplies + (IF settings.noReply THEN 1 ELSE 0)

\* While a session waits on a node with a no-reply timeout it has asked for a
\* no-reply, whether the turn came to the node or reprompted a silent user:
\* the delay of the last prompt is the global one and is there all the same
\* (useGlobalNoReplyDelay).  Not so once the user said something, or when the
\* path of the silence leads back to the node.
SilentUserIsTimed ==
  \A n \in Nodes :
    /\ IdleAt(n) /\ Waits(n) /\ Node[n].timeout /\ visited
    /\ last # "said"
    /\ last = "silence" => silences > 0
    => armed
=============================================================================
