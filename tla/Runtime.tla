------------------------------- MODULE Runtime -------------------------------
(***************************************************************************)
(* One session of the general runtime, turn after turn: a request arrives, *)
(* the state manager prepares the stack, the base program is injected and  *)
(* cycleStack / cycleHandler run nodes until the turn has ended.  Every    *)
(* iteration of either loop is one action, as each awaits in between.      *)
(*                                                                         *)
(* A frame carries what later steps read of it: its diagram, its node id,  *)
(* whether it was hydrated in this turn, whether it has got the commands   *)
(* of its program yet, the isBase and calledCommand entries of its storage *)
(* and, as history, the operation that pushed it.                          *)
(***************************************************************************)
EXTENDS Program, FiniteSets

CONSTANTS
  STACK_OVERFLOW,    \* deepest recursion of cycleStack
  HANDLER_OVERFLOW,  \* most iterations of cycleHandler on one frame
  BaseLoads,         \* outcomes of loading the base program: TRUE, FALSE
  MaxStack           \* bound: a session with a longer stack is only launched anew

ASSUME LimitAssumption ==
  /\ STACK_OVERFLOW \in Nat
  /\ HANDLER_OVERFLOW \in Nat
  /\ BaseLoads \subseteq BOOLEAN
  /\ MaxStack \in Nat \ {0}

VARIABLES
  stack,    \* frames, first the bottom
  version,  \* versionID the current or last turn was addressed to
  request,  \* request of the runtime, NULL when there is none
  action,   \* Action of the runtime
  pc,       \* where the turn is; "idle" between turns
  depth,    \* recursion depth of cycleStack
  i,        \* iterations of the running cycleHandler
  nextID,   \* node id returned by the last handler
  changed,  \* the frames array is no longer the one the frame started with
  turnEnd,  \* the 'end' entry of the turn store
  ends,     \* history: END traces the turn added
  size,     \* history: length of the stack when cycleStack started
  lastNode, \* history: the node last given to a handler
  outcome   \* history: what closed the turn

engine == <<action, pc, depth, i, nextID, changed>>
history == <<ends, size, lastNode, outcome>>
vars == <<stack, version, request, engine, turnEnd, history>>

NoReply == "no reply"
ActionRequest == "action"

\* What a turn can be asked: nothing at all, a launch, an event, a no-reply,
\* or an action.
Requests == Events \cup {NULL, "launch", NoReply, ActionRequest}

Frame == [diagram : Diagrams \cup Versions, node : Nodes \cup {NULL, UNDEF},
          hydrated : BOOLEAN, known : BOOLEAN, base : BOOLEAN, called : BOOLEAN,
          via : {"root", "base", "flow", "push", "jump"}]

-----------------------------------------------------------------------------
(* Stack and Frame.                                                        *)

NewFrame(d, how) ==
  [diagram |-> d, node |-> UNDEF, hydrated |-> FALSE, known |-> FALSE,
   base |-> FALSE, called |-> FALSE, via |-> how]

BaseFrame(v) ==
  [diagram |-> v, node |-> NULL, hydrated |-> FALSE, known |-> TRUE,
   base |-> TRUE, called |-> FALSE, via |-> "base"]

Top(s) == s[Len(s)]

\* Faulty variant: the wrong end of the stack.
SetNodeIDOfBottom(s, n) == [s EXCEPT ![1].node = n]

\* stack.top().setNodeID(n)
SetNodeID(s, n) == [s EXCEPT ![Len(s)].node = n]

\* Stack.popTo(index): the index frames at the bottom stay.
PopTo(s, index) == SubSeq(s, 1, index)

Pop(s) == PopTo(s, Len(s) - 1)

Push(s, f) == Append(s, f)

Unshift(s, f) == <<f>> \o s

HasNodeID(f) == f.node \in Nodes

\* Stack.getFrames of a stored stack: new Frame objects, none hydrated.
Restore(s) == [k \in DOMAIN s |-> [s[k] EXCEPT !.hydrated = FALSE]]

\* Frame.hydrate on the top frame: once per Frame object.
Hydrate(s) ==
  IF Top(s).hydrated THEN s
  ELSE [s EXCEPT ![Len(s)].hydrated = TRUE, ![Len(s)].known = TRUE,
                 ![Len(s)].node =
                    IF @ = UNDEF THEN StartNode[Top(s).diagram] ELSE @]

-----------------------------------------------------------------------------
(* StateManager.handle and RuntimeManager.handle: a turn begins.           *)

\* The base frame on the stored stack is another version's.
VersionChanged(s, v) == s # << >> /\ s[1].base /\ s[1].diagram # v

\* StateManager.generate: the prepared stack of the version, whatever it has on
\* it, or its root diagram.
Generated(v) ==
  IF Context[v] = NULL THEN <<NewFrame(Root[v], "root")>>
  ELSE [k \in DOMAIN Context[v] |->
          [NewFrame(Context[v][k].diagram, "root") EXCEPT
             !.node = Context[v][k].node, !.known = Context[v][k].known]]

\* The stack a turn on version v starts from.
PreparedStack(s, v, launch) ==
  IF launch \/ VersionChanged(s, v) \/ s = << >> THEN Generated(v) ELSE Restore(s)

\* A launch request empties the session and reaches the runtime as no
\* request; an action request is answered without running anything.
StartTurn(v, req) ==
  /\ pc = "idle"
  /\ Len(stack) <= MaxStack \/ req = "launch"
  /\ version' = v
  /\ stack' = PreparedStack(stack, v, req = "launch")
  /\ request' = IF req \in {"launch", ActionRequest} THEN NULL ELSE req
  /\ pc' = IF req = ActionRequest THEN "idle" ELSE "update"
  /\ turnEnd' = FALSE
  /\ ends' = 0
  /\ outcome' = IF req = ActionRequest THEN "skipped" ELSE "running"
  /\ lastNode' = NULL
  /\ UNCHANGED <<action, depth, i, nextID, changed, size>>

\* Faulty variant: injected on every turn.
InjectedAgain(s, v, loaded) == IF ~loaded THEN s ELSE Unshift(s, BaseFrame(v))

\* Runtime.update: injectBaseProgram (the base program may fail to load), then
\* the action of the turn.
Injected(s, v, loaded) ==
  IF (s # << >> /\ s[1].diagram = v) \/ ~loaded THEN s ELSE Unshift(s, BaseFrame(v))

Update(loaded) ==
  /\ pc = "update"
  /\ stack' = Injected(stack, version, loaded)
  /\ size' = Len(stack')
  /\ action' = IF request # NULL THEN "REQUEST" ELSE "RUNNING"
  /\ depth' = 0
  /\ i' = 0
  /\ nextID' = NULL
  /\ changed' = FALSE
  /\ pc' = "stack"
  /\ UNCHANGED <<version, request, turnEnd, ends, lastNode, outcome>>

-----------------------------------------------------------------------------
(* cycleStack.                                                             *)

\* The turn is over: the runtime is read out and dropped.
Dropped ==
  /\ pc' = "idle"
  /\ action' = "IDLE"
  /\ request' = NULL
  /\ depth' = 0 /\ i' = 0 /\ nextID' = NULL /\ changed' = FALSE /\ size' = 0

\* A loop counter, which is only ever compared with its limit.
Tick(n, limit) == IF n > limit THEN n ELSE n + 1

DepthExhausted == depth > STACK_OVERFLOW

BaseOnTop == Top(stack).diagram = version

\* Nothing (more) to run.
StopCycle ==
  /\ pc = "stack"
  /\ stack = << >> \/ DepthExhausted
  /\ action' = "END"
  /\ pc' = "close"
  /\ outcome' = IF stack = << >> THEN "finished" ELSE "depth"
  /\ UNCHANGED <<stack, version, request, depth, i, nextID, changed, turnEnd, ends, size, lastNode>>

\* Only the base program is left: flush.
ReachBase ==
  /\ pc = "stack"
  /\ stack # << >> /\ ~DepthExhausted
  /\ BaseOnTop
  /\ stack' = << >>
  /\ action' = "END"
  /\ pc' = "close"
  /\ outcome' = "finished"
  /\ UNCHANGED <<version, request, depth, i, nextID, changed, turnEnd, ends, size, lastNode>>

\* getProgram rejects: always for a diagram that is not in the version, at
\* any time when the database fails.  update() swallows the error; the turn
\* closes with the action it had.
LoadFails ==
  /\ pc = "stack"
  /\ stack # << >> /\ ~DepthExhausted /\ ~BaseOnTop
  /\ outcome' = "failed"
  /\ Dropped
  /\ UNCHANGED <<stack, version, turnEnd, ends, lastNode>>

\* The frame on top is hydrated and its handlers start.
EnterFrame ==
  /\ pc = "stack"
  /\ stack # << >> /\ ~DepthExhausted /\ ~BaseOnTop
  /\ Owner(Top(stack).diagram) = version
  /\ stack' = Hydrate(stack)
  /\ i' = 0
  /\ nextID' = NULL
  /\ changed' = FALSE
  /\ pc' = "loop"
  /\ UNCHANGED <<version, request, action, depth, turnEnd, ends, size, lastNode, outcome>>

\* frameDidFinish: a marked caller replays its last output and is unmarked.
FrameDidFinish(s) ==
  IF s = << >> THEN s ELSE [s EXCEPT ![Len(s)].called = FALSE]

\* Faulty variant: recursion on a changed stack keeps the depth.
LeaveFrameUncounted ==
  /\ pc = "leave"
  /\ IF action = "END"
       THEN pc' = "close" /\ UNCHANGED <<stack, depth>>
       ELSE /\ pc' = "stack"
            /\ depth' = IF changed THEN depth ELSE Tick(depth, STACK_OVERFLOW)
            /\ stack' = IF changed THEN stack ELSE FrameDidFinish(Pop(stack))
  /\ UNCHANGED <<version, request, action, i, nextID, changed, turnEnd, history>>

\* Faulty variant: pops before it asks whether the turn has ended.
LeaveFrameEager ==
  /\ pc = "leave"
  /\ stack' = IF changed \/ stack = << >> THEN stack ELSE FrameDidFinish(Pop(stack))
  /\ IF action = "END"
       THEN pc' = "close" /\ UNCHANGED depth
       ELSE pc' = "stack" /\ depth' = Tick(depth, STACK_OVERFLOW)
  /\ UNCHANGED <<version, request, action, i, nextID, changed, turnEnd, history>>

\* After the handlers: END leaves everything in place, an untouched stack
\* loses its top frame, a changed one is continued.
LeaveFrame ==
  /\ pc = "leave"
  /\ IF action = "END"
       THEN pc' = "close" /\ UNCHANGED <<stack, depth>>
       ELSE /\ pc' = "stack"
            /\ depth' = Tick(depth, STACK_OVERFLOW)
            /\ stack' = IF changed THEN stack ELSE FrameDidFinish(Pop(stack))
  /\ UNCHANGED <<version, request, action, i, nextID, changed, turnEnd, history>>

\* updateDidExecute, then getFinalState.
CloseTurn ==
  /\ pc = "close"
  /\ ends' = IF stack = << >> /\ ~turnEnd THEN ends + 1 ELSE ends
  /\ Dropped
  /\ UNCHANGED <<stack, version, turnEnd, lastNode, outcome>>

-----------------------------------------------------------------------------
(* cycleHandler: the head of the loop.                                     *)

\* Faulty variant: no limit.
NeverOverflows == FALSE

LoopOverflowed == i > HANDLER_OVERFLOW

\* The loop gives up on the frame; cycleStack will pop it.
GiveUp ==
  /\ pc = "loop"
  /\ LoopOverflowed
  /\ pc' = "leave"
  /\ nextID' = NULL
  /\ UNCHANGED <<stack, version, request, action, depth, i, changed, turnEnd, history>>

\* The turn's time is used up: END, and the frame keeps its node id.
Timeout ==
  /\ pc = "loop"
  /\ ~LoopOverflowed
  /\ action' = "END"
  /\ pc' = "leave"
  /\ outcome' = "timeout"
  /\ UNCHANGED <<stack, version, request, depth, i, nextID, changed, turnEnd, ends, size, lastNode>>

\* The frame the loop runs on, advanced to what the last handler returned.
Position == IF nextID = NULL THEN stack ELSE SetNodeID(stack, nextID)

Node == GetNode(Top(stack).diagram, Top(Position).node)

\* The frame has no node to run.
NoNode ==
  /\ pc = "loop"
  /\ ~LoopOverflowed
  /\ Node = NULL
  /\ stack' = Position
  /\ nextID' = NULL
  /\ pc' = "leave"
  /\ UNCHANGED <<version, request, action, depth, i, changed, turnEnd, history>>

\* A handler is about to be given node n.
At(n) == pc = "loop" /\ ~LoopOverflowed /\ n = Node /\ n # NULL

\* Faulty variant: the request stays pending.
ActionUnprocessed(n, next, ended) == IF ended \/ next = n THEN "END" ELSE action

\* The action after a handler: it ended the turn, it stopped on its own node,
\* or the request is now processed.
ActionAfter(n, next, ended) ==
  IF ended \/ next = n THEN "END"
  ELSE IF action = "REQUEST" THEN "RUNNING"
  ELSE action

\* What the loop does with the outcome of a handler: the frames s, whether
\* they are a new array, the node id returned and whether the handler (or the
\* catch of its exception) ended the turn.
Handled(n, s, isNew, next, ended) ==
  LET act == ActionAfter(n, next, ended) IN
  /\ stack' = s
  /\ changed' = isNew
  /\ nextID' = next
  /\ action' = act
  /\ i' = Tick(i, HANDLER_OVERFLOW)
  /\ lastNode' = n
  /\ pc' = IF next = NULL \/ act = "END" \/ isNew THEN "leave" ELSE "loop"
  /\ UNCHANGED <<version, request, depth, size>>

\* Most handlers change nothing but what they return.
Returns(n, next) ==
  /\ Handled(n, Position, FALSE, next, FALSE)
  /\ outcome' = IF next = n THEN "stopped" ELSE outcome
  /\ UNCHANGED <<turnEnd, ends>>

\* Handlers that replace the frames array return null.
Restacks(n, s) ==
  /\ Handled(n, s, TRUE, NULL, FALSE)
  /\ UNCHANGED <<turnEnd, ends, outcome>>

-----------------------------------------------------------------------------
(* Commands.                                                               *)

\* The commands of a frame that an event matches.
Matching(f, e) == {j \in DOMAIN Commands[f.diagram] : f.known /\ Commands[f.diagram][j].event = e}

\* getCommand: the match nearest to the top, first in its frame.
FirstMatch(s, e, k, j) ==
  /\ k \in DOMAIN s
  /\ j \in Matching(s[k], e)
  /\ \A j2 \in Matching(s[k], e) : j <= j2
  /\ \A k2 \in (k + 1)..Len(s) : Matching(s[k2], e) = {}

HasCommand(s, e) == \E k \in DOMAIN s : Matching(s[k], e) # {}

\* A jump command found in frame k: drop what is above, continue at its node.
Jumped(s, k, c) ==
  LET kept == PopTo(s, k) IN
  SetNodeID(IF c.diagram # NULL /\ c.diagram # Top(kept).diagram
              THEN Push(kept, NewFrame(c.diagram, "jump"))
              ELSE kept,
            c.next)

\* Faulty variant: marks the flow instead of the interrupted frame.
PushedMarked(s, c) ==
  Push(s, [NewFrame(c.diagram, "push") EXCEPT !.called = TRUE])

\* A push command: mark the interrupted frame, run the command's flow on top.
Pushed(s, c) ==
  Push([s EXCEPT ![Len(s)].called = TRUE], NewFrame(c.diagram, "push"))

RunCommand(n) ==
  \E k \in DOMAIN Position :
    \E j \in DOMAIN Commands[Position[k].diagram] :
      LET c == Commands[Position[k].diagram][j] IN
      /\ FirstMatch(Position, request, k, j)
      /\ \/ c.type = "jump" /\ Restacks(n, Jumped(Position, k, c))
         \/ c.type = "push" /\ c.diagram # NULL /\ Restacks(n, Pushed(Position, c))
         \/ c.type = "push" /\ c.diagram = NULL /\ Returns(n, NULL)

-----------------------------------------------------------------------------
(* Handlers that a request can reach.                                      *)

Requested == action = "REQUEST"

\* oneShot.ts: an intent on the start node of a fresh session.
TakesOneShot(n) ==
  /\ Requested
  /\ request \in Intents
  /\ Len(Position) <= 2
  /\ Kind[n] = "start"

OneShot ==
  \E n \in Nodes :
    /\ At(n)
    /\ TakesOneShot(n)
    /\ \/ HasCommand(Position, request) /\ RunCommand(n)
       \/ ~HasCommand(Position, request) /\ Returns(n, NextId[n])

\* preliminary: a request on a node that handles none runs a command or stops
\* the turn where it is.
Preempted(n) == Requested /\ Kind[n] \notin EventKinds

Preliminary ==
  \E n \in Nodes :
    /\ At(n)
    /\ Preempted(n) /\ ~TakesOneShot(n)
    /\ \/ HasCommand(Position, request) /\ RunCommand(n)
       \/ ~HasCommand(Position, request) /\ Returns(n, n)

\* interaction.ts.  On a plain run the node waits for the user.  A request is
\* tried as a no-reply, a choice, a command and a repeat, then falls to the
\* no-match handler.  Prompting again stops on the node; when the prompts are
\* used up the no-match or no-reply path is taken.
Interaction ==
  \E n \in Nodes :
    /\ At(n)
    /\ Kind[n] = "interaction"
    /\ \/ ~Requested /\ Returns(n, n)
       \/ Requested /\ request = NoReply /\ (Returns(n, n) \/ Returns(n, ElseId[n]))
       \/ /\ Requested /\ request \in Events
          /\ \/ Choice[n][request] # NoChoice /\ Returns(n, Choice[n][request])
             \/ /\ Choice[n][request] = NoChoice
                /\ \/ ~NodeScoped[n] /\ RunCommand(n)
                   \/ /\ NodeScoped[n] \/ ~HasCommand(Position, request)
                      /\ \/ request \in RepeatIntents /\ Returns(n, n)
                         \/ /\ request \notin RepeatIntents
                            /\ Returns(n, n) \/ Returns(n, ElseId[n])

\* goTo.ts: a plain run emits the goto trace and waits for the delegated
\* request, which must match a command.
GoTo ==
  \E n \in Nodes :
    /\ At(n)
    /\ Kind[n] = "goTo"
    /\ \/ ~Requested /\ Returns(n, n)
       \/ Requested /\ RunCommand(n)
       \/ Requested /\ ~HasCommand(Position, request) /\ Returns(n, ElseId[n])

Runs(n, kind) == At(n) /\ Kind[n] = kind /\ ~Preempted(n)

\* cardV2.ts, carousel.ts.  A blocking card waits; a request is tried as a
\* command, then falls to the no-reply or no-match handler.  One that does not
\* block goes on, and has nothing for a request that finds the session on it.
Card ==
  \E n \in Nodes :
    /\ Runs(n, "card") \/ Runs(n, "passingCard")
    /\ \/ ~Requested /\ Returns(n, IF Kind[n] = "card" THEN n ELSE NextId[n])
       \/ Requested /\ RunCommand(n)
       \/ /\ Requested /\ ~HasCommand(Position, request)
          /\ IF Kind[n] = "card" THEN Returns(n, n) \/ Returns(n, ElseId[n])
             ELSE Returns(n, NULL)

\* function/index.ts.  It takes a path or none, or listens; the answer takes
\* another path or none.
Function ==
  \E n \in Nodes :
    /\ Runs(n, "function")
    /\ \/ \E next \in {NextId[n], ElseId[n], NULL} : Returns(n, next)
       \/ ~Requested /\ Returns(n, n)

\* _v1.ts: what a request does, by an event of the node, by a command or by
\* the default path.
Answered(n) ==
  LET chosen == request \in Events /\ Choice[n][request] # NoChoice IN
  \/ chosen /\ Returns(n, Choice[n][request])
  \/ ~chosen /\ RunCommand(n)
  \/ ~chosen /\ ~HasCommand(Position, request) /\ Returns(n, NextId[n])

\* _v1.ts.  A custom step stops if it, or the turn, says so.
Custom ==
  \E n \in Nodes :
    /\ Runs(n, "custom")
    /\ \/ ~Requested /\ (Returns(n, NextId[n]) \/ Returns(n, n))
       \/ Requested /\ Answered(n)

\* ifV2.ts.  It takes a path, with or without a request; in a turn that stops
\* at conditions it is run as a custom step.
Condition ==
  \E n \in Nodes :
    /\ Runs(n, "condition")
    /\ \/ Returns(n, NextId[n]) \/ Returns(n, ElseId[n])
       \/ ~Requested /\ Returns(n, n)
       \/ Requested /\ Answered(n)

-----------------------------------------------------------------------------
(* Handlers of a plain run.                                                *)

\* Start, speak, text, set, ...: do their work and name the next node.
Step == \E n \in Nodes : (Runs(n, "start") \/ Runs(n, "step")) /\ Returns(n, NextId[n])

\* If, random, API, code, ...: one of several ways out.
Branch ==
  \E n \in Nodes :
    Runs(n, "branch") /\ (Returns(n, NextId[n]) \/ Returns(n, ElseId[n]))

\* Handlers that may await a service: a model, the lambda, a host, the code
\* sandbox; interactions and cards for a generated no-match.
Serviced(n) ==
  \/ Kind[n] \in {"branch", "function", "condition"} /\ ~Preempted(n)
  \/ Kind[n] \in {"interaction", "card"} /\ Requested

\* A handler throws (a service it calls fails, a function is not defined):
\* handlerDidCatch ends the turn.
Throw ==
  \E n \in Nodes :
    /\ At(n) /\ Serviced(n)
    /\ Handled(n, Position, FALSE, NULL, TRUE)
    /\ outcome' = "threw"
    /\ UNCHANGED <<turnEnd, ends>>

\* What is awaited never settles: a program that is read, or a service.  The
\* clock is only looked at between handlers, so nobody gives the turn up.
\* Nothing of it is saved: to the session it is as if the request had not been.
Awaits ==
  \/ pc = "update"
  \/ pc = "stack" /\ stack # << >> /\ ~DepthExhausted /\ ~BaseOnTop
  \/ \E n \in Nodes : At(n) /\ Serviced(n)

Hang ==
  /\ Awaits
  /\ pc' = "stuck"
  /\ UNCHANGED <<stack, version, request, action, depth, i, nextID, changed, turnEnd, history>>

\* No handler takes the node.
Unhandled == \E n \in Nodes : Runs(n, "unknown") /\ Returns(n, NULL)

\* flow.ts
Flow ==
  \E n \in Nodes :
    /\ Runs(n, "flow")
    /\ \/ Target[n] = NULL /\ Returns(n, NextId[n])
       \/ /\ Target[n] # NULL
          /\ Restacks(n, Push(SetNodeID(Position, NextId[n]), NewFrame(Target[n], "flow")))

\* gotoNode.ts: position, from 1, of the lowest frame of the diagram; 0 if none.
FrameIndex(s, d) ==
  IF \E k \in DOMAIN s : s[k].diagram = d
    THEN CHOOSE k \in DOMAIN s : s[k].diagram = d /\ \A m \in 1..(k - 1) : s[m].diagram # d
    ELSE 0

AtLeastOne(k) == IF k < 1 THEN 1 ELSE k

GoToNode ==
  \E n \in Nodes :
    /\ Runs(n, "gotoNode")
    /\ \/ Target[n] \in {NULL, Top(stack).diagram} /\ Returns(n, NextId[n])
       \/ /\ Target[n] \notin {NULL, Top(stack).diagram}
          /\ LET kept == PopTo(Position, AtLeastOne(FrameIndex(Position, Target[n]))) IN
             Restacks(n, SetNodeID(Push(kept, NewFrame(Target[n], "jump")), NextId[n]))

\* reset.ts
ResetStack ==
  \E n \in Nodes :
    Runs(n, "reset") /\ Restacks(n, SetNodeID(PopTo(Position, 1), UNDEF))

\* Faulty variant: only the top frame is dropped.
EndsTop(s, k) == k = Len(s) - 1

\* end.ts: the frame is over, and so is every caller that waits on no node.
EndsAbove(s, k) ==
  /\ k \in 0..(Len(s) - 1)
  /\ k > 0 => HasNodeID(s[k])
  /\ \A m \in (k + 1)..(Len(s) - 1) : ~HasNodeID(s[m])

End ==
  \E n \in Nodes : \E k \in 0..Len(stack) :
    /\ Runs(n, "end")
    /\ EndsAbove(Position, k)
    /\ Handled(n, PopTo(Position, k), TRUE, NULL, TRUE)
    /\ turnEnd' = TRUE
    /\ ends' = ends + 1
    /\ outcome' = "exited"

-----------------------------------------------------------------------------
Handlers ==
  \/ OneShot \/ Preliminary \/ Interaction \/ GoTo \/ Card \/ Function \/ Custom \/ Condition
  \/ Step \/ Branch \/ Throw \/ Unhandled
  \/ Flow \/ GoToNode \/ ResetStack \/ End

Engine ==
  \/ \E loaded \in BaseLoads : Update(loaded)
  \/ StopCycle \/ ReachBase \/ LoadFails \/ EnterFrame \/ LeaveFrame \/ CloseTurn
  \/ GiveUp \/ Timeout \/ NoNode \/ Handlers \/ Hang

\* The request that hangs is the end of a behaviour; what later requests do to
\* the session as it was stored is another.
Forsaken == pc = "stuck" /\ UNCHANGED vars

Init ==
  /\ stack = << >>
  /\ version \in Versions
  /\ request = NULL
  /\ action = "IDLE"
  /\ pc = "idle"
  /\ depth = 0 /\ i = 0 /\ nextID = NULL /\ changed = FALSE /\ size = 0
  /\ turnEnd = FALSE
  /\ ends = 0
  /\ lastNode = NULL
  /\ outcome = "none"

Next == (\E v \in Versions, req \in Requests : StartTurn(v, req)) \/ Engine \/ Forsaken

\* Once a request is accepted the event loop drives the turn: what is awaited
\* settles, rejects or (Hang) never does.  Nobody has to send another request.
Spec == Init /\ [][Next]_vars /\ WF_vars(Engine)

-----------------------------------------------------------------------------
(* What the engine promises.                                               *)

Live == pc \notin {"idle", "update", "stuck"}

\* Every variable holds a value of its kind and the counters stay below one
\* past their limits.
TypeOK ==
  /\ stack \in Seq(Frame)
  /\ version \in Versions
  /\ request \in Events \cup {NULL, NoReply}
  /\ action \in {"IDLE", "REQUEST", "RUNNING", "END"}
  /\ pc \in {"idle", "update", "stack", "loop", "leave", "close", "stuck"}
  /\ depth \in 0..(STACK_OVERFLOW + 1)
  /\ i \in 0..(HANDLER_OVERFLOW + 1)
  /\ nextID \in NodeOrNull
  /\ changed \in BOOLEAN
  /\ turnEnd \in BOOLEAN
  /\ ends \in Nat
  /\ size \in Nat
  /\ lastNode \in NodeOrNull
  /\ outcome \in {"none", "running", "skipped", "stopped", "exited", "threw",
                  "timeout", "finished", "depth", "failed"}

\* The base program of the version is at the bottom of the stack or nowhere,
\* there is at most one, and it is never a frame whose nodes are run, whatever
\* commands jump to it and whatever version the stored session came from
\* (injectBaseProgram, StateManager.handle, the flush in cycleStack).
BaseAtBottom ==
  /\ \A k \in DOMAIN stack : stack[k].diagram \in Versions => k = 1 /\ stack[k].base
  /\ Live /\ stack # << >> /\ stack[1].base => stack[1].diagram = version
  /\ pc = "loop" => stack # << >> /\ Top(stack).diagram # version /\ ~Top(stack).base

\* A turn lengthens the stack by at most one frame per cycle of cycleStack, so
\* by at most STACK_OVERFLOW + 1 frames however its flows call each other.
BoundedGrowth ==
  Live => Len(stack) <= size + depth + (IF pc \in {"leave", "close"} THEN 1 ELSE 0)

\* A flow that a push command started always sits on a frame that is still
\* marked, so that its end replays the interrupted prompt (init.ts).
CallerMarked ==
  \A k \in DOMAIN stack : stack[k].via = "push" => k > 1 /\ stack[k - 1].called

\* When a turn ends because a node waits or failed, the session is on that
\* node; when it ends by an exit, it is on a node of its top diagram or over.
\* A session that is over is announced by exactly one END trace, and no turn
\* ever emits two (end.ts, updateDidExecute).
Resumable ==
  /\ ends <= 1
  /\ pc = "idle" =>
       /\ outcome \in {"stopped", "threw"} =>
            stack # << >> /\ Top(stack).node = lastNode /\ lastNode # NULL
       /\ outcome = "exited" /\ stack # << >> =>
            GetNode(Top(stack).diagram, Top(stack).node) # NULL
       /\ stack = << >> /\ outcome \notin {"none", "skipped"} => ends = 1

\* Every frame belongs to the version the turn runs.  state/index.ts resets the
\* stack "if base frameID is not the same as the current version, otherwise
\* they will never update".
OneVersion ==
  Live => \A k \in DOMAIN stack : Owner(stack[k].diagram) = version

\* Once a handler, the clock or the end of the stack has ended the turn, no
\* other node is handled and the frames are what the session is saved with.
EndedIsFinal ==
  [][action = "END" => stack' = stack /\ lastNode' = lastNode /\ action' \in {"END", "IDLE"}]_vars

\* Within a turn only the frame on top is ever written: callers keep the node
\* they will resume at, whatever is pushed on them or popped off them.
CallersUntouched ==
  [][Live => \A k \in DOMAIN stack \cap DOMAIN stack' :
               k < Len(stack) /\ k < Len(stack') => stack'[k] = stack[k]]_vars

\* The turn as the rest of the service sees it.
Diagramed == [k \in DOMAIN stack |-> stack[k].diagram]

Phase == IF pc = "stuck" THEN "HUNG" ELSE action

Contract == INSTANCE TurnContract WITH phase <- Phase, session <- Diagramed

\* The engine implements the contract of a turn.
ImplementsContract == Contract!Spec

\* Every accepted request is answered, for every program, loops of nodes and of
\* flows included, unless something the turn awaits never settles: the limits
\* of the two loops end a turn without the clock (cycleHandler, cycleStack).
TurnsClose == (pc # "idle") ~> (pc \in {"idle", "stuck"})

=============================================================================
