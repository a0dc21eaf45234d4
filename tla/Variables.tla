------------------------------ MODULE Variables ------------------------------
(***************************************************************************)
(* The variables of a session and the steps that write them.  While a flow *)
(* runs, its steps read and write one combined store, made of the globals  *)
(* and the flow's locals when cycleStack enters it and taken apart when it *)
(* leaves it, after the stack may have changed.  Below the flows lies the  *)
(* base frame, which is injected when a turn begins and never runs.        *)
(***************************************************************************)
EXTENDS Integers, Sequences, FiniteSets

CONSTANTS
  Names, Values, Default, UNDEF, ABSENT, Maps,  \* of Scopes
  Diagrams, Versions,
  Declared,      \* [version][diagram]: names the flow declares
  VersionNames,  \* [version]: names the version declares
  Prepared,      \* [version]: the session it starts with, its flows and globals
  Writes,        \* what a step may assign: stores with the names it assigns
  NULL,
  MaxStack       \* bound: no flow is entered beyond so many

VARIABLES
  globals,    \* runtime.variables
  version,    \* of the turn, or of the last one
  based,      \* the base frame lies below the stack
  stack,      \* frames: the flow's locals, what its node id points to, ...
  combined,   \* the combined store, NULL when no flow runs
  running,    \* index of the frame it was made for, 0 once that was dropped
  local,      \* the locals of that frame
  action,     \* Action of the runtime
  pc,         \* idle, cycle, loop, handle, leave
  next,       \* what the last handler returned
  changed     \* the frames array is a new one

control == <<action, pc, next, changed>>
vars == <<globals, version, based, stack, combined, running, local, control>>

Empty == [x \in Names |-> ABSENT]
NoMap == [x \in Names |-> ABSENT]
Cell == Values \cup {UNDEF, ABSENT}
Store == [Names -> Cell]

ASSUME NullAssumption == NULL \notin Store

Has(store, x) == store[x] # ABSENT

\* Store.merge
Over(store, new) == [x \in Names |-> IF Has(new, x) THEN new[x] ELSE store[x]]

\* mapStores: what is missing is mapped to undefined.
Mapped(map, from) ==
  [x \in Names |-> IF map[x] = ABSENT THEN ABSENT
                   ELSE IF Has(from, map[x]) THEN from[map[x]] ELSE UNDEF]

Sources(map) == {x \in Names : map[x] # ABSENT}

\* What a node id points to: a function step, another step, or nothing.  One
\* that is undefined becomes the flow's first when the flow is entered.
Nodes == {"step", "function", "null"}

Nowhere == {"null", "unset"}

Frame == [diagram : Diagrams, at : Nodes \cup Nowhere, hydrated : BOOLEAN,
          locals : Store, outputs : Maps \cup {NoMap}, given : SUBSET Names]

\* given: history, the names that came to the flow from without.
NewFrame(d, at) ==
  [diagram |-> d, at |-> at, hydrated |-> FALSE, locals |-> Empty, outputs |-> NoMap, given |-> {}]

ASSUME VariablesAssumption ==
  /\ Default \in Values
  /\ UNDEF \notin Values /\ ABSENT \notin Values \cup Names /\ UNDEF # ABSENT
  /\ Declared \in [Versions -> [Diagrams -> SUBSET Names]]
  /\ VersionNames \in [Versions -> SUBSET Names]
  /\ Maps \subseteq [Names -> Names \cup {ABSENT}]
  /\ Prepared \in [Versions -> [flows : Seq(Frame), globals : Store]]
  /\ Writes \subseteq Store
  /\ MaxStack \in Nat \ {0}
  /\ \A v \in Versions : Len(Prepared[v].flows) <= MaxStack

Top == stack[Len(stack)]
-----------------------------------------------------------------------------
(* A turn.                                                                 *)

\* What a stored session makes of undefined: it is kept, lost, or a value.
Stored(store, lost) == [x \in Names |-> IF store[x] = UNDEF THEN lost ELSE store[x]]

\* initializeVariables: what is set in the session goes over the defaults.
Initialized(v, store) ==
  [x \in Names |-> IF x \in VersionNames[v] /\ ~Has(store, x) THEN Default ELSE store[x]]

\* The session of a version: the stack it has prepared, with what is on it, or
\* else its root flow.
Generated(v) ==
  [k \in DOMAIN Prepared[v].flows |->
     [Prepared[v].flows[k] EXCEPT !.hydrated = FALSE, !.given = {x \in Names : Has(Prepared[v].flows[k].locals, x)}]]

\* A stored frame in a turn on version v, which may come to declare its names.
Restored(f, v, lost) ==
  [f EXCEPT !.hydrated = FALSE, !.locals = Stored(@, lost),
            !.given = @ \cup {x \in VersionNames[v] \ VersionNames[version] : Has(f.locals, x)}]

\* What a turn is started with: a launch, nothing, or what a step may take.
Requests == {"launch", "none", "other"}

\* A launch, and a new version that finds another's base frame, start the stack
\* anew; the variables stay.  Then the base frame is injected, if it can be loaded.
StartTurn(v, request, lost, loaded) ==
  LET anew == request = "launch" \/ (stack = <<>> /\ ~based) \/ (based /\ v # version)
      stored == Stored(globals, lost)
  IN /\ pc = "idle"
     /\ version' = v
     /\ based' = ((~anew /\ based) \/ loaded)
     /\ stack' = IF anew THEN Generated(v) ELSE [k \in DOMAIN stack |-> Restored(stack[k], v, lost)]
     /\ globals' = Initialized(v, IF anew THEN Over(Prepared[v].globals, stored) ELSE stored)
     /\ action' = IF request = "other" THEN "REQUEST" ELSE "RUNNING"
     /\ pc' = "cycle"
     /\ UNCHANGED <<combined, running, local, next, changed>>

\* cycleStack enters the flow on top.
EnterFrame ==
  /\ pc = "cycle" /\ stack # <<>>
  /\ LET hydrated == IF Top.hydrated THEN Top.locals
                     ELSE [x \in Names |-> IF x \in Declared[version][Top.diagram] /\ Top.locals[x] \in {UNDEF, ABSENT}
                                           THEN Default ELSE Top.locals[x]]
         at == IF ~Top.hydrated /\ Top.at = "unset" THEN "step" ELSE Top.at
     IN /\ stack' = [stack EXCEPT ![Len(stack)] = [@ EXCEPT !.at = at, !.locals = hydrated, !.hydrated = TRUE]]
        /\ local' = hydrated
        /\ combined' = Over(globals, hydrated)
  /\ running' = Len(stack)
  /\ pc' = "loop"
  /\ changed' = FALSE /\ next' = NULL
  /\ UNCHANGED <<globals, version, based, action>>

\* No flow is left, and the base frame is flushed; or STACK_OVERFLOW flows have
\* been entered, or the next one cannot be loaded.
EndTurn ==
  /\ pc = "cycle"
  /\ pc' = "idle" /\ action' = "IDLE"
  /\ based' \in IF stack = <<>> THEN {FALSE, based} ELSE {based}
  /\ UNCHANGED <<globals, version, stack, combined, running, local, next, changed>>

\* Faulty variant: all that the steps have seen is made local.
SavedLocalAll == combined

\* saveCombinedVariables: locals are what is one already or is nowhere else.
SavedLocal == [x \in Names |-> IF Has(local, x) \/ ~Has(globals, x) THEN combined[x] ELSE local[x]]

SavedGlobals == [x \in Names |-> IF Has(local, x) \/ ~Has(globals, x) THEN globals[x] ELSE combined[x]]

\* pop and the outputs map, of a flow that finishes.
Finished(s) ==
  LET rest == SubSeq(s, 1, Len(s) - 1)
      map == s[Len(s)].outputs
  IN [k \in DOMAIN rest |->
        IF k = Len(rest) THEN [rest[k] EXCEPT !.locals = Over(@, Mapped(map, combined)), !.given = @ \cup Sources(map)]
        ELSE rest[k]]

\* Faulty variant: what was combined is saved in the flow on top.
LeaveFrameOnTop ==
  /\ pc = "leave"
  /\ LET saved == IF stack = <<>> THEN stack ELSE [stack EXCEPT ![Len(stack)].locals = SavedLocal]
     IN stack' = IF action = "END" \/ changed THEN saved ELSE Finished(saved)
  /\ globals' = SavedGlobals
  /\ combined' = NULL /\ running' = 0 /\ local' = Empty /\ next' = NULL /\ changed' = FALSE
  /\ IF action = "END" THEN pc' = "idle" /\ action' = "IDLE" ELSE pc' = "cycle" /\ UNCHANGED action
  /\ UNCHANGED <<version, based>>

\* cycleStack after the handlers: save, and go on unless the turn has ended.
LeaveFrame ==
  /\ pc = "leave"
  /\ LET saved == IF running = 0 THEN stack ELSE [stack EXCEPT ![running].locals = SavedLocal]
     IN stack' = IF action = "END" \/ changed THEN saved ELSE Finished(saved)
  /\ globals' = SavedGlobals
  /\ combined' = NULL /\ running' = 0 /\ local' = Empty /\ next' = NULL /\ changed' = FALSE
  /\ IF action = "END" THEN pc' = "idle" /\ action' = "IDLE" ELSE pc' = "cycle" /\ UNCHANGED action
  /\ UNCHANGED <<version, based>>
-----------------------------------------------------------------------------
(* The handlers' loop.                                                     *)

\* Time is up: the node id stays where it was, whatever was returned.
Timeout ==
  /\ pc = "loop"
  /\ action' = "END"
  /\ next' = NULL
  /\ pc' = "leave"
  /\ UNCHANGED <<globals, version, based, stack, combined, running, local, changed>>

\* setNodeID(nextID); without a node the frame is left.
Arrive ==
  /\ pc = "loop"
  /\ stack' = IF next = NULL THEN stack ELSE [stack EXCEPT ![running].at = next]
  /\ pc' = IF (IF next = NULL THEN Top.at ELSE next) \in Nowhere THEN "leave" ELSE "handle"
  /\ next' = NULL
  /\ UNCHANGED <<globals, version, based, combined, running, local, action, changed>>

\* HANDLER_OVERFLOW: the flow is left as if it had finished.
Overflow ==
  /\ pc = "loop" /\ next # NULL
  /\ next' = NULL
  /\ pc' = "leave"
  /\ UNCHANGED <<globals, version, based, stack, combined, running, local, action, changed>>

At(node) == pc = "handle" /\ Top.at = node

Requested == action = "REQUEST"

\* After the first handler the request is processed.
Consumed == IF Requested THEN "RUNNING" ELSE action

\* The handler returns a node, or null.
Returns(to) ==
  /\ action' = Consumed
  /\ next' = IF to = "null" THEN NULL ELSE to
  /\ pc' = IF to = "null" THEN "leave" ELSE "loop"
  /\ UNCHANGED <<version, based, running, local, changed>>

\* It returns its own node, or ends the turn itself.
Stops ==
  /\ action' = "END"
  /\ pc' = "leave"
  /\ UNCHANGED <<version, based, next, running, local, changed>>

\* The handler leaves k frames of the stack in s and returns null.
Unwound(k, s) ==
  /\ stack' = s
  /\ running' = IF running <= k THEN running ELSE 0
  /\ changed' = TRUE
  /\ pc' = "leave"
  /\ UNCHANGED <<globals, version, local, next>>
-----------------------------------------------------------------------------
(* Steps other than functions.                                             *)

\* set: each expression is evaluated on what was there before the step, and
\* one that cannot be resolved ends the turn.
SetStep(new, fails, to) ==
  /\ At("step")
  /\ combined' = Over(combined, new)
  /\ IF fails THEN Stops ELSE Returns(to)
  /\ UNCHANGED <<globals, stack>>

\* setV2: names that are found nowhere become globals; then one program sets
\* them all or fails.
SetV2Step(new, fails, to) ==
  /\ At("step")
  /\ LET created == [x \in Names |-> IF Has(new, x) /\ ~Has(combined, x) THEN Default ELSE ABSENT]
     IN /\ globals' = Over(globals, created)
        /\ combined' = Over(Over(combined, created), IF fails THEN Empty ELSE new)
  /\ Returns(to)
  /\ UNCHANGED stack

\* code: what the program has made of the variables is merged.  So do the steps
\* that take a request with its entities.
CodeStep(new, to) ==
  /\ At("step")
  /\ combined' = Over(combined, new)
  /\ Returns(to)
  /\ UNCHANGED <<globals, stack>>

\* The step stops on itself, to wait for the user.
Wait ==
  /\ At("step")
  /\ Stops
  /\ UNCHANGED <<globals, stack, combined>>

\* flow: the caller's node id moves on and the flow is entered.
CallFlow(d, inputs, outputs, to) ==
  /\ At("step")
  /\ Len(stack) < MaxStack
  /\ action' = Consumed
  /\ Unwound(Len(stack),
       Append([stack EXCEPT ![Len(stack)].at = to],
              [NewFrame(d, "unset") EXCEPT !.locals = Mapped(inputs, combined), !.outputs = outputs, !.given = Sources(inputs)]))
  /\ UNCHANGED <<combined, based>>

\* gotoNode in another flow: what is above that flow is dropped and the flow is
\* entered once more; the base frame, or else the lowest flow, is always kept.
GoToNode(d, to) ==
  /\ At("step") /\ d # Top.diagram
  /\ \E k \in 0..Len(stack) :
       /\ k < MaxStack
       /\ \/ k # 0 /\ stack[k].diagram = d /\ \A j \in 1..(k - 1) : stack[j].diagram # d
          \/ k = (IF based THEN 0 ELSE 1) /\ \A j \in DOMAIN stack : stack[j].diagram # d
       /\ Unwound(k, Append(SubSeq(stack, 1, k), NewFrame(d, to)))
  /\ action' = Consumed
  /\ UNCHANGED <<combined, based>>

\* reset: all but the lowest frame is dropped.  The base frame then ends the
\* session; a flow starts over, if it was not entered in this turn.
ResetStep ==
  /\ At("step")
  /\ \/ based /\ Unwound(0, <<>>)
     \/ ~based /\ Unwound(1, <<[stack[1] EXCEPT !.at = "unset"]>>)
  /\ action' = Consumed
  /\ UNCHANGED <<combined, based>>

\* end: flows whose node id points to nothing are dropped with the one on top,
\* and the base frame, whose node id never does, with the last of them.
EndStep ==
  /\ At("step")
  /\ \E k \in 0..(Len(stack) - 1) :
       /\ k # 0 => stack[k].at \notin Nowhere
       /\ \A j \in (k + 1)..(Len(stack) - 1) : stack[j].at \in Nowhere
       /\ Unwound(k, SubSeq(stack, 1, k))
       /\ based' = (based /\ k # 0)
  /\ action' = "END"
  /\ UNCHANGED combined

\* A command takes the request, with its entities: it pushes a flow, drops what
\* is above frame k to go on there or in another flow, or names no flow.  Frame 0
\* is the base frame; where it is left on top the session ends.
Command(new, k, d, to) ==
  /\ At("step") /\ Requested
  /\ combined' = Over(combined, new)
  /\ action' = Consumed
  /\ k \in DOMAIN stack \/ (k = 0 /\ based)
  /\ \/ k = Len(stack) /\ k < MaxStack /\ Unwound(k, Append(stack, NewFrame(d, "unset")))
     \/ k = 0 /\ Unwound(0, <<>>)
     \/ k # 0 /\ Unwound(k, [SubSeq(stack, 1, k) EXCEPT ![k].at = to])
     \/ (k # 0 => d # stack[k].diagram) /\ k < MaxStack /\ Unwound(k, Append(SubSeq(stack, 1, k), NewFrame(d, to)))
     \/ pc' = "leave" /\ UNCHANGED <<globals, version, stack, running, local, next, changed>>
  /\ UNCHANGED based
-----------------------------------------------------------------------------
(* The function step.                                                      *)

\* Without a request the function is run: applyOutputCommand, and it goes on or
\* listens.
RunFunction(new, to) ==
  /\ At("function") /\ ~Requested
  /\ globals' = Over(globals, new)
  /\ combined' = Over(combined, new)
  /\ Returns(to) \/ Stops
  /\ UNCHANGED stack

\* With one, the path of the request or the transfers it listens for name where
\* it goes on; what throws goes nowhere.
ResumeFunction(to) ==
  /\ At("function") /\ Requested
  /\ Returns(to)
  /\ UNCHANGED <<globals, stack, combined>>
-----------------------------------------------------------------------------
Init ==
  /\ globals = Empty
  /\ version \in Versions /\ based = FALSE
  /\ stack = <<>>
  /\ combined = NULL /\ running = 0 /\ local = Empty
  /\ action = "IDLE" /\ pc = "idle" /\ next = NULL /\ changed = FALSE

Next ==
  \/ \E v \in Versions, request \in Requests, lost \in Cell, loaded \in BOOLEAN :
       StartTurn(v, request, lost, loaded)
  \/ EnterFrame \/ EndTurn \/ LeaveFrame \/ Timeout \/ Overflow \/ Arrive
  \/ \E new \in Writes, to \in Nodes :
       \/ CodeStep(new, to) \/ RunFunction(new, to)
       \/ \E fails \in BOOLEAN : SetStep(new, fails, to) \/ SetV2Step(new, fails, to)
       \/ \E d \in Diagrams, k \in 0..MaxStack : Command(new, k, d, to)
  \/ \E d \in Diagrams, to \in Nodes :
       \/ GoToNode(d, to)
       \/ \E inputs, outputs \in Maps : CallFlow(d, inputs, outputs, to)
  \/ ResetStep \/ EndStep \/ Wait \/ \E to \in Nodes : ResumeFunction(to)

Spec == Init /\ [][Next]_vars
-----------------------------------------------------------------------------
\* Every variable holds a value of its kind, and the frame that runs is one of
\* the stack unless it was dropped.
TypeOK ==
  /\ globals \in Store /\ local \in Store
  /\ version \in Versions /\ based \in BOOLEAN
  /\ stack \in Seq(Frame) /\ Len(stack) <= MaxStack
  /\ combined \in Store \cup {NULL}
  /\ running \in 0..Len(stack)
  /\ action \in {"IDLE", "REQUEST", "RUNNING", "END"}
  /\ pc \in {"idle", "cycle", "loop", "handle", "leave"}
  /\ next \in Nodes \cup {NULL}
  /\ changed \in BOOLEAN

\* A variable of the version is hidden from a flow only by the flow's own
\* declaration or by what came to the flow from without: a map of a flow step, a
\* prepared session, or a new version that declares a name the flow had before.
\* No step that assigns it, in whatever flow and however the stack changes under
\* it, makes a local of it.
HidesOnlyGiven ==
  \A k \in DOMAIN stack :
    \A x \in VersionNames[version] :
      Has(stack[k].locals, x) =>
        \/ x \in stack[k].given
        \/ \E v \in Versions : x \in Declared[v][stack[k].diagram]

\* Seen as scopes: what the steps have assigned is where it will be saved.
SeenGlobals == IF combined = NULL THEN globals ELSE SavedGlobals

SeenStore(k) == IF combined # NULL /\ k = running THEN SavedLocal ELSE stack[k].locals

SeenScopes == [k \in DOMAIN stack |-> [store |-> SeenStore(k), outputs |-> stack[k].outputs]]

\* What flows may declare, and the scopes a session may start with.
Declarations == {Declared[v][d] : v \in Versions, d \in Diagrams}

Scoped(s) == [k \in DOMAIN s |-> [store |-> s[k].locals, outputs |-> s[k].outputs]]

Starts == {Scoped(Prepared[v].flows) : v \in Versions}

Seen == INSTANCE Scopes WITH globals <- SeenGlobals, scopes <- SeenScopes

\* The combined store cannot be told from scopes that are written at once.
ImplementsScopes == Seen!Spec

=============================================================================
