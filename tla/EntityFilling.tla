---------------------------- MODULE EntityFilling ----------------------------
(***************************************************************************)
(* Filling the entities of an intent: dialog management, which stands      *)
(* before the runtime and asks for what is missing, the captureV2 node,    *)
(* which starts it and answers its misses, and the delegation of GOTO      *)
(* requests, which connects them.  What was collected lives in three       *)
(* places in turn: the DM store, its priorIntent, and the request a GOTO   *)
(* sends around.                                                           *)
(*                                                                         *)
(* An action is one pass of one request through dialog management and,     *)
(* unless that ends the pass, the runtime.  A request is its intent, the   *)
(* names of its entities and the ELICIT flag; values are left out.         *)
(***************************************************************************)
EXTENDS Integers

CONSTANTS
  Intents,      \* intents of the model
  NONE,         \* the intent of an utterance that matches none
  Entities,     \* entity names
  Slots,        \* Slots[i]: the entities of intent i
  Required,     \* Required[i]: those that have to be filled
  Prompted,     \* entities that have a prompt
  Nodes,        \* nodes a session waits on
  Start,        \* the one a launch comes to, NULL if it runs to the end
  Begin,        \* the one a new stack is at: the start node, or where a
                \* prepared stack stands
  Captures,     \* Captures[n]: the intent captureV2 node n fills, NULL on another
  NextNode,     \* NextNode[n]: where a capture that matched goes, NULL to the end
  ElseNode,     \* ElseNode[n]: where the no-match and the no-reply path go, and
                \* what follows a start node
  Paths,        \* Paths[n]: intents the interactions of node n match
  Customs,      \* Customs[n]: those that custom action or function n takes
  PathNode,     \* PathNode[i]: where they go, and where command i goes
  Commands,     \* intents that are commands
  MaxTurns,     \* MAX_DELEGATION_TURNS
  NULL

IntentOrNone == Intents \cup {NONE}

ASSUME ModelAssumption ==
  /\ NONE \notin Intents
  /\ Slots \in [Intents -> SUBSET Entities]
  /\ Required \in [Intents -> SUBSET Entities]
  /\ \A i \in Intents : Required[i] \subseteq Slots[i]
  /\ Prompted \subseteq Entities
  /\ Start \in Nodes \cup {NULL} /\ Begin \in Nodes
  /\ Captures \in [Nodes -> Intents \cup {NULL}]
  /\ NextNode \in [Nodes -> Nodes \cup {NULL}] /\ ElseNode \in [Nodes -> Nodes \cup {NULL}]
  /\ Paths \in [Nodes -> SUBSET Intents] /\ Customs \in [Nodes -> SUBSET Intents]
  /\ PathNode \in [Intents -> Nodes \cup {NULL}]
  /\ Commands \subseteq Intents
  /\ MaxTurns \in Nat \ {0}
  /\ \A n \in Nodes : Captures[n] # NULL => Paths[n] = {} /\ Customs[n] = {}
  /\ NULL \notin IntentOrNone \cup Nodes

VARIABLES
  node,       \* where the session waits
  fresh,      \* its stack is new: no program has told it its commands
  stored,     \* intentRequest of the DM store, NULL when undefined
  prior,      \* priorIntent of the DM store, NULL when undefined
  counted,    \* NO_MATCHES_COUNTER is a number
  delegated,  \* request of the GOTO trace that is passed next, or NULL
  turns,      \* passes made for the user's request
  asked,      \* what dialog management asked for in the last pass, or NULL
  matched,    \* history: the request the runtime matched in the last pass, or NULL
  kept,       \* history: what was collected for the node's intent, but for what
              \* another request was put in place of
  wordless    \* history: the request of the last pass had no intent

dm == <<stored, prior>>
history == <<matched, kept, wordless>>
vars == <<node, fresh, dm, counted, delegated, turns, asked, history>>

Request == [intent : IntentOrNone, entities : SUBSET Entities, elicit : BOOLEAN]

ASSUME NullAssumption == NULL \notin Request

None == [intent |-> NONE, entities |-> {}, elicit |-> FALSE]

Filling(i, es, elicit) == [intent |-> i, entities |-> es, elicit |-> elicit]

\* getUnfulfilledEntity: what is missing; the first of them is asked for.
Missing(r) == IF r.intent = NONE THEN {} ELSE Required[r.intent] \ r.entities

\* The commands dialog management can see in the stack.
Known == IF fresh THEN {} ELSE Commands

\* Faulty variant: the interactions of the node are forgotten.
InScopeOfCapture(i, n) == i \in Known \cup {Captures[n]}

\* isIntentInScope: the paths of a custom action are no interactions.
InScope(i, n) == i \in Known \cup Paths[n] \cup {Captures[n]}

-----------------------------------------------------------------------------
(* What the runtime does with a request it is sent.                        *)

\* A GOTO trace: passed on at once, unless it is the last pass.
GoTo(r) == delegated' = IF turns' < MaxTurns THEN r ELSE NULL

NoGoTo == delegated' = NULL

\* The program runs to its end: the next request finds an empty stack and a new
\* one is made for it, with the storage as it was.
End ==
  /\ node' = Begin /\ fresh' = TRUE
  /\ counted' \in {FALSE, counted}
  /\ NoGoTo

\* The session comes to wait on node m.  A capture asks for its intent to be
\* elicited and cleans up the counter.
WaitOn(m) ==
  /\ node' = m /\ fresh' = FALSE
  /\ counted' = FALSE
  /\ IF Captures[m] = NULL THEN NoGoTo ELSE GoTo(Filling(Captures[m], {}, TRUE))

Visit(m) == IF m = NULL THEN End ELSE WaitOn(m)

Stay == UNCHANGED node /\ fresh' = FALSE

StayWithout == Stay /\ UNCHANGED counted /\ NoGoTo

\* Faulty variant: the intent is filled from the start.
AnewRequest(n, p) == Filling(Captures[n], {}, FALSE)

\* EntityFillingNoMatchHandler: the prior intent, if it is the node's and had
\* entities, or else the bare intent.
NextRequest(n, p) ==
  IF p # NULL /\ p.intent = Captures[n] /\ p.entities # {} THEN p
  ELSE Filling(Captures[n], {}, FALSE)

\* The first miss has the prompt of the entity repeated; later ones prompt
\* themselves, until the prompts are used up (module Prompting).
CaptureMiss(n) ==
  LET next == NextRequest(n, prior') IN
  \/ /\ ~counted
     /\ counted' = TRUE /\ Stay
     /\ GoTo([next EXCEPT !.elicit = FALSE])
  \/ /\ counted
     /\ UNCHANGED counted /\ Stay
     /\ GoTo([next EXCEPT !.elicit = TRUE])
  \/ counted /\ Visit(ElseNode[n])

\* A path of node n or a command: the runtime has loaded the programs by now.
Leads(n, i) == i \in Paths[n] \cup Customs[n] \cup Commands

\* The node n the session waits on is given request r.  A start node looks for
\* a command and goes on without one (OneShotIntentHandler).
Handle(n, r) ==
  \/ Leads(n, r.intent) /\ matched' = r /\ Visit(PathNode[r.intent])
  \/ /\ ~Leads(n, r.intent) /\ r.intent = Captures[n]
     /\ matched' = r /\ Visit(NextNode[n])
  \/ /\ ~Leads(n, r.intent) /\ r.intent # Captures[n]
     /\ matched' = NULL
     /\ IF Captures[n] # NULL THEN CaptureMiss(n) ELSE StayWithout \/ Visit(ElseNode[n])

-----------------------------------------------------------------------------
(* DialogManagement.handle.                                                *)

\* What the store's request r adds to the history, or starts it with if it
\* took the place of what was there.
Collected(r, anew) ==
  kept' = IF r.intent # Captures[node] THEN {}
          ELSE IF anew THEN r.entities ELSE kept \cup r.entities

\* The request goes on to the runtime.  What was collected counts on while a
\* capture answers a miss.
Forward(r, managed) ==
  /\ asked' = NULL
  /\ Handle(node, r)
  /\ wordless' = FALSE
  /\ kept' = IF ~managed /\ node' = node /\ counted' /\ delegated' # NULL THEN kept ELSE {}

\* Dialog management asks for entity e and ends the pass.
Ask(r, p, e, anew) ==
  /\ stored' = [r EXCEPT !.elicit = FALSE]
  /\ prior' = p
  /\ asked' = [intent |-> r.intent, entity |-> e]
  /\ matched' = NULL
  /\ Collected(r, anew)
  /\ NoGoTo
  /\ wordless' = FALSE
  /\ UNCHANGED <<node, fresh, counted>>

\* Entity filling gives up: the runtime is sent the NONE intent.
GiveUp(p) == stored' = NULL /\ prior' = p /\ Forward(None, FALSE)

\* An entity with a prompt is asked for; without one only if it is elicited.
AskOrGiveUp(r, p, elicit, anew) ==
  \E e \in Missing(r) :
    IF elicit \/ e \in Prompted THEN Ask(r, p, e, anew) ELSE GiveUp(p)

\* Faulty variant: the store keeps the intent that was completed.
CompleteKeepsStore(r, p, elicit, anew) ==
  IF Missing(r) = {} THEN stored' = r /\ prior' = p /\ Forward(r, TRUE)
  ELSE AskOrGiveUp(r, p, elicit, anew)

\* The store is to hold r: send it on and clear the store, or ask.
Complete(r, p, elicit, anew) ==
  IF Missing(r) = {} THEN stored' = NULL /\ prior' = NULL /\ Forward(r, TRUE)
  ELSE AskOrGiveUp(r, p, elicit, anew)

\* Entities of the request that the stored one lacks are added to it.
Merged(r) == [stored EXCEPT !.entities = @ \cup r.entities]

\* Entities of a prefixed prediction that belong to the stored intent.
Extracted(r) == r.entities \cap Slots[stored.intent]

\* handleDMContext, for the prefixed prediction p of an incoming request r:
\* "dm" stands for an intent name with the DM prefix.
InContext(r, p) ==
  LET open == Merged(r) IN
  IF p.intent = "dm" \/ p.intent = stored.intent
    THEN IF Extracted(p) # {}
           THEN LET more == [open EXCEPT !.entities = @ \cup Extracted(p)] IN  \* B1
                Complete(more, more, r.elicit, FALSE)
           ELSE IF r.intent = NONE THEN GiveUp(open)
                ELSE Complete(r, open, r.elicit, TRUE)                         \* B2_2
    ELSE IF p.intent = r.intent /\ r.intent # NONE
           THEN Complete(r, open, r.elicit, TRUE)                              \* A1
           ELSE GiveUp(open)                                                   \* A2

\* The prediction failed: the incoming request is taken for the intent.
\* Nothing is asked of the NONE intent, so it is completed at once.
PredictionFails(r) == Complete(r, Merged(r), r.elicit, TRUE)

\* Not filling: an intent nobody here handles passes by, another one is taken
\* up.
OutOfContext(r, ownTurn) ==
  IF InScope(r.intent, node)
    THEN Complete(r, NULL, r.elicit, ownTurn)
    ELSE UNCHANGED dm /\ Forward(r, FALSE)

\* The predictor's answers to the prefixed utterance.
Predictions ==
  [intent : IntentOrNone \cup {"dm"}, entities : SUBSET Entities, elicit : {FALSE}]

Dialog(r, ownTurn) ==
  IF stored = NULL THEN OutOfContext(r, ownTurn)
  ELSE IF Missing(Merged(r)) = {} THEN Complete(Merged(r), Merged(r), r.elicit, FALSE)
  ELSE PredictionFails(r) \/ \E p \in Predictions : InContext(r, p)

\* What the NLU makes of an utterance.
Utterances == {r \in Request :
  /\ r.elicit = FALSE
  /\ r.intent = NONE => r.entities = {}
  /\ r.intent # NONE => r.entities \subseteq Slots[r.intent]}

-----------------------------------------------------------------------------
(* Passes.                                                                 *)

\* The user says something.
Utter ==
  /\ delegated = NULL
  /\ turns' = 1
  /\ \E r \in Utterances : Dialog(r, TRUE)

\* autoDelegate passes the request of a GOTO trace.
Delegate ==
  /\ delegated # NULL
  /\ turns' = turns + 1
  /\ Dialog(delegated, FALSE)

\* A request without an intent is none of dialog management's business.
Wordless ==
  /\ delegated = NULL
  /\ turns' = 1
  /\ UNCHANGED dm
  /\ asked' = NULL /\ matched' = NULL /\ wordless' = TRUE

\* A silence is prompted or takes the session elsewhere.
Silence ==
  /\ Wordless
  /\ \/ StayWithout /\ UNCHANGED kept
     \/ Visit(ElseNode[node]) /\ kept' = {}

\* A button, a path or an event leads somewhere, is a miss for a capture like an
\* utterance, or matches nothing; without any request the node runs again.
Press ==
  /\ Wordless
  /\ kept' = {}
  /\ \/ \E i \in Paths[node] \cup Customs[node] \cup Commands : Visit(PathNode[i])
     \/ Captures[node] # NULL /\ (CaptureMiss(node) \/ WaitOn(node))
     \/ Captures[node] = NULL /\ (StayWithout \/ Visit(ElseNode[node]))

\* A launch empties the storage.
Launch ==
  /\ delegated = NULL
  /\ turns' = 1
  /\ stored' = NULL /\ prior' = NULL
  /\ asked' = NULL /\ matched' = NULL
  /\ Visit(Start)
  /\ kept' = {} /\ wordless' = FALSE

\* The version is changed: the next request finds the stack of another version
\* and empties it, but not the storage.
Upgrade ==
  /\ delegated = NULL
  /\ node' = Begin /\ fresh' = TRUE
  /\ asked' = NULL /\ matched' = NULL /\ kept' = {}
  /\ UNCHANGED <<dm, counted, delegated, turns, wordless>>

Init ==
  /\ node = Begin /\ fresh = TRUE
  /\ stored = NULL /\ prior = NULL
  /\ counted = FALSE
  /\ delegated = NULL /\ turns = 0
  /\ asked = NULL /\ matched = NULL
  /\ kept = {}
  /\ wordless = FALSE

Next == Utter \/ Delegate \/ Silence \/ Press \/ Launch \/ Upgrade

Spec == Init /\ [][Next]_vars
-----------------------------------------------------------------------------
\* Every variable holds a value of its kind.
TypeOK ==
  /\ node \in Nodes /\ fresh \in BOOLEAN
  /\ stored \in Request \cup {NULL} /\ prior \in Request \cup {NULL}
  /\ counted \in BOOLEAN
  /\ delegated \in Request \cup {NULL}
  /\ turns \in 0..MaxTurns
  /\ asked \in [intent : Intents, entity : Entities] \cup {NULL}
  /\ matched \in Request \cup {NULL}
  /\ kept \in SUBSET Entities
  /\ wordless \in BOOLEAN

\* An intent in the store still misses an entity: one that is complete has
\* been sent on and cleared, whatever brought the last entity (the request
\* itself, the prefixed prediction, an intent that took its place).
StoredIsOpen == stored # NULL => Missing(stored) # {}

\* A GOTO request that answers an intent, the user's or a delegated one, meets
\* no intent that is being filled, which would swallow it.  One that answers a
\* silence, a button or an event may: dialog management does not look at those
\* (index.ts:120), so the store keeps what it had.
GoToMeetsNoOther == delegated # NULL => stored = NULL \/ wordless

\* Where dialog management sees less than the runtime: a command before the
\* stack knows its commands, an intent that is the path of a custom action.
Overlooked(i) == stored = NULL /\ ((fresh /\ i \in Commands) \/ i \in Customs[node])

\* "The Dialog Managment handler ensures the required entities in an intent
\* are filled" (documentation/dialog.md:3): what the runtime acts on, a
\* command, a path or a capture, is complete, whether it was just said, was
\* filled over several turns, or took the place of what was being filled.
\* Only an intent that is overlooked comes as it was said.
MatchedIsFilled ==
  [][matched' # NULL => Missing(matched') = {} \/ Overlooked(matched'.intent)]_vars

\* A spoken miss costs the user nothing: entities collected for the capture's intent
\* are not asked for again after a NONE, which empties the store and has them
\* come back by way of priorIntent, the GOTO trace and the delegated pass.  (Of
\* an intent that requires an entity without a prompt they may be lost there.)
NoMatchKeepsEntities ==
  asked # NULL /\ asked.intent = Captures[node] /\ Required[asked.intent] \subseteq Prompted
    => asked.entity \notin kept
=============================================================================
