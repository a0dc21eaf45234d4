------------------------ MODULE EntityFilling_proofs ------------------------
(***************************************************************************)
(* The invariants of EntityFilling, for every project.  What makes them    *)
(* inductive is where the collected entities are: while they are kept,     *)
(* they are in the store or, when it was emptied, in the request on its    *)
(* way.                                                                    *)
(***************************************************************************)
EXTENDS EntityFilling, TLAPS

\* What is asked for is missing from the request in the store.
AskedIsMissing ==
  asked # NULL =>
    /\ stored # NULL
    /\ delegated = NULL
    /\ asked.intent = stored.intent
    /\ asked.entity \in Missing(stored)

\* The capture's intent can be asked for in full.
Promptable == Required[Captures[node]] \subseteq Prompted

\* Request r carries what was kept.
Carries(r) == r # NULL /\ r.intent = Captures[node] /\ kept \subseteq r.entities

KeptIsCarried ==
  kept # {} /\ Promptable => IF stored # NULL THEN Carries(stored) ELSE Carries(delegated)

\* A GOTO request is only delegated while passes are left.
PassesLeft == delegated # NULL => turns < MaxTurns

IInv ==
  /\ TypeOK
  /\ StoredIsOpen
  /\ GoToMeetsNoOther
  /\ AskedIsMissing
  /\ KeptIsCarried
  /\ PassesLeft

\* What a step matches is complete or was overlooked.
Filled == matched' # NULL => Missing(matched') = {} \/ Overlooked(matched'.intent)

\* A pass counts.
Turn == turns' \in 1..MaxTurns

\* What request r and prior intent p have to satisfy for the kept entities to
\* survive their completion.
Survives(r, p, anew) ==
  kept # {} /\ Promptable =>
    /\ ~anew /\ r.intent = Captures[node] => kept \subseteq r.entities
    /\ r.intent = Captures[node] \/ Carries(p)

USE ModelAssumption, NullAssumption

\* Requests are made of requests.
LEMMA Elicited ==
  ASSUME NEW r \in Request, NEW b \in BOOLEAN
  PROVE  /\ [r EXCEPT !.elicit = b] \in Request
         /\ [r EXCEPT !.elicit = b].intent = r.intent
         /\ [r EXCEPT !.elicit = b].entities = r.entities
BY DEF Request

LEMMA Extended ==
  ASSUME NEW r \in Request, NEW es \in SUBSET Entities
  PROVE  /\ [r EXCEPT !.entities = @ \cup es] \in Request
         /\ [r EXCEPT !.entities = @ \cup es].intent = r.intent
         /\ [r EXCEPT !.entities = @ \cup es].entities = r.entities \cup es
BY DEF Request

LEMMA Bare ==
  ASSUME NEW n \in Nodes, Captures[n] # NULL, NEW b \in BOOLEAN
  PROVE  /\ Filling(Captures[n], {}, b) \in Request
         /\ Filling(Captures[n], {}, b).intent = Captures[n]
         /\ Filling(Captures[n], {}, b).entities = {}
BY DEF Request, Filling, IntentOrNone

LEMMA NoneType == None \in Request /\ Missing(None) = {}
BY DEF Request, None, IntentOrNone, Missing

\* Where the session waits on a node.
LEMMA WaitStep ==
  ASSUME NEW m \in Nodes, WaitOn(m), Turn
  PROVE  /\ node' \in Nodes /\ fresh' \in BOOLEAN /\ counted' = FALSE
         /\ delegated' \in Request \cup {NULL} /\ PassesLeft'
<1>1. CASE Captures[m] = NULL
  BY <1>1 DEF WaitOn, NoGoTo, PassesLeft
<1>2. CASE Captures[m] # NULL
  <2>1. Filling(Captures[m], {}, TRUE) \in Request
    BY <1>2, Bare
  <2> QED BY <1>2, <2>1 DEF WaitOn, GoTo, PassesLeft
<1> QED BY <1>1, <1>2

\* Where a node is visited or the program ends: the session waits on a capture
\* that was asked for, or nothing is delegated.
LEMMA VisitStep ==
  ASSUME NEW m \in Nodes \cup {NULL}, Visit(m), Turn, counted \in BOOLEAN
  PROVE  /\ node' \in Nodes /\ fresh' \in BOOLEAN /\ counted' \in BOOLEAN
         /\ delegated' \in Request \cup {NULL} /\ PassesLeft'
         /\ ~(counted' /\ delegated' # NULL)
<1>1. CASE m = NULL
  BY <1>1 DEF Visit, End, NoGoTo, PassesLeft
<1>2. CASE m # NULL
  BY <1>2, WaitStep DEF Visit
<1> QED BY <1>1, <1>2

\* The request an unmatched utterance has delegated.
LEMMA NextRequestType ==
  ASSUME NEW n \in Nodes, Captures[n] # NULL, NEW p \in Request \cup {NULL}
  PROVE  /\ NextRequest(n, p) \in Request
         /\ NextRequest(n, p).intent = Captures[n]
         /\ p # NULL /\ p.intent = Captures[n] => p.entities \subseteq NextRequest(n, p).entities
<1>1. CASE p # NULL /\ p.intent = Captures[n] /\ p.entities # {}
  BY <1>1 DEF NextRequest
<1>2. CASE ~(p # NULL /\ p.intent = Captures[n] /\ p.entities # {})
  <2>1. NextRequest(n, p) = Filling(Captures[n], {}, FALSE)
    BY <1>2 DEF NextRequest
  <2> QED BY <1>2, <2>1, Bare
<1> QED BY <1>1, <1>2

\* An unmatched utterance at a capture: the counter tells whether the session
\* stays, and then the prior intent is passed on.
LEMMA MissStep ==
  ASSUME NEW n \in Nodes, n = node, Captures[n] # NULL, counted \in BOOLEAN,
         prior' \in Request \cup {NULL}, CaptureMiss(n), Turn
  PROVE  /\ node' \in Nodes /\ fresh' \in BOOLEAN /\ counted' \in BOOLEAN
         /\ delegated' \in Request \cup {NULL} /\ PassesLeft'
         /\ counted' /\ delegated' # NULL =>
              /\ delegated'.intent = Captures[n]
              /\ prior' # NULL /\ prior'.intent = Captures[n] =>
                   prior'.entities \subseteq delegated'.entities
<1> DEFINE next == NextRequest(n, prior')
<1>1. /\ next \in Request /\ next.intent = Captures[n]
      /\ prior' # NULL /\ prior'.intent = Captures[n] => prior'.entities \subseteq next.entities
  BY NextRequestType
<1>2. ASSUME NEW b \in BOOLEAN, GoTo([next EXCEPT !.elicit = b])
      PROVE  /\ delegated' \in Request \cup {NULL} /\ PassesLeft'
             /\ delegated' # NULL =>
                  delegated'.intent = next.intent /\ delegated'.entities = next.entities
  BY <1>1, <1>2, Elicited DEF GoTo, PassesLeft
<1>3. ElseNode[n] \in Nodes \cup {NULL}
  OBVIOUS
<1>4. CASE ~counted /\ counted' = TRUE /\ Stay /\ GoTo([next EXCEPT !.elicit = FALSE])
  BY <1>1, <1>2, <1>4 DEF Stay
<1>5. CASE counted /\ UNCHANGED counted /\ Stay /\ GoTo([next EXCEPT !.elicit = TRUE])
  BY <1>1, <1>2, <1>5 DEF Stay
<1>6. CASE counted /\ Visit(ElseNode[n])
  BY <1>3, <1>6, VisitStep
<1> QED BY <1>4, <1>5, <1>6 DEF CaptureMiss

\* What the runtime does with a request.
LEMMA HandleStep ==
  ASSUME TypeOK, NEW r \in Request, prior' \in Request \cup {NULL}, Turn,
         Handle(node, r),
         Missing(r) = {} \/ (stored = NULL /\ ~InScope(r.intent, node))
  PROVE  /\ node' \in Nodes /\ fresh' \in BOOLEAN /\ counted' \in BOOLEAN
         /\ delegated' \in Request \cup {NULL} /\ PassesLeft'
         /\ matched' \in Request \cup {NULL}
         /\ Filled
         /\ node' = node /\ counted' /\ delegated' # NULL =>
              /\ delegated'.intent = Captures[node]
              /\ prior' # NULL /\ prior'.intent = Captures[node] =>
                   prior'.entities \subseteq delegated'.entities
<1>1. CASE Leads(node, r.intent) /\ matched' = r /\ Visit(PathNode[r.intent])
  <2>1. PathNode[r.intent] \in Nodes \cup {NULL}
    BY <1>1 DEF TypeOK, Leads
  <2>2. Missing(r) = {} \/ Overlooked(r.intent)
    BY <1>1 DEF Leads, InScope, Known, Overlooked
  <2> QED BY <1>1, <2>1, <2>2, VisitStep DEF Filled, TypeOK
<1>2. CASE r.intent = Captures[node] /\ matched' = r /\ Visit(NextNode[node])
  <2>1. NextNode[node] \in Nodes \cup {NULL}
    BY DEF TypeOK
  <2>2. Missing(r) = {}
    BY <1>2 DEF InScope
  <2> QED BY <1>2, <2>1, <2>2, VisitStep DEF Filled, TypeOK
<1>3. CASE matched' = NULL /\ Captures[node] # NULL /\ CaptureMiss(node)
  BY <1>3, MissStep DEF Filled, TypeOK
<1>4. CASE matched' = NULL /\ StayWithout
  BY <1>4 DEF TypeOK, StayWithout, Stay, NoGoTo, PassesLeft, Filled
<1>5. CASE matched' = NULL /\ Visit(ElseNode[node])
  <2>1. ElseNode[node] \in Nodes \cup {NULL}
    BY DEF TypeOK
  <2> QED BY <1>5, <2>1, VisitStep DEF Filled, TypeOK
<1> QED BY <1>1, <1>2, <1>3, <1>4, <1>5 DEF Handle

\* A request is sent on and the store is empty.
LEMMA ForwardStep ==
  ASSUME IInv, Turn, NEW r \in Request, NEW managed \in BOOLEAN,
         stored' = NULL, prior' \in Request \cup {NULL},
         Forward(r, managed),
         Missing(r) = {} \/ (stored = NULL /\ ~InScope(r.intent, node)),
         ~managed /\ kept # {} /\ Promptable => Carries(prior')
  PROVE  IInv' /\ Filled
<1>1. /\ node' \in Nodes /\ fresh' \in BOOLEAN /\ counted' \in BOOLEAN
      /\ delegated' \in Request \cup {NULL} /\ PassesLeft'
      /\ matched' \in Request \cup {NULL}
      /\ Filled
      /\ node' = node /\ counted' /\ delegated' # NULL =>
           /\ delegated'.intent = Captures[node]
           /\ prior' # NULL /\ prior'.intent = Captures[node] =>
                prior'.entities \subseteq delegated'.entities
  BY HandleStep DEF Forward, IInv
<1>2. /\ asked' = NULL /\ wordless' = FALSE
      /\ kept' = IF ~managed /\ node' = node /\ counted' /\ delegated' # NULL THEN kept ELSE {}
  BY DEF Forward
<1>3. TypeOK'
  <2>1. kept' \in SUBSET Entities
    BY <1>2 DEF IInv, TypeOK
  <2>2. turns' \in 0..MaxTurns
    BY DEF Turn
  <2> QED BY <1>1, <1>2, <2>1, <2>2 DEF TypeOK
<1>4. KeptIsCarried'
  <2> SUFFICES ASSUME kept' # {}, Promptable'  PROVE Carries(delegated)'
    BY DEF KeptIsCarried
  <2>1. ~managed /\ node' = node /\ counted' /\ delegated' # NULL /\ kept' = kept
    BY <1>2
  <2>2. Carries(prior')
    BY <2>1 DEF Promptable
  <2>3. /\ delegated'.intent = Captures[node]
        /\ prior'.entities \subseteq delegated'.entities
    BY <1>1, <2>1, <2>2 DEF Carries
  <2> QED BY <2>1, <2>2, <2>3 DEF Carries
<1>5. StoredIsOpen' /\ GoToMeetsNoOther' /\ AskedIsMissing'
  BY <1>1, <1>2 DEF StoredIsOpen, GoToMeetsNoOther, AskedIsMissing, Missing
<1> QED BY <1>1, <1>3, <1>4, <1>5 DEF IInv

\* Dialog management asks for an entity.
LEMMA AskStep ==
  ASSUME IInv, Turn, NEW r \in Request, NEW p \in Request \cup {NULL}, NEW e \in Missing(r),
         NEW anew \in BOOLEAN, Ask(r, p, e, anew), Survives(r, p, anew)
  PROVE  IInv' /\ Filled
<1> DEFINE s == [r EXCEPT !.elicit = FALSE]
<1>1. s \in Request /\ s.intent = r.intent /\ s.entities = r.entities
  BY Elicited
<1>2. /\ stored' = s /\ prior' = p /\ stored' # NULL
      /\ asked' = [intent |-> r.intent, entity |-> e]
      /\ matched' = NULL /\ delegated' = NULL
      /\ node' = node /\ fresh' = fresh /\ counted' = counted /\ wordless' = FALSE
  BY <1>1 DEF Ask, NoGoTo
<1>3. r.intent \in Intents /\ e \in Entities
  BY DEF Missing, Request, IntentOrNone
<1>4. e \in Missing(s)
  BY <1>1 DEF Missing
<1> HIDE DEF s
<1>5. TypeOK'
  <2>1. kept' \in SUBSET Entities
    BY DEF Ask, Collected, Request, IInv, TypeOK
  <2>2. turns' \in 0..MaxTurns
    BY DEF Turn
  <2>3. asked' \in [intent : Intents, entity : Entities]
    BY <1>2, <1>3
  <2>4. counted' \in BOOLEAN /\ fresh' \in BOOLEAN
    BY <1>2 DEF IInv, TypeOK
  <2> QED BY <1>1, <1>2, <2>1, <2>2, <2>3, <2>4 DEF IInv, TypeOK
<1>6. KeptIsCarried'
  <2> SUFFICES ASSUME kept' # {}, Promptable'  PROVE Carries(stored)'
    BY <1>2 DEF KeptIsCarried
  <2>1. Promptable
    BY <1>2 DEF Promptable
  <2>2. r.intent = Captures[node]
    BY DEF Ask, Collected
  <2>3. CASE anew
    BY <1>1, <1>2, <2>2, <2>3 DEF Ask, Collected, Carries
  <2>4. CASE ~anew
    <3>1. kept' = kept \cup r.entities
      BY <2>2, <2>4 DEF Ask, Collected
    <3>2. kept \subseteq r.entities
      BY <2>1, <2>2, <2>4 DEF Survives
    <3> QED BY <1>1, <1>2, <2>2, <3>1, <3>2 DEF Carries
  <2> QED BY <2>3, <2>4
<1>7. StoredIsOpen' /\ GoToMeetsNoOther' /\ AskedIsMissing' /\ PassesLeft' /\ Filled
  <2>1. Missing(stored') # {} /\ asked'.entity \in Missing(stored') /\ asked'.intent = stored'.intent
    BY <1>1, <1>2, <1>4
  <2> QED BY <1>2, <2>1 DEF StoredIsOpen, GoToMeetsNoOther, AskedIsMissing, PassesLeft, Missing, Filled
<1> QED BY <1>5, <1>6, <1>7 DEF IInv

\* Entity filling is given up.
LEMMA GiveUpStep ==
  ASSUME IInv, Turn, NEW p \in Request \cup {NULL}, GiveUp(p),
         kept # {} /\ Promptable => Carries(p)
  PROVE  IInv' /\ Filled
<1>1. stored' = NULL /\ prior' = p /\ Forward(None, FALSE)
  BY DEF GiveUp
<1> QED BY <1>1, NoneType, ForwardStep

\* The store is to hold a request.
LEMMA CompleteStep ==
  ASSUME IInv, Turn, NEW r \in Request, NEW p \in Request \cup {NULL},
         NEW elicit \in BOOLEAN, NEW anew \in BOOLEAN,
         Complete(r, p, elicit, anew), Survives(r, p, anew)
  PROVE  IInv' /\ Filled
<1>1. CASE Missing(r) = {}
  <2>1. stored' = NULL /\ prior' = NULL /\ Forward(r, TRUE)
    BY <1>1 DEF Complete
  <2> QED BY <1>1, <2>1, ForwardStep
<1>2. CASE Missing(r) # {}
  <2>1. PICK e \in Missing(r) :
          IF elicit \/ e \in Prompted THEN Ask(r, p, e, anew) ELSE GiveUp(p)
    BY <1>2 DEF Complete, AskOrGiveUp
  <2>2. CASE elicit \/ e \in Prompted
    BY <2>1, <2>2, AskStep
  <2>3. CASE e \notin Prompted /\ GiveUp(p)
    <3>1. e \in Required[r.intent]
      BY DEF Missing
    <3>2. kept # {} /\ Promptable => Carries(p)
      BY <2>3, <3>1 DEF Survives, Promptable
    <3> QED BY <2>3, <3>2, GiveUpStep
  <2> QED BY <2>1, <2>2, <2>3
<1> QED BY <1>1, <1>2

\* The stored request with entities of another one.
LEMMA MergedStep ==
  ASSUME IInv, stored # NULL, NEW r \in Request
  PROVE  /\ Merged(r) \in Request
         /\ kept # {} /\ Promptable => Carries(Merged(r))
<1>1. stored \in Request /\ r.entities \in SUBSET Entities
  BY DEF IInv, TypeOK, Request
<1>2. /\ Merged(r) \in Request /\ Merged(r).intent = stored.intent
      /\ Merged(r).entities = stored.entities \cup r.entities
  BY <1>1, Extended DEF Merged
<1>3. kept # {} /\ Promptable => Carries(stored)
  BY DEF IInv, KeptIsCarried
<1> QED BY <1>2, <1>3 DEF Carries

\* The prefixed prediction has been made.
LEMMA InContextStep ==
  ASSUME IInv, Turn, stored # NULL, NEW r \in Request, NEW p \in Predictions, InContext(r, p)
  PROVE  IInv' /\ Filled
<1> DEFINE open == Merged(r)
           more == [open EXCEPT !.entities = @ \cup Extracted(p)]
<1>1. open \in Request /\ (kept # {} /\ Promptable => Carries(open))
  BY MergedStep
<1>2. r.elicit \in BOOLEAN
  BY DEF Request
<1>3. Extracted(p) \in SUBSET Entities
  BY DEF Extracted, Predictions
<1>4. /\ more \in Request /\ more.intent = open.intent
      /\ more.entities = open.entities \cup Extracted(p)
  BY <1>1, <1>3, Extended
<1> HIDE DEF more
<1>5. Survives(more, more, FALSE)
  BY <1>1, <1>4 DEF Survives, Carries
<1>6. Survives(r, open, TRUE)
  BY <1>1 DEF Survives
<1>7. CASE Complete(more, more, r.elicit, FALSE)
  BY <1>2, <1>4, <1>5, <1>7, CompleteStep
<1>8. CASE Complete(r, open, r.elicit, TRUE)
  BY <1>1, <1>2, <1>6, <1>8, CompleteStep
<1>9. CASE GiveUp(open)
  BY <1>1, <1>9, GiveUpStep
<1> QED BY <1>7, <1>8, <1>9 DEF InContext, more

\* A pass of dialog management and the runtime.
LEMMA DialogStep ==
  ASSUME IInv, Turn, NEW r \in Request, NEW ownTurn \in BOOLEAN, Dialog(r, ownTurn),
         stored = NULL /\ kept # {} /\ Promptable => Carries(r)
  PROVE  IInv' /\ Filled
<1>1. r.elicit \in BOOLEAN
  BY DEF Request
<1>2. CASE stored = NULL
  <2>1. CASE InScope(r.intent, node) /\ Complete(r, NULL, r.elicit, ownTurn)
    <3>1. Survives(r, NULL, ownTurn)
      BY <1>2 DEF Survives, Carries
    <3> QED BY <1>1, <2>1, <3>1, CompleteStep
  <2>2. CASE ~InScope(r.intent, node) /\ UNCHANGED dm /\ Forward(r, FALSE)
    <3>1. ~(kept # {} /\ Promptable)
      BY <1>2, <2>2 DEF InScope, Carries
    <3>2. stored' = NULL /\ prior' \in Request \cup {NULL}
      BY <1>2, <2>2 DEF dm, IInv, TypeOK
    <3> QED BY <1>2, <2>2, <3>1, <3>2, ForwardStep
  <2> QED BY <1>2, <2>1, <2>2 DEF Dialog, OutOfContext
<1>3. CASE stored # NULL
  <2>1. Merged(r) \in Request /\ (kept # {} /\ Promptable => Carries(Merged(r)))
    BY <1>3, MergedStep
  <2>2. Survives(Merged(r), Merged(r), FALSE) /\ Survives(r, Merged(r), TRUE)
    BY <2>1 DEF Survives, Carries
  <2>3. CASE Complete(Merged(r), Merged(r), r.elicit, FALSE)
    BY <1>1, <2>1, <2>2, <2>3, CompleteStep
  <2>4. CASE PredictionFails(r)
    BY <1>1, <2>1, <2>2, <2>4, CompleteStep DEF PredictionFails
  <2>5. CASE \E p \in Predictions : InContext(r, p)
    BY <1>3, <2>5, InContextStep
  <2> QED BY <1>3, <2>3, <2>4, <2>5 DEF Dialog
<1> QED BY <1>2, <1>3

LEMMA Initially == Init => IInv
<1> SUFFICES ASSUME Init PROVE IInv
  OBVIOUS
<1>1. TypeOK
  <2>1. Begin \in Nodes /\ 0 \in 0..MaxTurns
    OBVIOUS
  <2>2. fresh \in BOOLEAN /\ counted \in BOOLEAN /\ wordless \in BOOLEAN
    BY DEF Init
  <2> QED BY <2>1, <2>2 DEF Init, TypeOK
<1>2. StoredIsOpen /\ GoToMeetsNoOther /\ AskedIsMissing /\ KeptIsCarried /\ PassesLeft
  BY DEF Init, StoredIsOpen, GoToMeetsNoOther, AskedIsMissing, KeptIsCarried, PassesLeft
<1> QED BY <1>1, <1>2 DEF IInv

LEMMA UtterStep == IInv /\ Utter => IInv' /\ Filled
<1> SUFFICES ASSUME IInv, Utter PROVE IInv' /\ Filled
  OBVIOUS
<1>1. delegated = NULL /\ Turn
  BY DEF Utter, Turn
<1>2. PICK r \in Utterances : Dialog(r, TRUE)
  BY DEF Utter
<1>3. r \in Request
  BY DEF Utterances
<1>4. ~(stored = NULL /\ kept # {} /\ Promptable)
  BY <1>1 DEF IInv, KeptIsCarried, Carries
<1> QED BY <1>1, <1>2, <1>3, <1>4, DialogStep

\* A request without an intent leaves the store as it is.
LEMMA WordlessStep ==
  ASSUME IInv, Wordless,
         node' \in Nodes, fresh' \in BOOLEAN, counted' \in BOOLEAN,
         delegated' \in Request \cup {NULL}, PassesLeft',
         kept' = {} \/ (kept' = kept /\ node' = node /\ delegated' = NULL)
  PROVE  IInv' /\ Filled
<1>1. /\ delegated = NULL /\ stored' = stored /\ prior' = prior /\ turns' \in 0..MaxTurns
      /\ asked' = NULL /\ matched' = NULL /\ wordless' = TRUE
  BY DEF Wordless, dm
<1>2. TypeOK'
  <2>1. kept' \in SUBSET Entities
    BY DEF IInv, TypeOK
  <2>2. wordless' \in BOOLEAN
    BY <1>1
  <2> QED BY <1>1, <2>1, <2>2 DEF IInv, TypeOK
<1>3. StoredIsOpen' /\ GoToMeetsNoOther' /\ AskedIsMissing' /\ Filled
  BY <1>1 DEF IInv, StoredIsOpen, GoToMeetsNoOther, AskedIsMissing, Missing, Filled
<1>4. KeptIsCarried'
  BY <1>1 DEF IInv, KeptIsCarried, Promptable, Carries
<1> QED BY <1>2, <1>3, <1>4 DEF IInv

LEMMA SilenceStep == IInv /\ Silence => IInv' /\ Filled
<1> SUFFICES ASSUME IInv, Silence PROVE IInv' /\ Filled
  OBVIOUS
<1>1. Wordless /\ Turn
  BY DEF Silence, Wordless, Turn
<1>2. CASE StayWithout /\ UNCHANGED kept
  BY <1>1, <1>2, WordlessStep DEF StayWithout, Stay, NoGoTo, PassesLeft, IInv, TypeOK
<1>3. CASE Visit(ElseNode[node]) /\ kept' = {}
  BY <1>1, <1>3, VisitStep, WordlessStep DEF IInv, TypeOK
<1> QED BY <1>2, <1>3 DEF Silence

LEMMA PressStep == IInv /\ Press => IInv' /\ Filled
<1> SUFFICES ASSUME IInv, Press PROVE IInv' /\ Filled
  OBVIOUS
<1>1. Wordless /\ Turn /\ kept' = {}
  BY DEF Press, Wordless, Turn
<1>2. node \in Nodes /\ counted \in BOOLEAN /\ prior' \in Request \cup {NULL}
  BY <1>1 DEF Wordless, dm, IInv, TypeOK
<1>3. CASE \E i \in Paths[node] \cup Customs[node] \cup Commands : Visit(PathNode[i])
  <2>1. PICK m \in Nodes \cup {NULL} : Visit(m)
    BY <1>2, <1>3
  <2> QED BY <1>1, <1>2, <2>1, VisitStep, WordlessStep
<1>4. CASE Captures[node] # NULL /\ CaptureMiss(node)
  BY <1>1, <1>2, <1>4, MissStep, WordlessStep
<1>5. CASE WaitOn(node)
  BY <1>1, <1>2, <1>5, WaitStep, WordlessStep
<1>6. CASE StayWithout
  BY <1>1, <1>2, <1>6, WordlessStep DEF StayWithout, Stay, NoGoTo, PassesLeft
<1>7. CASE Visit(ElseNode[node])
  BY <1>1, <1>2, <1>7, VisitStep, WordlessStep
<1> QED BY <1>3, <1>4, <1>5, <1>6, <1>7 DEF Press

LEMMA LaunchStep == IInv /\ Launch => IInv' /\ Filled
<1> SUFFICES ASSUME IInv, Launch PROVE IInv' /\ Filled
  OBVIOUS
<1>1. /\ Turn /\ stored' = NULL /\ prior' = NULL /\ asked' = NULL /\ matched' = NULL
      /\ kept' = {} /\ wordless' = FALSE /\ turns' \in 0..MaxTurns
  BY DEF Launch, Turn
<1>2. /\ node' \in Nodes /\ fresh' \in BOOLEAN /\ counted' \in BOOLEAN
      /\ delegated' \in Request \cup {NULL} /\ PassesLeft'
  BY <1>1, VisitStep DEF Launch, IInv, TypeOK
<1>3. TypeOK'
  BY <1>1, <1>2 DEF TypeOK
<1>4. StoredIsOpen' /\ GoToMeetsNoOther' /\ AskedIsMissing' /\ KeptIsCarried' /\ Filled
  BY <1>1 DEF StoredIsOpen, GoToMeetsNoOther, AskedIsMissing, KeptIsCarried, Filled
<1> QED BY <1>2, <1>3, <1>4 DEF IInv

LEMMA UpgradeStep == IInv /\ Upgrade => IInv' /\ Filled
<1> SUFFICES ASSUME IInv, Upgrade PROVE IInv' /\ Filled
  OBVIOUS
<1>1. /\ node' = Begin /\ fresh' = TRUE /\ asked' = NULL /\ matched' = NULL /\ kept' = {}
      /\ stored' = stored /\ prior' = prior /\ counted' = counted
      /\ delegated' = NULL /\ turns' = turns /\ wordless' = wordless
  BY DEF Upgrade, dm
<1>2. TypeOK'
  BY <1>1 DEF IInv, TypeOK
<1>3. StoredIsOpen' /\ GoToMeetsNoOther' /\ AskedIsMissing' /\ KeptIsCarried' /\ PassesLeft' /\ Filled
  BY <1>1 DEF IInv, StoredIsOpen, GoToMeetsNoOther, AskedIsMissing, KeptIsCarried, PassesLeft,
     Filled, Missing
<1> QED BY <1>2, <1>3 DEF IInv

LEMMA DelegateStep == IInv /\ Delegate => IInv' /\ Filled
<1> SUFFICES ASSUME IInv, Delegate PROVE IInv' /\ Filled
  OBVIOUS
<1>1. delegated \in Request /\ Dialog(delegated, FALSE)
  BY DEF Delegate, IInv, TypeOK
<1>2. Turn
  <2>1. turns \in Nat /\ turns < MaxTurns /\ turns' = turns + 1
    BY DEF Delegate, IInv, TypeOK, PassesLeft
  <2> QED BY <2>1 DEF Turn
<1>3. stored = NULL /\ kept # {} /\ Promptable => Carries(delegated)
  BY DEF IInv, KeptIsCarried
<1> QED BY <1>1, <1>2, <1>3, DialogStep

LEMMA StutterStep == IInv /\ UNCHANGED vars => IInv'
BY DEF vars, dm, history, IInv, TypeOK, StoredIsOpen, GoToMeetsNoOther, AskedIsMissing,
       KeptIsCarried, PassesLeft, Promptable, Carries, Missing

\* For every project: the types; the DM store holds no finished intent; what
\* is collected is carried, by the store or the request on its way.
THEOREM Inductive == Spec => []IInv
<1>1. IInv /\ [Next]_vars => IInv'
  BY UtterStep, DelegateStep, SilenceStep, PressStep, LaunchStep, UpgradeStep, StutterStep DEF Next
<1> QED BY Initially, <1>1, PTL DEF Spec

\* For every project an intent in the store still misses an entity
\* (dialog/index.ts:230-325 clears it when it is complete).
THEOREM StoreIsOpen == Spec => []StoredIsOpen
<1>1. IInv => StoredIsOpen
  BY DEF IInv
<1> QED BY <1>1, Inductive, PTL

\* For every project a GOTO request that answers an intent meets no other intent
\* being filled.
THEOREM GoToIsTaken == Spec => []GoToMeetsNoOther
<1>1. IInv => GoToMeetsNoOther
  BY DEF IInv
<1> QED BY <1>1, Inductive, PTL

\* For every project what the runtime matches is complete, but for what dialog
\* management overlooked.
THEOREM RuntimeGetsFilled == Spec => MatchedIsFilled
<1>1. IInv /\ [Next]_vars =>
        [matched' # NULL => Missing(matched') = {} \/ Overlooked(matched'.intent)]_vars
  BY UtterStep, DelegateStep, SilenceStep, PressStep, LaunchStep, UpgradeStep DEF Next, Filled
<1> QED BY <1>1, Inductive, PTL DEF MatchedIsFilled, Spec

\* For every project a miss loses no entity of the capture's intent.
THEOREM MissKeepsEntities == Spec => []NoMatchKeepsEntities
<1>1. IInv => NoMatchKeepsEntities
  <2> SUFFICES ASSUME IInv, asked # NULL, asked.intent = Captures[node],
                      Required[asked.intent] \subseteq Prompted, asked.entity \in kept
               PROVE  FALSE
    BY DEF NoMatchKeepsEntities
  <2>1. stored # NULL /\ asked.entity \in Missing(stored)
    BY DEF IInv, AskedIsMissing
  <2>2. kept \subseteq stored.entities
    BY <2>1 DEF IInv, KeptIsCarried, Promptable, Carries
  <2> QED BY <2>1, <2>2 DEF Missing
<1> QED BY <1>1, Inductive, PTL
=============================================================================
