-------------------------- MODULE Assistant_proofs --------------------------
(***************************************************************************)
(* A completion that comes late, for a step that was given up, is the only *)
(* one that can take the place of a later one.                             *)
(***************************************************************************)
EXTENDS Assistant, TLAPS

\* A completion under way is for the step that awaits it or for one given up.
CallsAreOwed ==
  \A c \in calls : c.step <= step /\ (c.step \in failed \/ (pc = "sets" /\ c.step = step))

\* What is held or relied on is of a step that has begun.
StepsBegan == \A v \in Vars : held[v] <= step /\ settled[v] <= step

\* While a step awaits its completions, a variable it sets whose completions
\* have all come holds one of them, or one of a step given up.
SetIsHeld ==
  pc = "sets" =>
    \A v \in setting :
      (\A c \in calls : c.step = step => c.var # v) => held[v] = step \/ held[v] \in failed

IInv == TypeOK /\ CallsAreOwed /\ StepsBegan /\ SetIsHeld /\ LateOnlyIfGivenUp

\* The variables of the node of an AI set step are variables.
LEMMA SetsVars ==
  ASSUME NEW node \in SetNodes
  PROVE  /\ VarsOf(node) \subseteq Vars
         /\ node.sets \in Seq(Vars \cup {NULL})
         /\ node.source \in {"knowledge", "model", "nobody"}
         /\ \A v \in VarsOf(node) : \E i \in DOMAIN node.sets : node.sets[i] = v /\ v # NULL
BY AssistantAssumption DEF IsSetNode, VarsOf, ToSet

\* The steps that neither ask for completions nor take any.
LEMMA OtherSteps ==
  ASSUME IInv, UNCHANGED values,
         step' \in Nat, step <= step', setting' = setting,
         calls' \subseteq calls,
         pc' \in {"idle", "step", "sets", "ended"},
         pc' = "sets" => pc = "sets" /\ step' = step /\ calls' = calls,
         pc = "sets" => pc' = "sets"
  PROVE  IInv'
<1>1. TypeOK'
  BY DEF IInv, TypeOK, values
<1>2. CallsAreOwed'
  <2>. SUFFICES ASSUME NEW c \in calls
       PROVE  c.step <= step' /\ (c \in calls' => c.step \in failed \/ (pc' = "sets" /\ c.step = step'))
    BY DEF CallsAreOwed, values
  <2>1. c.step \in Nat /\ step \in Nat /\ c.step <= step
    BY DEF IInv, TypeOK, CallsAreOwed
  <2>. QED BY <2>1 DEF IInv, CallsAreOwed
<1>3. StepsBegan'
  <2>. SUFFICES ASSUME NEW v \in Vars PROVE held[v] <= step' /\ settled[v] <= step'
    BY DEF StepsBegan, values
  <2>1. held[v] \in Nat /\ settled[v] \in Nat /\ step \in Nat /\ held[v] <= step /\ settled[v] <= step
    BY DEF IInv, TypeOK, StepsBegan
  <2>. QED BY <2>1
<1>4. SetIsHeld'
  BY DEF IInv, SetIsHeld, values
<1>5. LateOnlyIfGivenUp'
  BY DEF IInv, LateOnlyIfGivenUp, values
<1>. QED BY <1>1, <1>2, <1>3, <1>4, <1>5 DEF IInv

\* An AI set step begins: nothing was awaited before.
LEMMA SetsBegin ==
  ASSUME IInv, NEW node \in SetNodes, BeginSets(node)
  PROVE  IInv'
<1>. DEFINE asked == {Call(step', node, i) : i \in {j \in DOMAIN node.sets : node.sets[j] # NULL}}
<1>1. /\ pc = "step" /\ pc' = "sets" /\ step' = step + 1 /\ setting' = VarsOf(node)
      /\ failed' = failed /\ settled' = settled
      /\ step \in Nat /\ step' \in Nat
  BY DEF IInv, TypeOK, BeginSets, Begin
<1>2. VarsOf(node) \subseteq Vars
  BY SetsVars
<1>3. \A c \in asked : c.step = step' /\ (node.source # "nobody" =>
        c \in [step : Nat, source : {"knowledge", "model"}, set : Nat, var : Vars])
  <2>. SUFFICES ASSUME NEW i \in DOMAIN node.sets, node.sets[i] # NULL
       PROVE  /\ Call(step', node, i).step = step'
              /\ node.source # "nobody" =>
                   Call(step', node, i) \in [step : Nat, source : {"knowledge", "model"}, set : Nat, var : Vars]
    OBVIOUS
  <2>1. node.sets[i] \in Vars /\ i \in Nat
    BY SetsVars
  <2>2. node.source \in {"knowledge", "model", "nobody"}
    BY SetsVars
  <2>. QED BY <1>1, <2>1, <2>2 DEF Call
<1>4. \A v \in VarsOf(node) : \E c \in asked : c.step = step' /\ c.var = v
  <2>. SUFFICES ASSUME NEW v \in VarsOf(node) PROVE \E c \in asked : c.step = step' /\ c.var = v
    OBVIOUS
  <2>1. PICK i \in DOMAIN node.sets : node.sets[i] = v /\ v # NULL
    BY SetsVars
  <2>2. Call(step', node, i) \in asked /\ Call(step', node, i).step = step' /\ Call(step', node, i).var = v
    BY <2>1 DEF Call
  <2>. QED BY <2>2
<1>5. \A c \in calls : c.step \in failed /\ c.step \in Nat /\ c.step <= step
  BY <1>1 DEF IInv, TypeOK, CallsAreOwed
<1>6. \A v \in Vars : held[v] \in Nat /\ settled[v] \in Nat /\ held[v] <= step /\ settled[v] <= step
  BY DEF IInv, TypeOK, StepsBegan
<1>. HIDE DEF asked
<1>7. CASE node.source # "nobody"
  <2>1. calls' = calls \cup asked /\ held' = held
    BY <1>7 DEF BeginSets, asked
  <2>2. TypeOK'
    BY <1>1, <1>2, <1>3, <1>7, <2>1 DEF IInv, TypeOK
  <2>3. CallsAreOwed'
    BY <1>1, <1>3, <1>5, <2>1 DEF CallsAreOwed
  <2>4. StepsBegan'
    BY <1>1, <1>6, <2>1 DEF StepsBegan
  <2>5. SetIsHeld'
    BY <1>1, <1>4, <2>1 DEF SetIsHeld
  <2>6. LateOnlyIfGivenUp'
    BY <1>1, <2>1 DEF IInv, LateOnlyIfGivenUp
  <2>. QED BY <2>2, <2>3, <2>4, <2>5, <2>6 DEF IInv
<1>8. CASE node.source = "nobody"
  <2>1. /\ calls' = calls
        /\ held' = [v \in Vars |-> IF v \in VarsOf(node) THEN step' ELSE held[v]]
    BY <1>8 DEF BeginSets
  <2>2. TypeOK'
    BY <1>1, <1>2, <2>1 DEF IInv, TypeOK
  <2>3. CallsAreOwed'
    BY <1>1, <1>5, <2>1 DEF CallsAreOwed
  <2>4. StepsBegan'
    BY <1>1, <1>6, <2>1 DEF StepsBegan
  <2>5. SetIsHeld'
    BY <1>1, <1>2, <2>1 DEF SetIsHeld
  <2>6. LateOnlyIfGivenUp'
    <3>. SUFFICES ASSUME NEW v \in Vars, held'[v] < settled[v] PROVE held'[v] \in failed
      BY <1>1 DEF LateOnlyIfGivenUp
    <3>1. v \notin VarsOf(node)
      BY <1>1, <1>6, <2>1
    <3>2. held'[v] = held[v]
      BY <2>1, <3>1
    <3>. QED BY <3>2 DEF IInv, LateOnlyIfGivenUp
  <2>. QED BY <2>2, <2>3, <2>4, <2>5, <2>6 DEF IInv
<1>. QED BY <1>7, <1>8

\* A completion comes: of the step that awaits it, or of one given up.
LEMMA AnswerComes ==
  ASSUME IInv, NEW c \in calls, Answer(c)
  PROVE  IInv'
<1>1. /\ calls' = calls \ {c} /\ held' = [held EXCEPT ![c.var] = c.step]
      /\ pc' = pc /\ step' = step /\ setting' = setting /\ failed' = failed /\ settled' = settled
  BY DEF Answer
<1>2. c.step \in Nat /\ c.var \in Vars /\ step \in Nat
  BY DEF IInv, TypeOK
<1>3. held \in [Vars -> Nat] /\ settled \in [Vars -> Nat] /\ setting \subseteq Vars
  BY DEF IInv, TypeOK
<1>4. c.step <= step /\ (c.step \in failed \/ (pc = "sets" /\ c.step = step))
  BY DEF IInv, CallsAreOwed
<1>5. TypeOK'
  BY <1>1, <1>2, <1>3 DEF IInv, TypeOK
<1>6. CallsAreOwed'
  BY <1>1 DEF IInv, CallsAreOwed
<1>7. StepsBegan'
  BY <1>1, <1>2, <1>3, <1>4 DEF IInv, StepsBegan
<1>8. SetIsHeld'
  BY <1>1, <1>2, <1>3, <1>4 DEF IInv, SetIsHeld
<1>9. LateOnlyIfGivenUp'
  BY <1>1, <1>2, <1>3, <1>4 DEF IInv, StepsBegan, LateOnlyIfGivenUp
<1>. QED BY <1>5, <1>6, <1>7, <1>8, <1>9 DEF IInv

\* All have come: each variable holds one, or one of a step given up.
LEMMA StepGoesOn ==
  ASSUME IInv, GoOn
  PROVE  IInv'
<1>1. /\ pc = "sets" /\ pc' = "step" /\ setting' = {} /\ \A c \in calls : c.step # step
      /\ settled' = [v \in Vars |-> IF v \in setting THEN step ELSE settled[v]]
      /\ step' = step /\ calls' = calls /\ held' = held /\ failed' = failed
  BY DEF GoOn, Own
<1>2. TypeOK'
  BY <1>1 DEF IInv, TypeOK
<1>3. CallsAreOwed'
  BY <1>1 DEF IInv, CallsAreOwed
<1>4. StepsBegan'
  BY <1>1 DEF IInv, TypeOK, StepsBegan
<1>5. SetIsHeld'
  BY <1>1 DEF SetIsHeld
<1>6. LateOnlyIfGivenUp'
  <2>. SUFFICES ASSUME NEW v \in Vars, held[v] < settled'[v] PROVE held[v] \in failed
    BY <1>1 DEF LateOnlyIfGivenUp
  <2>1. CASE v \in setting
    <3>1. held[v] = step \/ held[v] \in failed
      BY <1>1, <2>1 DEF IInv, SetIsHeld
    <3>2. settled'[v] = step /\ step \in Nat
      BY <1>1, <2>1 DEF IInv, TypeOK
    <3>. QED BY <3>1, <3>2
  <2>2. CASE v \notin setting
    BY <1>1, <2>2 DEF IInv, LateOnlyIfGivenUp
  <2>. QED BY <2>1, <2>2
<1>. QED BY <1>2, <1>3, <1>4, <1>5, <1>6 DEF IInv

\* A step is given up: its other completions are now those that come late.
LEMMA StepIsGivenUp ==
  ASSUME IInv, NEW c \in calls, NEW outcome, NEW to \in {"step", "ended"}, GiveUp(c, outcome, to)
  PROVE  IInv'
<1>1. /\ pc = "sets" /\ pc' = to /\ calls' = calls \ {c} /\ failed' = failed \cup {step}
      /\ setting' = {} /\ step' = step /\ held' = held /\ settled' = settled
  BY DEF GiveUp
<1>2. TypeOK'
  BY <1>1 DEF IInv, TypeOK
<1>3. CallsAreOwed'
  BY <1>1 DEF IInv, CallsAreOwed
<1>4. StepsBegan'
  BY <1>1 DEF IInv, StepsBegan
<1>5. SetIsHeld'
  BY <1>1 DEF SetIsHeld
<1>6. LateOnlyIfGivenUp'
  BY <1>1 DEF IInv, LateOnlyIfGivenUp
<1>. QED BY <1>2, <1>3, <1>4, <1>5, <1>6 DEF IInv

\* One of an earlier step fails, or one of a step that was given up.
LEMMA FailureIsUnheard ==
  ASSUME IInv, NEW c \in calls, FailsUnheard(c)
  PROVE  IInv'
<1>1. /\ calls' = calls \ {c} /\ pc' = pc /\ step' = step /\ setting' = setting
      /\ held' = held /\ failed' = failed /\ settled' = settled
      /\ pc = "sets" => c.step # step
  BY DEF FailsUnheard, Own, values
<1>2. TypeOK'
  BY <1>1 DEF IInv, TypeOK
<1>3. CallsAreOwed'
  BY <1>1 DEF IInv, CallsAreOwed
<1>4. StepsBegan'
  BY <1>1 DEF IInv, StepsBegan
<1>5. SetIsHeld'
  BY <1>1 DEF IInv, SetIsHeld
<1>6. LateOnlyIfGivenUp'
  BY <1>1 DEF IInv, LateOnlyIfGivenUp
<1>. QED BY <1>2, <1>3, <1>4, <1>5, <1>6 DEF IInv

LEMMA InitHolds == Init => IInv
BY DEF Init, IInv, TypeOK, CallsAreOwed, StepsBegan, SetIsHeld, LateOnlyIfGivenUp

LEMMA NextKeeps == IInv /\ [Next]_vars => IInv'
<1>. SUFFICES ASSUME IInv, [Next]_vars PROVE IInv'
  OBVIOUS
<1>0. step \in Nat /\ step + 1 \in Nat /\ step <= step /\ step <= step + 1
  BY DEF IInv, TypeOK
<1>p. pc \in {"idle", "step", "sets", "ended"}
  BY DEF IInv, TypeOK
<1>1. ASSUME NEW says \in BOOLEAN, NEW project \in BOOLEAN, StartTurn(says, project) PROVE IInv'
  BY <1>0, <1>1, OtherSteps DEF StartTurn, values
<1>2. ASSUME NEW texts \in BOOLEAN, SayText(texts) PROVE IInv'
  BY <1>0, <1>2, OtherSteps DEF SayText, Begin, turn, values
<1>3. ASSUME NEW message \in Messages, NEW text \in BOOLEAN, SayMessage(message, text) PROVE IInv'
  BY <1>0, <1>3, OtherSteps DEF SayMessage, Begin, turn, values
<1>4. ASSUME NEW message \in Messages, MessageFails(message) PROVE IInv'
  BY <1>0, <1>4, OtherSteps DEF MessageFails, Begin, turn, values
<1>5. ASSUME NEW node \in SetNodes, BeginSets(node) PROVE IInv'
  BY <1>5, SetsBegin
<1>6. ASSUME NEW c \in calls, Answer(c) PROVE IInv'
  BY <1>6, AnswerComes
<1>7. ASSUME NEW c \in calls, Refuse(c) PROVE IInv'
  BY <1>7, StepIsGivenUp DEF Refuse
<1>8. ASSUME NEW c \in calls, Throw(c) PROVE IInv'
  BY <1>8, StepIsGivenUp DEF Throw
<1>9. ASSUME NEW c \in calls, FailsUnheard(c) PROVE IInv'
  BY <1>9, FailureIsUnheard
<1>10. CASE GoOn
  BY <1>10, StepGoesOn
<1>11. ASSUME NEW answer, NEW global, NoMatch(answer, global) PROVE IInv'
  BY <1>0, <1>11, OtherSteps DEF NoMatch, Begin, values
<1>12. ASSUME NEW answer, NEW global, NoMatchPath(answer, global) PROVE IInv'
  BY <1>0, <1>12, OtherSteps DEF NoMatchPath, Begin, talk, values
<1>13. ASSUME NEW answer, NEW global, NoMatchThrows(answer, global) PROVE IInv'
  BY <1>0, <1>13, OtherSteps DEF NoMatchThrows, Begin, talk, values
<1>14. CASE CrossFlow
  BY <1>0, <1>14, OtherSteps DEF CrossFlow, values
<1>15. CASE Stop
  BY <1>0, <1>15, OtherSteps DEF Stop, values
<1>16. CASE EndTurn
  BY <1>0, <1>16, OtherSteps DEF EndTurn, values
<1>17. CASE Speak
  BY <1>0, <1>17, OtherSteps DEF Speak, Begin, turn, values
<1>18. CASE UNCHANGED vars
  BY <1>0, <1>p, <1>18, OtherSteps DEF vars, values
<1>. QED
  BY <1>1, <1>2, <1>3, <1>4, <1>5, <1>6, <1>7, <1>8, <1>9, <1>10, <1>11, <1>12, <1>13, <1>14,
     <1>15, <1>16, <1>17, <1>18 DEF Next

\* A completion of an earlier step takes the place of a later one only if its
\* step was given up, for any steps that set any variables.
THEOREM OnlyGivenUpComeLate == Spec => []LateOnlyIfGivenUp
<1>1. IInv => LateOnlyIfGivenUp
  BY DEF IInv
<1>. QED BY <1>1, InitHolds, NextKeeps, PTL DEF Spec

-----------------------------------------------------------------------------
(* What is cited is what is said.                                          *)

\* Before the turn's end nothing was cited or said in answer to an utterance
\* that was not understood; at its end, both or neither by the knowledge base.
CitesItsAnswer ==
  /\ pc \in {"step", "sets"} => ~cited /\ fallback = NULL
  /\ pc = "ended" => (cited <=> fallback = "knowledge")

LEMMA LookupCites ==
  ASSUME NEW answer \in Knowledge
  PROVE  \/ answer.output = "knowledge" /\ answer.cites = TRUE
         \/ answer.output = NULL /\ answer.cites = FALSE
BY DEF Knowledge, Lookups, KnowledgeNoMatch, NoAnswer

LEMMA GlobalsAreOther ==
  ASSUME NEW global \in Globals
  PROVE  global # "knowledge"
BY AssistantAssumption DEF Globals, GenerateNoMatch

\* The answer to an utterance that was not understood, or its failure.
LEMMA NoMatchCites ==
  ASSUME CitesItsAnswer, NEW answer \in Knowledge, NEW global \in Globals,
         NoMatch(answer, global) \/ NoMatchPath(answer, global) \/ NoMatchThrows(answer, global)
  PROVE  CitesItsAnswer'
<1>1. \/ answer.output = "knowledge" /\ answer.cites = TRUE
      \/ answer.output = NULL /\ answer.cites = FALSE
  BY LookupCites
<1>2. global # "knowledge" /\ NULL # "knowledge"
  BY GlobalsAreOther, AssistantAssumption
<1>3. CASE NoMatch(answer, global)
  BY <1>1, <1>2, <1>3 DEF NoMatch, CitesItsAnswer
<1>4. CASE NoMatchPath(answer, global)
  BY <1>1, <1>2, <1>4 DEF NoMatchPath, CitesItsAnswer, Begin
<1>5. CASE NoMatchThrows(answer, global)
  BY <1>1, <1>2, <1>5 DEF NoMatchThrows, CitesItsAnswer, Begin
<1> QED BY <1>3, <1>4, <1>5

\* No other step says or cites anything of the kind.
LEMMA OthersCite ==
  ASSUME CitesItsAnswer,
         \/ \E says, project \in BOOLEAN : StartTurn(says, project)
         \/ \E texts \in BOOLEAN : SayText(texts)
         \/ Speak
         \/ \E message \in Messages :
              (\E text \in BOOLEAN : SayMessage(message, text)) \/ MessageFails(message)
         \/ \E node \in SetNodes : BeginSets(node)
         \/ \E c \in calls : Answer(c) \/ Refuse(c) \/ Throw(c) \/ FailsUnheard(c)
         \/ GoOn \/ CrossFlow \/ Stop \/ EndTurn \/ UNCHANGED vars
  PROVE  CitesItsAnswer'
<1>1. NULL # "knowledge"
  BY AssistantAssumption
<1> QED BY <1>1 DEF CitesItsAnswer, StartTurn, SayText, Speak, SayMessage, MessageFails, BeginSets,
             Answer, Refuse, Throw, GiveUp, FailsUnheard, GoOn, CrossFlow, Stop, EndTurn, Begin, turn, vars

\* Documents of the knowledge base are shown exactly when what is said is the
\* answer made of them, whatever fails (knowledgeBaseNoMatch).
THEOREM DocumentsAreOfTheAnswer == Spec => []KnowledgeIsCited
<1>1. Init => CitesItsAnswer
  BY DEF Init, CitesItsAnswer
<1>2. CitesItsAnswer /\ [Next]_vars => CitesItsAnswer'
  BY NoMatchCites, OthersCite DEF Next
<1>3. CitesItsAnswer => KnowledgeIsCited
  BY DEF CitesItsAnswer, KnowledgeIsCited
<1> QED BY <1>1, <1>2, <1>3, PTL DEF Spec

-----------------------------------------------------------------------------
(* The window is the end of the conversation.                              *)

Pieces == Nat \X Nat
Talk == [role : {"user", "assistant"}, content : Seq(Pieces)]

\* How many messages are kept of so many.
Kept(n) == IF n > MAX_TURNS THEN MAX_TURNS ELSE n

\* What is kept of a message.  That it is a part of it is not enough: what is
\* said next is only added to a whole message or cut off again.
Part(m) == [role |-> m.role, content |-> Truncated(m.content)]

Window ==
  /\ full \in Seq(Talk) /\ memory \in Seq(Talk)
  /\ Len(memory) = Kept(Len(full))
  /\ \A i \in 1..Len(memory) : memory[i] = Part(full[Len(full) - Len(memory) + i])

\* A message is lost only where the conversation begins.
LostFirst == lost \in 0..1 /\ (unset => full = <<>> /\ lost = 0)

LEMMA TruncatedIsPart ==
  ASSUME NEW c \in Seq(Pieces)
  PROVE  Truncated(c) \in Seq(Pieces) /\ IsPrefix(Truncated(c), c)
<1>1. MAX_CONTENT_LENGTH \in Nat \ {0}
  BY AssistantAssumption
<1>2. CASE Len(c) > MAX_CONTENT_LENGTH
  <2>1. Truncated(c) = SubSeq(c, 1, MAX_CONTENT_LENGTH)
    BY <1>2 DEF Truncated
  <2>2. Len(SubSeq(c, 1, MAX_CONTENT_LENGTH)) = MAX_CONTENT_LENGTH
    BY <1>1, <1>2
  <2>3. SubSeq(c, 1, MAX_CONTENT_LENGTH) \in Seq(Pieces)
    BY <1>1, <1>2
  <2>4. SubSeq(SubSeq(c, 1, MAX_CONTENT_LENGTH), 1, MAX_CONTENT_LENGTH) = SubSeq(c, 1, MAX_CONTENT_LENGTH)
    BY <1>1, <1>2, <2>2, <2>3
  <2> QED BY <1>1, <1>2, <2>1, <2>2, <2>3, <2>4 DEF IsPrefix
<1>3. CASE ~(Len(c) > MAX_CONTENT_LENGTH)
  BY <1>3 DEF Truncated, IsPrefix
<1> QED BY <1>2, <1>3

LEMMA TruncatedAgain ==
  ASSUME NEW c \in Seq(Pieces), NEW p \in Pieces
  PROVE  Truncated(Append(Truncated(c), p)) = Truncated(Append(c, p))
<1> DEFINE limit == MAX_CONTENT_LENGTH
<1>1. limit \in Nat \ {0}
  BY AssistantAssumption
<1> HIDE DEF limit
<1>2. CASE Len(c) > limit
  <2>1. Truncated(c) = SubSeq(c, 1, limit)
    BY <1>2 DEF Truncated, limit
  <2>2. SubSeq(c, 1, limit) \in Seq(Pieces) /\ Len(SubSeq(c, 1, limit)) = limit
    BY <1>1, <1>2
  <2>3. Truncated(Append(SubSeq(c, 1, limit), p)) = SubSeq(Append(SubSeq(c, 1, limit), p), 1, limit)
    BY <1>1, <2>2 DEF Truncated, limit
  <2>4. Truncated(Append(c, p)) = SubSeq(Append(c, p), 1, limit)
    BY <1>1, <1>2 DEF Truncated, limit
  <2>5. SubSeq(Append(SubSeq(c, 1, limit), p), 1, limit) = SubSeq(c, 1, limit)
    BY <1>1, <1>2, <2>2
  <2>6. SubSeq(Append(c, p), 1, limit) = SubSeq(c, 1, limit)
    BY <1>1, <1>2
  <2> QED BY <2>1, <2>3, <2>4, <2>5, <2>6
<1>3. CASE ~(Len(c) > limit)
  BY <1>3 DEF Truncated, limit
<1> QED BY <1>2, <1>3

\* A message is added to the conversation and to the window.
LEMMA AddKeeps ==
  ASSUME Window, NEW m \in Talk, Len(m.content) = 1,
         full' = Append(full, m), memory' = Shifted(Append(memory, m))
  PROVE  Window'
<1>1. MAX_TURNS \in Nat /\ MAX_TURNS >= 2 /\ MAX_CONTENT_LENGTH \in Nat \ {0}
  BY AssistantAssumption
<1>2. full \in Seq(Talk) /\ memory \in Seq(Talk)
  BY DEF Window
<1>3. m = Part(m)
  BY <1>1 DEF Part, Truncated, Talk
<1>4. /\ full' \in Seq(Talk) /\ Len(full') = Len(full) + 1
      /\ full'[Len(full) + 1] = m /\ \A i \in 1..Len(full) : full'[i] = full[i]
  BY <1>2
<1>5. CASE Len(full) < MAX_TURNS
  <2>1. Len(memory) = Len(full)
    BY <1>1, <1>2, <1>5 DEF Window, Kept
  <2>2. memory' = Append(memory, m)
    BY <1>1, <1>2, <1>5, <2>1 DEF Shifted
  <2>3. memory' \in Seq(Talk) /\ Len(memory') = Len(full')
    BY <1>2, <1>4, <2>1, <2>2
  <2>4. Len(memory') = Kept(Len(full'))
    BY <1>1, <1>2, <1>4, <1>5, <2>3 DEF Kept
  <2>5. ASSUME NEW i \in 1..Len(memory')
        PROVE  memory'[i] = Part(full'[Len(full') - Len(memory') + i])
    <3>1. Len(full') - Len(memory') + i = i
      BY <1>2, <1>4, <2>3
    <3>2. CASE i = Len(full) + 1
      BY <1>2, <1>3, <1>4, <2>1, <2>2, <3>1, <3>2
    <3>3. CASE i \in 1..Len(full)
      <4>1. memory'[i] = memory[i] /\ full'[i] = full[i]
        BY <1>2, <1>4, <2>1, <2>2, <3>3
      <4>2. memory[i] = Part(full[i])
        BY <1>2, <2>1, <3>3 DEF Window
      <4> QED BY <3>1, <4>1, <4>2
    <3> QED BY <1>2, <1>4, <2>3, <3>2, <3>3
  <2> QED BY <1>4, <2>3, <2>4, <2>5 DEF Window
<1>6. CASE ~(Len(full) < MAX_TURNS)
  <2>1. Len(memory) = MAX_TURNS
    BY <1>1, <1>2, <1>6 DEF Window, Kept
  <2>2. memory' = Tail(Append(memory, m))
    BY <1>1, <1>2, <2>1 DEF Shifted
  <2>3. /\ memory' \in Seq(Talk) /\ Len(memory') = MAX_TURNS
        /\ \A i \in 1..MAX_TURNS : memory'[i] = Append(memory, m)[i + 1]
    BY <1>1, <1>2, <2>1, <2>2
  <2>4. Len(memory') = Kept(Len(full'))
    BY <1>1, <1>2, <1>4, <1>6, <2>3 DEF Kept
  <2>5. ASSUME NEW i \in 1..Len(memory')
        PROVE  memory'[i] = Part(full'[Len(full') - Len(memory') + i])
    <3>1. CASE i = MAX_TURNS
      <4>1. memory'[i] = m
        BY <1>1, <1>2, <2>1, <2>3, <3>1
      <4>2. Len(full') - Len(memory') + i = Len(full) + 1
        BY <1>1, <1>2, <1>4, <2>3, <3>1
      <4> QED BY <1>3, <1>4, <4>1, <4>2
    <3>2. CASE i \in 1..(MAX_TURNS - 1)
      <4>1. memory'[i] = memory[i + 1]
        BY <1>1, <1>2, <2>1, <2>3, <3>2
      <4>2. memory[i + 1] = Part(full[Len(full) - MAX_TURNS + (i + 1)])
        BY <1>1, <1>2, <2>1, <3>2 DEF Window
      <4>3. /\ Len(full') - Len(memory') + i = Len(full) - MAX_TURNS + (i + 1)
            /\ Len(full) - MAX_TURNS + (i + 1) \in 1..Len(full)
        BY <1>1, <1>2, <1>4, <1>6, <2>3, <3>2
      <4> QED BY <1>4, <4>1, <4>2, <4>3
    <3>3. i \in 1..MAX_TURNS
      BY <2>3
    <3>4. i = MAX_TURNS \/ i \in 1..(MAX_TURNS - 1)
      BY <1>1, <3>3
    <3> QED BY <3>1, <3>2, <3>4
  <2> QED BY <1>4, <2>3, <2>4, <2>5 DEF Window
<1> QED BY <1>5, <1>6

\* The last message of the window is what is kept of the conversation's.
LEMMA LastIsLast ==
  ASSUME Window
  PROVE  /\ memory = <<>> <=> full = <<>>
         /\ full # <<>> => memory[Len(memory)] = Part(full[Len(full)])
<1>1. MAX_TURNS \in Nat /\ MAX_TURNS >= 2
  BY AssistantAssumption
<1>2. full \in Seq(Talk) /\ memory \in Seq(Talk) /\ Len(memory) = Kept(Len(full))
  BY DEF Window
<1>3. memory = <<>> <=> full = <<>>
  BY <1>1, <1>2 DEF Kept
<1>4. ASSUME full # <<>>
      PROVE  memory[Len(memory)] = Part(full[Len(full)])
  <2>1. Len(memory) \in 1..Len(memory)
    BY <1>2, <1>3, <1>4
  <2>2. Len(full) - Len(memory) + Len(memory) = Len(full)
    BY <1>2
  <2> QED BY <2>1, <2>2 DEF Window
<1> QED BY <1>3, <1>4

LEMMA PieceIsPiece ==
  ASSUME Window
  PROVE  NextPiece \in Pieces
<1>1. full \in Seq(Talk)
  BY DEF Window
<1>2. CASE full = <<>>
  BY <1>1, <1>2 DEF NextPiece, Pieces
<1>3. CASE full # <<>>
  <2>1. full[Len(full)] \in Talk
    BY <1>1, <1>3
  <2>2. Len(full[Len(full)].content) \in Nat
    BY <2>1 DEF Talk
  <2> QED BY <1>1, <1>3, <2>2 DEF NextPiece, Pieces, Last
<1> QED BY <1>2, <1>3

LEMMA MessageIsTalk ==
  ASSUME NEW role \in {"user", "assistant"}, NEW p \in Pieces
  PROVE  Message(role, p) \in Talk /\ Len(Message(role, p).content) = 1
BY DEF Message, Talk

\* A message whose content is replaced.
LEMMA ContentOf ==
  ASSUME NEW m \in Talk, NEW c
  PROVE  [m EXCEPT !.content = c] = [role |-> m.role, content |-> c]
BY DEF Talk

\* What is said is added to a message that is there, or is one of its own.
LEMMA OutputKeeps ==
  ASSUME Window, AddOutput
  PROVE  Window'
<1> DEFINE p == NextPiece
           n == Len(full)
           k == Len(memory)
<1>1. p \in Pieces
  BY PieceIsPiece
<1>2. full \in Seq(Talk) /\ memory \in Seq(Talk)
  BY DEF Window
<1>3. IsAnswered(memory) <=> IsAnswered(full)
  BY LastIsLast DEF IsAnswered, Last, Part
<1>4. CASE ~IsAnswered(full)
  <2>1. /\ full' = Append(full, Message("assistant", p))
        /\ memory' = Shifted(Append(memory, Message("assistant", p)))
    BY <1>3, <1>4 DEF AddOutput, InjectOutput
  <2> HIDE DEF p
  <2> QED BY <1>1, <2>1, MessageIsTalk, AddKeeps
<1>5. CASE IsAnswered(full)
  <2>1. /\ full' = [full EXCEPT ![n].content = Append(@, p)]
        /\ memory' = [memory EXCEPT ![k].content = Truncated(Append(@, p))]
    BY <1>3, <1>5 DEF AddOutput, InjectOutput, Extended
  <2>2. full # <<>> /\ memory # <<>> /\ memory[k] = Part(full[n])
    BY <1>5, LastIsLast DEF IsAnswered
  <2> HIDE DEF p
  <2>3. n \in 1..n /\ k \in 1..k /\ n \in Nat /\ k \in Nat
    BY <1>2, <2>2
  <2>4. full[n] \in Talk /\ memory[k] \in Talk
    BY <1>2, <2>3
  <2>5. full[n].content \in Seq(Pieces) /\ memory[k].content = Truncated(full[n].content)
        /\ memory[k].role = full[n].role
    BY <2>2, <2>4 DEF Talk, Part
  <2>6. Append(full[n].content, p) \in Seq(Pieces)
    BY <1>1, <2>5
  <2> DEFINE whole == [full[n] EXCEPT !.content = Append(@, p)]
             part == [memory[k] EXCEPT !.content = Truncated(Append(@, p))]
  <2>7. whole \in Talk
    BY <2>4, <2>6 DEF Talk
  <2>8. whole = [role |-> full[n].role, content |-> Append(full[n].content, p)]
    BY <2>4, ContentOf
  <2>9. part = [role |-> full[n].role, content |-> Truncated(Append(Truncated(full[n].content), p))]
    BY <2>4, <2>5, ContentOf
  <2>10. part = Part(whole)
    BY <1>1, <2>5, <2>8, <2>9, TruncatedAgain DEF Part
  <2>11. part \in Talk
    BY <2>4, <2>6, <2>8, <2>10, TruncatedIsPart DEF Part, Talk
  <2>12. full' = [full EXCEPT ![n] = whole] /\ memory' = [memory EXCEPT ![k] = part]
    BY <2>1
  <2> HIDE DEF whole, part
  <2>13. full' \in Seq(Talk) /\ Len(full') = n /\ memory' \in Seq(Talk) /\ Len(memory') = k
    BY <1>2, <2>3, <2>7, <2>11, <2>12
  <2>14. ASSUME NEW i \in 1..k
         PROVE  memory'[i] = Part(full'[n - k + i])
    <3>1. k = Kept(n) /\ memory[i] = Part(full[n - k + i])
      BY DEF Window
    <3>2. n - k + i \in 1..n /\ (n - k + i = n <=> i = k)
      BY <2>3, <3>1, AssistantAssumption DEF Kept
    <3>3. CASE i = k
      BY <1>2, <2>3, <2>10, <2>12, <3>2, <3>3
    <3>4. CASE i # k
      BY <1>2, <2>3, <2>12, <3>1, <3>2, <3>4
    <3> QED BY <3>3, <3>4
  <2>15. k = Kept(n)
    BY DEF Window
  <2> QED BY <2>13, <2>14, <2>15 DEF Window
<1> QED BY <1>4, <1>5

LEMMA StartKeeps ==
  ASSUME Window, NEW says, NEW project, StartTurn(says, project)
  PROVE  Window'
<1>1. CASE says /\ project /\ ~unset
  <2>1. /\ memory' = Shifted(Append(memory, Message("user", NextPiece)))
        /\ full' = Append(full, Message("user", NextPiece))
    BY <1>1 DEF StartTurn, Remember
  <2>2. Message("user", NextPiece) \in Talk /\ Len(Message("user", NextPiece).content) = 1
    BY PieceIsPiece, MessageIsTalk
  <2> QED BY <2>1, <2>2, AddKeeps
<1>2. CASE ~(says /\ project /\ ~unset)
  BY <1>2 DEF StartTurn, Remember, Window
<1> QED BY <1>1, <1>2

LEMMA SilentKeeps ==
  ASSUME Window, UNCHANGED talk
  PROVE  Window'
BY DEF Window, talk

\* The first message is lost if nothing had been said or remembered before.
LEMMA StartLoses ==
  ASSUME LostFirst, NEW says, NEW project, StartTurn(says, project)
  PROVE  LostFirst'
<1>1. CASE unset
  <2>1. full' = full /\ lost' \in {lost, lost + 1} /\ (unset' => lost' = lost)
    BY <1>1 DEF StartTurn, Remember
  <2> QED BY <1>1, <2>1 DEF LostFirst
<1>2. CASE ~unset
  <2>1. lost' = lost /\ ~unset'
    BY <1>2 DEF StartTurn, Remember
  <2> QED BY <2>1 DEF LostFirst
<1> QED BY <1>1, <1>2

LEMMA SaysOrNot ==
  ASSUME Window, LostFirst, [Next]_vars
  PROVE  Window' /\ LostFirst'
<1>1. ASSUME AddOutput PROVE Window' /\ LostFirst'
  <2>1. Window'
    BY <1>1, OutputKeeps
  <2>2. LostFirst'
    BY <1>1 DEF AddOutput, LostFirst
  <2> QED BY <2>1, <2>2
<1>2. ASSUME UNCHANGED talk PROVE Window' /\ LostFirst'
  BY <1>2, SilentKeeps DEF talk, LostFirst
<1>3. ASSUME NEW says \in BOOLEAN, NEW project \in BOOLEAN, StartTurn(says, project)
      PROVE  Window' /\ LostFirst'
  BY <1>3, StartKeeps, StartLoses
<1>4. ASSUME NEW texts \in BOOLEAN, SayText(texts) PROVE Window' /\ LostFirst'
  BY <1>1, <1>2, <1>4 DEF SayText
<1>5. CASE Speak
  BY <1>1, <1>5 DEF Speak
<1>6. ASSUME NEW message \in Messages,
             (\E text \in BOOLEAN : SayMessage(message, text)) \/ MessageFails(message)
      PROVE  Window' /\ LostFirst'
  BY <1>1, <1>2, <1>6 DEF SayMessage, MessageFails
<1>7. ASSUME NEW node \in SetNodes, BeginSets(node) PROVE Window' /\ LostFirst'
  BY <1>2, <1>7 DEF BeginSets
<1>8. ASSUME NEW c \in calls, Answer(c) \/ Refuse(c) \/ Throw(c) \/ FailsUnheard(c)
      PROVE  Window' /\ LostFirst'
  BY <1>2, <1>8 DEF Answer, Refuse, Throw, GiveUp, FailsUnheard
<1>9. ASSUME NEW answer \in Knowledge, NEW global \in Globals,
             NoMatch(answer, global) \/ NoMatchPath(answer, global) \/ NoMatchThrows(answer, global)
      PROVE  Window' /\ LostFirst'
  BY <1>1, <1>2, <1>9 DEF NoMatch, NoMatchPath, NoMatchThrows
<1>10. CASE GoOn \/ CrossFlow \/ Stop \/ EndTurn \/ UNCHANGED vars
  BY <1>2, <1>10 DEF GoOn, CrossFlow, Stop, EndTurn, vars
<1> QED BY <1>3, <1>4, <1>5, <1>6, <1>7, <1>8, <1>9, <1>10 DEF Next

\* For a window of any number of messages of any length the models are told
\* the end of the conversation, of which only a first message of the user can
\* be missing (AIAssist).
THEOREM ToldTheEnd == Spec => []WindowIsRecent
<1>1. Init => Window /\ LostFirst
  BY AssistantAssumption DEF Init, Window, Kept, LostFirst
<1>2. Window /\ LostFirst => WindowIsRecent
  <2> SUFFICES ASSUME Window, LostFirst PROVE WindowIsRecent
    OBVIOUS
  <2>1. full \in Seq(Talk) /\ memory \in Seq(Talk) /\ Len(memory) = Kept(Len(full))
    BY DEF Window
  <2>2. ASSUME NEW i \in DOMAIN memory
        PROVE  IsPartOf(memory[i], full[Len(full) - Len(memory) + i])
    <3> DEFINE whole == full[Len(full) - Len(memory) + i]
    <3>1. i \in 1..Len(memory) /\ Len(full) - Len(memory) + i \in 1..Len(full)
      BY <2>1, AssistantAssumption DEF Kept
    <3>2. whole \in Talk /\ memory[i] = Part(whole)
      BY <2>1, <3>1 DEF Window
    <3>3. whole.content \in Seq(Pieces)
      BY <3>2 DEF Talk
    <3> QED BY <3>2, <3>3, TruncatedIsPart DEF IsPartOf, Part
  <2>3. lost <= 1 /\ (unset => full = <<>> /\ lost = 0)
    BY DEF LostFirst
  <2> QED BY <2>1, <2>2, <2>3 DEF WindowIsRecent, Kept
<1> QED BY <1>1, <1>2, SaysOrNot, PTL DEF Spec
=============================================================================
