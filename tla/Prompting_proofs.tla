-------------------------- MODULE Prompting_proofs ---------------------------
(***************************************************************************)
(* What holds of the prompts of every project: the order they are heard in *)
(* and the number of silences a session waits through.                     *)
(***************************************************************************)
EXTENDS Prompting, TLAPS

\* The session waits for a request.
Idle == ~running /\ stack # << >>

\* The counter is past what was heard: if prompts come in order it is the last
\* one's number, or the node has no prompt left.
MatchesAhead ==
  Idle =>
    /\ heard # << >> =>
         /\ matchCount \in Nat /\ Len(heard) <= matchCount
         /\ Top \in Nodes
         /\ \/ Node[Top].randomize
            \/ matchCount = heard[Len(heard)]
            \/ matchCount >= Node[Top].noMatches
    /\ visited /\ heard = << >> =>
         \/ matchCount \in {UNDEF, 0}
         \/ Top \in Nodes /\ Node[Top].kind = "capture"
         \/ Top \in Nodes /\ matchCount \in Nat /\ matchCount >= Node[Top].noMatches

SilencesCounted ==
  Idle /\ silences > 0 =>
    /\ replyCount \in Nat
    /\ silences <= replyCount
    /\ Top \in Nodes
    /\ replyCount <= Node[Top].noReplies + (IF settings.noReply THEN 1 ELSE 0)

IInv == TypeOK /\ PromptsInOrder /\ MatchesAhead /\ SilencesCounted

LEMMA InitIInv == Init => IInv
<1> SUFFICES ASSUME Init PROVE IInv
  OBVIOUS
<1>1. TypeOK
  <2>1. stack \in Seq(NodeOrNull) /\ heard \in Seq(Nat)
    BY DEF Init
  <2>2. running \in BOOLEAN /\ armed \in BOOLEAN /\ visited \in BOOLEAN
    BY DEF Init
  <2>3. matchCount \in Counter /\ replyCount \in Counter
    BY DEF Init, Counter
  <2>4. silences \in Nat /\ settings \in Settings
    BY DEF Init
  <2>5. last \in {"none", "said", "silence", "resumed", "launched"}
    BY DEF Init
  <2> QED
    BY <2>1, <2>2, <2>3, <2>4, <2>5 DEF TypeOK
<1>2. PromptsInOrder
  BY DEF Init, PromptsInOrder, IdleAt
<1>3. MatchesAhead /\ SilencesCounted
  BY DEF Init, MatchesAhead, SilencesCounted, Idle
<1> QED
  BY <1>1, <1>2, <1>3 DEF IInv

-----------------------------------------------------------------------------
LEMMA NodeFields ==
  ASSUME NEW n \in Nodes
  PROVE  /\ Node[n].next \in NodeOrNull
         /\ Node[n].noMatchTo \in NodeOrNull
         /\ Node[n].noReplyTo \in NodeOrNull
         /\ Node[n].noMatches \in Nat
         /\ Node[n].randomize \in BOOLEAN
         /\ Node[n].noReplies \in Nat
         /\ Node[n].timeout \in BOOLEAN
         /\ \A e \in Intents : Node[n].paths[e] \in NodeOrNull \cup {UNDEF}
BY ProgramAssumption DEF NodeModel

\* What every turn leaves of the types, whichever handler runs.
Kept == /\ settings' = settings
        /\ stack' \in Seq(NodeOrNull)
        /\ running' \in BOOLEAN
        /\ armed' \in BOOLEAN
        /\ last' \in {"none", "said", "silence", "resumed", "launched"}

LEMMA TypeKept ==
  ASSUME TypeOK, Kept, matchCount' \in Counter, replyCount' \in Counter,
         visited' \in BOOLEAN, heard' \in Seq(Nat), silences' \in Nat
  PROVE  TypeOK'
BY DEF TypeOK, Kept, Counter

\* The top frame goes on, or everything stays.
Moves == running' = TRUE \/ UNCHANGED <<stack, running>>

LEMMA ReturnsMoves ==
  ASSUME TypeOK, NEW n \in Nodes, NEW to \in NodeOrNull, IdleAt(n), Returns(n, to) \/ Goes(to) \/ Stays
  PROVE  stack' \in Seq(NodeOrNull) /\ running' \in BOOLEAN /\ Moves
<1>1. CASE Goes(to)
  <2>1. stack' \in Seq(NodeOrNull)
    BY <1>1 DEF TypeOK, Goes, IdleAt
  <2> QED
    BY <1>1, <2>1 DEF Goes, Moves
<1>2. CASE Stays
  BY <1>2 DEF Stays, Moves, TypeOK
<1>3. CASE Returns(n, to)
  BY <1>1, <1>2, <1>3 DEF Returns
<1> QED
  BY <1>1, <1>2, <1>3

\* A handler that leaves the counters alone.
Quiet == UNCHANGED <<counters, history>> /\ Moves

LEMMA QuietStep ==
  ASSUME IInv, Kept, Quiet PROVE IInv'
<1> USE DEF Quiet, counters, history
<1>1. TypeOK'
  BY TypeKept DEF IInv, TypeOK
<1>2. PromptsInOrder'
  BY DEF IInv, PromptsInOrder, Moves, IdleAt, Top
<1>3. MatchesAhead'
  BY DEF IInv, MatchesAhead, Moves, Idle, Top
<1>4. SilencesCounted'
  BY DEF IInv, SilencesCounted, Moves, Idle, Top, Kept
<1> QED
  BY <1>1, <1>2, <1>3, <1>4 DEF IInv

-----------------------------------------------------------------------------
(* The no-match handler.                                                   *)

LEMMA DelayType == ASSUME TypeOK, NEW n \in Nodes PROVE Delay(n) \in BOOLEAN
BY NodeFields, ProgramAssumption DEF Delay, TypeOK, SettingsModel

\* The next prompt carries on where the heard ones stop.
LEMMA MatchPromptStep ==
  ASSUME IInv, Kept, NEW n \in Nodes, IdleAt(n), Node[n].kind # "capture", MatchPrompt(n)
  PROVE  IInv'
<1> DEFINE c == Count(matchCount)
<1>1. c \in Nat /\ matchCount' = c + 1 /\ c < Node[n].noMatches
  BY DEF MatchPrompt, Count, IInv, TypeOK, Counter
<1>2. UNCHANGED <<stack, running, replyCount, visited, silences>>
  BY DEF MatchPrompt, Stays
<1>3. Idle /\ Top = n /\ n \in Nodes /\ Node[n].noMatches \in Nat
  BY NodeFields DEF IdleAt, Idle
<1>4. heard \in Seq(Nat)
  BY DEF IInv, TypeOK
<1>5. PICK q \in Nat : heard' = Append(heard, q) /\ (~Node[n].randomize => q = c + 1)
  BY <1>1, <1>3 DEF MatchPrompt, NextPrompts
<1>6. heard # << >> => Len(heard) <= c /\ (Node[n].randomize \/ c = heard[Len(heard)])
  BY <1>1, <1>3, ProgramAssumption DEF IInv, MatchesAhead, Count
<1>7. visited /\ heard = << >> => c = 0
  BY <1>1, <1>3, ProgramAssumption DEF IInv, MatchesAhead, Count
<1>8. TypeOK'
  BY <1>1, <1>2, <1>4, <1>5, TypeKept DEF Counter, IInv, TypeOK
<1> HIDE DEF c
<1>9. Len(heard') <= c + 1 /\ Len(heard') = Len(heard) + 1
  BY <1>1, <1>4, <1>5, <1>6
<1>10. PromptsInOrder'
  <2>1. Top' = n
    BY <1>2, <1>3 DEF Top
  <2>2. Len(heard') <= Node[n].noMatches
    BY <1>1, <1>3, <1>9
  <2>3. ASSUME ~Node[n].randomize, NEW k \in 1..(Len(heard') - 1) PROVE heard'[k + 1] = heard'[k] + 1
    <3>1. \A j \in 1..(Len(heard) - 1) : heard[j + 1] = heard[j] + 1
      BY <2>3 DEF IInv, PromptsInOrder
    <3> QED BY <1>1, <1>4, <1>5, <1>6, <1>9, <2>3, <3>1
  <2>4. ~Node[n].randomize /\ visited' /\ heard' # << >> => heard'[1] = 1
    <3> SUFFICES ASSUME ~Node[n].randomize, visited' PROVE heard'[1] = 1
      OBVIOUS
    <3>1. visited /\ heard # << >> => heard[1] = 1
      BY DEF IInv, PromptsInOrder
    <3> QED BY <1>1, <1>2, <1>4, <1>5, <1>7, <3>1
  <2> QED
    BY <2>1, <2>2, <2>3, <2>4 DEF PromptsInOrder, IdleAt
<1>11. MatchesAhead'
  <2>1. matchCount' \in Nat /\ Top' = n /\ heard' # << >>
    BY <1>1, <1>2, <1>3, <1>4, <1>5 DEF Top
  <2>2. Node[n].randomize \/ matchCount' = heard'[Len(heard')]
    BY <1>1, <1>4, <1>5, <1>9
  <2> QED
    BY <1>1, <1>3, <1>9, <2>1, <2>2 DEF MatchesAhead
<1>12. SilencesCounted'
  BY <1>2 DEF IInv, SilencesCounted, Idle, Top, Kept
<1> QED
  BY <1>8, <1>10, <1>11, <1>12 DEF IInv

LEMMA MatchFallbackStep ==
  ASSUME IInv, Kept, NEW n \in Nodes, IdleAt(n), MatchFallback(n)
  PROVE  IInv'
<1> DEFINE c == Count(matchCount)
<1>1. c \in Nat /\ matchCount' = c + 1 /\ c >= Node[n].noMatches
  BY DEF MatchFallback, MatchesExhausted, Count, IInv, TypeOK, Counter
<1>2. UNCHANGED <<stack, running, replyCount, visited, heard, silences>>
  BY DEF MatchFallback, Stays, history
<1>3. Idle /\ Top = n /\ Top' = n /\ Node[n].noMatches \in Nat /\ heard \in Seq(Nat)
  BY <1>2, NodeFields DEF IdleAt, Idle, Top, IInv, TypeOK
<1>4. /\ matchCount' \in Nat /\ matchCount' >= Node[n].noMatches
      /\ heard # << >> => Len(heard) <= matchCount'
  BY <1>1, <1>3, ProgramAssumption DEF IInv, MatchesAhead, Count
<1> HIDE DEF c
<1>5. TypeOK'
  BY <1>2, <1>4, TypeKept DEF Counter, IInv, TypeOK
<1>6. PromptsInOrder'
  BY <1>2 DEF IInv, PromptsInOrder, IdleAt, Top
<1>7. MatchesAhead'
  BY <1>2, <1>3, <1>4 DEF MatchesAhead
<1>8. SilencesCounted'
  BY <1>2 DEF IInv, SilencesCounted, Idle, Top, Kept
<1> QED
  BY <1>5, <1>6, <1>7, <1>8 DEF IInv

LEMMA MatchPathStep ==
  ASSUME IInv, Kept, NEW n \in Nodes, IdleAt(n), MatchPath(n)
  PROVE  IInv'
<1>1. matchCount' = UNDEF /\ heard' = << >> /\ UNCHANGED <<replyCount, visited, silences>>
  BY DEF MatchPath
<1>2. Moves
  BY NodeFields, ReturnsMoves DEF MatchPath, IInv
<1>3. TypeOK'
  BY <1>1, TypeKept DEF Counter, IInv, TypeOK
<1>4. PromptsInOrder'
  BY <1>1, NodeFields DEF PromptsInOrder
<1>5. MatchesAhead'
  BY <1>1 DEF MatchesAhead
<1>6. SilencesCounted'
  BY <1>1, <1>2 DEF IInv, SilencesCounted, Moves, Idle, Top, Kept
<1> QED
  BY <1>3, <1>4, <1>5, <1>6 DEF IInv

LEMMA NoMatchStep ==
  ASSUME IInv, Kept, NEW n \in Nodes, IdleAt(n), Node[n].kind # "capture", NoMatch(n)
  PROVE  IInv'
<1>1. CASE MatchThrows(n)
  BY <1>1, QuietStep DEF MatchThrows, Quiet, Stays, Moves
<1> QED
  BY <1>1, MatchPromptStep, MatchFallbackStep, MatchPathStep DEF NoMatch

LEMMA ElicitStep ==
  ASSUME IInv, Kept, NEW n \in Nodes, IdleAt(n), Elicit(n)
  PROVE  IInv'
<1>1. matchCount = UNDEF /\ matchCount' = 0
  BY DEF Elicit
<1>2. UNCHANGED <<stack, running, replyCount, visited, heard, silences>>
  BY DEF Elicit, Stays, history
<1>3. heard = << >>
  BY <1>1, ProgramAssumption DEF IInv, MatchesAhead, Idle, IdleAt
<1>4. TypeOK'
  BY <1>1, <1>2, TypeKept DEF Counter, IInv, TypeOK
<1>5. PromptsInOrder'
  BY <1>2 DEF IInv, PromptsInOrder, IdleAt, Top
<1>6. MatchesAhead'
  BY <1>1, <1>2, <1>3 DEF MatchesAhead
<1>7. SilencesCounted'
  BY <1>2 DEF IInv, SilencesCounted, Idle, Top, Kept
<1> QED
  BY <1>4, <1>5, <1>6, <1>7 DEF IInv

-----------------------------------------------------------------------------
(* The no-reply handler.                                                   *)

LEMMA ReplyPromptStep ==
  ASSUME IInv, Kept, NEW n \in Nodes, IdleAt(n), ReplyPrompt(n)
  PROVE  IInv'
<1> DEFINE c == Count(replyCount)
           g == IF settings.noReply THEN 1 ELSE 0
<1>1. c \in Nat /\ replyCount' = c + 1 /\ silences' = silences + 1 /\ silences \in Nat
  BY DEF ReplyPrompt, Count, IInv, TypeOK, Counter
<1>2. UNCHANGED <<stack, running, matchCount, visited, heard>>
  BY DEF ReplyPrompt, Stays
<1>3. Node[n].noReplies \in Nat /\ Idle /\ Top = n
  BY NodeFields DEF IdleAt, Idle
<1>4. c + 1 <= Node[n].noReplies + g
  BY <1>1, <1>3 DEF ReplyPrompt, RepliesLeft
<1>5. silences <= c
  BY <1>1, <1>3, ProgramAssumption DEF IInv, SilencesCounted, Count
<1> HIDE DEF c
<1>6. TypeOK'
  BY <1>1, <1>2, TypeKept DEF Counter, IInv, TypeOK
<1>7. PromptsInOrder'
  BY <1>2 DEF IInv, PromptsInOrder, IdleAt, Top
<1>8. MatchesAhead'
  BY <1>2 DEF IInv, MatchesAhead, Idle, Top
<1>9. SilencesCounted'
  <2>1. replyCount' \in Nat /\ silences' <= replyCount'
    BY <1>1, <1>5
  <2>2. Top' = n /\ settings' = settings
    BY <1>2, <1>3 DEF Top, Kept
  <2> QED
    BY <1>1, <1>4, <2>1, <2>2 DEF SilencesCounted
<1> QED
  BY <1>6, <1>7, <1>8, <1>9 DEF IInv

LEMMA ReplyPathStep ==
  ASSUME IInv, Kept, NEW n \in Nodes, IdleAt(n), ReplyPath(n)
  PROVE  IInv'
<1>1. replyCount' = UNDEF /\ silences' = 0 /\ UNCHANGED <<matchCount, visited, heard>>
  BY DEF ReplyPath
<1>2. Moves
  BY NodeFields, ReturnsMoves DEF ReplyPath, IInv
<1>3. TypeOK'
  BY <1>1, TypeKept DEF Counter, IInv, TypeOK
<1>4. PromptsInOrder'
  BY <1>1, <1>2 DEF IInv, PromptsInOrder, Moves, IdleAt, Top
<1>5. MatchesAhead'
  BY <1>1, <1>2 DEF IInv, MatchesAhead, Moves, Idle, Top
<1>6. SilencesCounted'
  BY <1>1 DEF SilencesCounted
<1> QED
  BY <1>3, <1>4, <1>5, <1>6 DEF IInv

-----------------------------------------------------------------------------
(* Requests.                                                               *)

\* What a handler may do with a request besides the two fallbacks.
LEMMA CommandMoves ==
  ASSUME TypeOK, NEW e \in Intents, RunCommand(e)
  PROVE  stack' \in Seq(NodeOrNull) /\ running' \in BOOLEAN /\ armed' \in BOOLEAN /\ Quiet
<1>1. Command[e] \in NodeOrNull
  BY ProgramAssumption
<1>2. stack' \in Seq(NodeOrNull)
  BY <1>1 DEF RunCommand, Pushes, TypeOK
<1> QED
  BY <1>2 DEF RunCommand, Pushes, Answers, Quiet, Moves

LEMMA AnswerMoves ==
  ASSUME TypeOK, NEW n \in Nodes, NEW to \in NodeOrNull, IdleAt(n), Answers,
         Returns(n, to) \/ Goes(to) \/ Stays
  PROVE  stack' \in Seq(NodeOrNull) /\ running' \in BOOLEAN /\ armed' \in BOOLEAN /\ Quiet
<1>1. stack' \in Seq(NodeOrNull) /\ running' \in BOOLEAN /\ Moves
  BY ReturnsMoves
<1> QED
  BY <1>1 DEF Answers, Quiet

LEMMA NoMatchTypes ==
  ASSUME TypeOK, NEW n \in Nodes, IdleAt(n), NoMatch(n) \/ Elicit(n) \/ NoReply(n)
  PROVE  stack' \in Seq(NodeOrNull) /\ running' \in BOOLEAN /\ armed' \in BOOLEAN
<1>1. CASE Stays /\ armed' \in BOOLEAN
  BY <1>1 DEF Stays, TypeOK
<1>2. CASE MatchPath(n) \/ ReplyPath(n)
  <2>1. /\ armed' = FALSE
        /\ Returns(n, Node[n].noMatchTo) \/ Returns(n, Node[n].noReplyTo)
    BY <1>2 DEF MatchPath, ReplyPath
  <2> QED
    BY <2>1, NodeFields, ReturnsMoves
<1>3. RepromptDelay(n) \in BOOLEAN /\ Delay(n) \in BOOLEAN
  BY DelayType DEF RepromptDelay
<1>4. CASE MatchPrompt(n)
  BY <1>1, <1>3, <1>4 DEF MatchPrompt
<1>5. CASE MatchFallback(n)
  BY <1>1, <1>3, <1>5 DEF MatchFallback
<1>6. CASE MatchThrows(n)
  BY <1>1, <1>6 DEF MatchThrows
<1>7. CASE Elicit(n)
  BY <1>1, <1>7 DEF Elicit
<1>8. CASE ReplyPrompt(n)
  BY <1>1, <1>3, <1>8 DEF ReplyPrompt
<1> QED
  BY <1>2, <1>4, <1>5, <1>6, <1>7, <1>8 DEF NoMatch, NoReply

\* A request ends in one of three ways.
LEMMA SayCases ==
  ASSUME TypeOK, NEW n \in Nodes, NEW e \in Intents, NEW certain \in BOOLEAN, IdleAt(n),
         CASE Node[n].kind = "interaction" -> InteractionSays(n, e)
           [] Node[n].kind = "capture" -> CaptureSays(n, e)
           [] Node[n].kind = "captureV2" -> CaptureV2Says(n, e, certain)
           [] Node[n].kind \in {"card", "blockingCard"} -> CardSays(n, e)
           [] OTHER -> OtherSays(n, e)
  PROVE  \/ RunCommand(e)
         \/ Answers /\ \E to \in NodeOrNull : Returns(n, to) \/ Goes(to) \/ Stays
         \/ Node[n].kind # "capture" /\ (NoMatch(n) \/ Elicit(n))
<1>1. NULL \in NodeOrNull
  BY DEF NodeOrNull
<1>2. CASE Node[n].kind = "interaction"
  <2>1. InteractionSays(n, e)
    BY <1>2
  <2> QED
    BY <1>1, <1>2, <2>1, NodeFields DEF InteractionSays, RunRepeat
<1>3. CASE Node[n].kind = "capture"
  <2>1. CaptureSays(n, e)
    BY <1>3
  <2> QED
    BY <1>1, <2>1, NodeFields DEF CaptureSays, RunRepeat
<1>4. CASE Node[n].kind = "captureV2"
  <2>1. CaptureV2Says(n, e, certain)
    BY <1>4
  <2> QED
    BY <1>1, <1>4, <2>1, NodeFields DEF CaptureV2Says, RunRepeat, EntityNoMatch
<1>5. CASE Node[n].kind \in {"card", "blockingCard"}
  <2>1. CardSays(n, e)
    BY <1>5
  <2> QED
    BY <1>1, <1>5, <2>1 DEF CardSays
<1>6. CASE Node[n].kind \notin {"interaction", "capture", "captureV2", "card", "blockingCard"}
  <2>1. OtherSays(n, e)
    BY <1>6
  <2> QED
    BY <1>1, <2>1 DEF OtherSays
<1> QED
  BY <1>2, <1>3, <1>4, <1>5, <1>6

LEMMA SayStep ==
  ASSUME IInv, NEW e \in Intents, NEW certain \in BOOLEAN, Say(e, certain)
  PROVE  IInv'
<1>1. PICK n \in Nodes :
        /\ IdleAt(n) /\ last' = "said" /\ settings' = settings
        /\ \/ RunCommand(e)
           \/ Answers /\ \E to \in NodeOrNull : Returns(n, to) \/ Goes(to) \/ Stays
           \/ Node[n].kind # "capture" /\ (NoMatch(n) \/ Elicit(n))
  BY SayCases DEF Say, IInv
<1>2. Kept
  BY <1>1, CommandMoves, AnswerMoves, NoMatchTypes DEF Kept, IInv
<1>3. CASE RunCommand(e)
  BY <1>2, <1>3, CommandMoves, QuietStep DEF IInv
<1>4. CASE Answers /\ \E to \in NodeOrNull : Returns(n, to) \/ Goes(to) \/ Stays
  BY <1>1, <1>2, <1>4, AnswerMoves, QuietStep DEF IInv
<1> QED
  BY <1>1, <1>2, <1>3, <1>4, NoMatchStep, ElicitStep

LEMMA SilenceStep == ASSUME IInv, Silence PROVE IInv'
<1>1. PICK n \in Nodes :
        /\ IdleAt(n) /\ last' = "silence" /\ settings' = settings
        /\ \/ NoReply(n)
           \/ Answers /\ (Goes(NULL) \/ Stays)
  BY DEF Silence
<1>2. NULL \in NodeOrNull
  BY DEF NodeOrNull
<1>3. Kept
  BY <1>1, <1>2, AnswerMoves, NoMatchTypes DEF Kept, IInv
<1>4. CASE Answers /\ (Goes(NULL) \/ Stays)
  BY <1>1, <1>2, <1>3, <1>4, AnswerMoves, QuietStep DEF IInv
<1> QED
  BY <1>1, <1>3, <1>4, ReplyPromptStep, ReplyPathStep DEF NoReply

LEMMA ResumeStep == ASSUME IInv, Resume PROVE IInv'
<1>1. Kept /\ Quiet
  BY DEF Resume, Kept, Quiet, Moves, IInv, TypeOK
<1> QED
  BY <1>1, QuietStep

\* A turn that starts from the first node.
LEMMA AnewStep ==
  ASSUME IInv, settings' \in Settings, stack' \in Seq(NodeOrNull), running' = TRUE,
         armed' \in BOOLEAN, last' \in {"said", "launched"},
         matchCount' \in {matchCount, UNDEF}, replyCount' \in {replyCount, UNDEF},
         UNCHANGED history
  PROVE  IInv'
<1>1. TypeOK'
  BY DEF IInv, TypeOK, history, Counter
<1>2. PromptsInOrder'
  BY DEF PromptsInOrder, IdleAt
<1>3. MatchesAhead' /\ SilencesCounted'
  BY DEF MatchesAhead, SilencesCounted, Idle
<1> QED
  BY <1>1, <1>2, <1>3 DEF IInv

LEMMA LaunchStep == ASSUME IInv, Launch PROVE IInv'
<1>1. stack' \in Seq(NodeOrNull)
  BY ProgramAssumption DEF Launch, NodeOrNull
<1> QED
  BY <1>1, AnewStep DEF Launch

LEMMA RestartStep == ASSUME IInv, Restart PROVE IInv'
<1>1. stack' \in Seq(NodeOrNull)
  <2>1. CASE stack' = <<Start>>
    BY <2>1, ProgramAssumption DEF NodeOrNull
  <2>2. ASSUME NEW e \in Intents, stack' = <<Start, Command[e]>>
        PROVE  stack' \in Seq(NodeOrNull)
    <3>1. Start \in NodeOrNull /\ Command[e] \in NodeOrNull
      BY ProgramAssumption DEF NodeOrNull
    <3> QED
      BY <2>2, <3>1
  <2> QED
    BY <2>1, <2>2 DEF Restart
<1> QED
  BY <1>1, AnewStep DEF Restart, counters

-----------------------------------------------------------------------------
(* The rest of a turn.                                                     *)

LEMMA WaitStep == ASSUME IInv, NEW n \in Nodes, Wait(n) PROVE IInv'
<1>1. /\ UNCHANGED <<settings, stack, last>>
      /\ running' = FALSE /\ armed' \in BOOLEAN
      /\ visited' = TRUE /\ heard' = << >> /\ silences' = 0
      /\ replyCount' = UNDEF /\ n = Top
      /\ matchCount' = IF Node[n].kind = "capture" THEN matchCount ELSE UNDEF
  BY DelayType DEF Wait, MatchCountAfterVisit, IInv
<1>2. Kept
  BY <1>1 DEF Kept, IInv, TypeOK
<1>3. TypeOK'
  BY <1>1, <1>2, TypeKept DEF Counter, IInv, TypeOK
<1>4. PromptsInOrder'
  BY <1>1, NodeFields DEF PromptsInOrder
<1>5. MatchesAhead'
  BY <1>1 DEF MatchesAhead, Top
<1>6. SilencesCounted'
  BY <1>1 DEF SilencesCounted
<1> QED
  BY <1>3, <1>4, <1>5, <1>6 DEF IInv

LEMMA PassStep == ASSUME IInv, NEW n \in Nodes, Pass(n) PROVE IInv'
<1>1. stack' \in Seq(NodeOrNull)
  BY NodeFields DEF Pass, Goes, IInv, TypeOK
<1>2. Kept /\ Quiet
  BY <1>1 DEF Pass, Goes, Kept, Quiet, Moves, IInv, TypeOK
<1> QED
  BY <1>2, QuietStep

LEMMA ExitStep == ASSUME IInv, NEW n \in Nodes, Exit(n) PROVE IInv'
<1>1. PICK k \in 0..(Len(stack) - 1) : stack' = SubSeq(stack, 1, k)
  BY DEF Exit
<1>2. stack' \in Seq(NodeOrNull)
  BY <1>1 DEF IInv, TypeOK
<1>3. /\ running' = FALSE /\ armed' = FALSE /\ UNCHANGED <<settings, counters, last>>
      /\ visited' = FALSE /\ heard' = << >> /\ silences' = 0
  BY DEF Exit
<1>4. Kept
  <2>1. running' \in BOOLEAN /\ armed' \in BOOLEAN
    BY <1>3
  <2>2. last' \in {"none", "said", "silence", "resumed", "launched"}
    BY <1>3 DEF IInv, TypeOK
  <2> QED
    BY <1>2, <1>3, <2>1, <2>2 DEF Kept
<1>5. TypeOK'
  <2>1. matchCount' \in Counter /\ replyCount' \in Counter
    BY <1>3 DEF counters, IInv, TypeOK
  <2>2. heard' \in Seq(Nat) /\ silences' \in Nat
    BY <1>3
  <2>3. visited' \in BOOLEAN
    BY <1>3
  <2> QED
    BY <1>4, <2>1, <2>2, <2>3, TypeKept DEF IInv
<1>6. PromptsInOrder'
  BY <1>3, NodeFields DEF PromptsInOrder
<1>7. MatchesAhead' /\ SilencesCounted'
  BY <1>3 DEF MatchesAhead, SilencesCounted
<1> QED
  BY <1>5, <1>6, <1>7 DEF IInv

LEMMA PopFrameStep == ASSUME IInv, PopFrame PROVE IInv'
<1>1. stack' \in Seq(NodeOrNull)
  BY DEF PopFrame, IInv, TypeOK
<1>2. Kept /\ Quiet
  BY <1>1 DEF PopFrame, Kept, Quiet, Moves, IInv, TypeOK
<1> QED
  BY <1>2, QuietStep

LEMMA FinishStep == ASSUME IInv, Finish PROVE IInv'
<1>1. /\ UNCHANGED <<settings, stack, counters, history, last>> /\ stack = << >>
      /\ running' = FALSE /\ armed' = FALSE
  BY DEF Finish
<1>2. Kept
  BY <1>1 DEF Kept, IInv, TypeOK
<1>3. TypeOK'
  BY <1>1, <1>2, TypeKept DEF counters, history, IInv, TypeOK
<1>4. PromptsInOrder'
  BY <1>1 DEF PromptsInOrder, IdleAt
<1>5. MatchesAhead' /\ SilencesCounted'
  BY <1>1 DEF MatchesAhead, SilencesCounted, Idle
<1> QED
  BY <1>3, <1>4, <1>5 DEF IInv

LEMMA StepIInv == IInv /\ [Next]_vars => IInv'
<1> SUFFICES ASSUME IInv, [Next]_vars PROVE IInv'
  OBVIOUS
<1>1. CASE UNCHANGED vars
  BY <1>1, QuietStep DEF vars, Kept, Quiet, Moves, IInv, TypeOK
<1>2. CASE Request
  BY <1>2, SayStep, SilenceStep, ResumeStep, LaunchStep, RestartStep DEF Request
<1>3. CASE Turn
  BY <1>3, WaitStep, PassStep, ExitStep, PopFrameStep, FinishStep DEF Turn
<1> QED
  BY <1>1, <1>2, <1>3 DEF Next

\* The counter runs ahead of what the user heard and the silences behind
\* theirs, in every state of a session.
THEOREM Counters == Spec => []IInv
BY InitIInv, StepIInv, PTL DEF Spec

\* No prompt of a node that does not randomize them is heard twice or left out,
\* and no node prompts more often than it can (noMatch.ts:49-66 against
\* every handler that writes or deletes the shared counter).
THEOREM HeardInOrder == Spec => []PromptsInOrder
BY Counters, PTL DEF IInv

\* No session waits through more silences than it has prompts for
\* (noReply.ts:57-94).
THEOREM SilencesEnd == Spec => []SilenceIsBounded
<1>1. IInv => SilenceIsBounded
  <2> SUFFICES ASSUME IInv, NEW n \in Nodes, IdleAt(n)
               PROVE  silences <= Node[n].noReplies + (IF settings.noReply THEN 1 ELSE 0)
    BY DEF SilenceIsBounded
  <2>1. Node[n].noReplies \in Nat /\ silences \in Nat
    BY NodeFields DEF IInv, TypeOK
  <2> QED
    BY <2>1 DEF IInv, SilencesCounted, Idle, IdleAt
<1> QED
  BY <1>1, Counters, PTL

-----------------------------------------------------------------------------
(* The timeouts of silent users.                                           *)

LEMMA SilenceIsTimed ==
  ASSUME SilentUserIsTimed, Silence
  PROVE  SilentUserIsTimed'
<1>1. PICK n \in Nodes :
        /\ IdleAt(n) /\ last' = "silence" /\ settings' = settings
        /\ IF Waits(n) THEN NoReply(n)
           ELSE IF Node[n].kind = "card" THEN Goes(NULL) /\ Answers
           ELSE Stays /\ Answers
  BY DEF Silence
<1>2. CASE ReplyPrompt(n)
  <2>1. UNCHANGED <<stack, running>> /\ armed' = RepromptDelay(n) /\ n = Top
    BY <1>1, <1>2 DEF ReplyPrompt, Stays, IdleAt
  <2>2. Node[n].timeout => armed' = TRUE
    BY <2>1 DEF RepromptDelay, Delay
  <2> QED BY <2>1, <2>2 DEF SilentUserIsTimed, IdleAt, Top
<1>3. CASE ReplyPath(n)
  BY <1>1, <1>3 DEF ReplyPath, SilentUserIsTimed
<1>4. CASE ~Waits(n) /\ Stays
  BY <1>1, <1>4 DEF Stays, SilentUserIsTimed, IdleAt, Top, Waits
<1>5. CASE Goes(NULL)
  BY <1>5 DEF Goes, SilentUserIsTimed, IdleAt
<1> QED BY <1>1, <1>2, <1>3, <1>4, <1>5 DEF NoReply

\* A session that waits on a node with a timeout for a user who said nothing
\* has asked for the next no-reply (addNoReplyTimeoutIfExists).
THEOREM SilencesAreTimed == Spec => []SilentUserIsTimed
<1>1. Init => SilentUserIsTimed
  BY DEF Init, SilentUserIsTimed, IdleAt
<1>2. ASSUME SilentUserIsTimed, [Next]_vars PROVE SilentUserIsTimed'
  <2>1. ASSUME NEW e \in Intents, NEW certain \in BOOLEAN, Say(e, certain)
        PROVE  SilentUserIsTimed'
    BY <2>1 DEF Say, SilentUserIsTimed
  <2>2. CASE Resume \/ Launch \/ Restart
    BY <2>2 DEF Resume, Launch, Restart, SilentUserIsTimed, IdleAt
  <2>3. ASSUME NEW n \in Nodes, Wait(n) PROVE SilentUserIsTimed'
    <3>1. n = Top' /\ armed' = Delay(n)
      BY <2>3 DEF Wait, Top
    <3> QED BY <3>1 DEF SilentUserIsTimed, IdleAt, Delay
  <2>4. ASSUME NEW n \in Nodes, Pass(n) PROVE SilentUserIsTimed'
    BY <2>4 DEF Pass, Goes, SilentUserIsTimed, IdleAt
  <2>5. ASSUME NEW n \in Nodes, Exit(n) PROVE SilentUserIsTimed'
    BY <2>5 DEF Exit, SilentUserIsTimed
  <2>6. CASE PopFrame
    BY <2>6 DEF PopFrame, SilentUserIsTimed, IdleAt
  <2>7. CASE Finish
    BY <2>7 DEF Finish, SilentUserIsTimed, IdleAt
  <2>8. CASE UNCHANGED vars
    BY <1>2, <2>8 DEF vars, history, SilentUserIsTimed, IdleAt, Top
  <2> QED BY <1>2, <2>1, <2>2, <2>3, <2>4, <2>5, <2>6, <2>7, <2>8, SilenceIsTimed
       DEF Next, Request, Turn
<1> QED BY <1>1, <1>2, PTL DEF Spec
=============================================================================
