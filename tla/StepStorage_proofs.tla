-------------------------- MODULE StepStorage_proofs --------------------------
(***************************************************************************)
(* Proofs about StepStorage, for any diagrams, versions and requests: what *)
(* plays holds the place of the flow, transfers are answered by their own  *)
(* function, and the paths of a random step are taken evenly.  Then about  *)
(* OutgoingCalls, the step that calls out, for any number of turns, limit  *)
(* and window.                                                             *)
(***************************************************************************)
EXTENDS StepStorage, OutgoingCalls, TLAPS

\* The paths used in this round were taken once more than the others.
RoundsAreKept ==
  \A n \in Shuffles : \E k \in Nat : \A m \in NextIds(version, n) :
    taken[n][m] = k + (IF m \in used[n] THEN 1 ELSE 0)

\* No function listens while a stream plays, which would take the answer.
PlaysAlone == Active(play) => transfers = NULL \/ "transfers" \in orphan

\* When the function that listens is handled it has a request to answer.
AnswerIsDue ==
  transfers # NULL /\ "transfers" \notin orphan /\ pc # "idle" => action = "REQUEST"

\* What is handled, and what plays in this version, are nodes of it.
InVersion ==
  /\ pc = "handle" => at \in Holds[version]
  /\ Active(play) /\ "play" \notin orphan => play.node \in Holds[version]

IInv ==
  /\ TypeOK /\ PausedIsEnded /\ StreamHoldsItsPlace /\ TransfersAreOwn
  /\ RoundsAreKept /\ PlaysAlone /\ AnswerIsDue /\ InVersion

Position == <<at, nextID, pc, action, request, guided>>

\* What a step that only moves in the diagram leaves as it should be.
Placed ==
  /\ at' \in Nodes \cup {NULL} /\ nextID' \in Nodes \cup {NULL}
  /\ pc' \in {"idle", "handle", "move"}
  /\ pc' = "handle" => at' \in Nodes
  /\ pc' = "move" => at' \in Nodes /\ nextID' \in Nodes
  /\ pc' # "idle" /\ action' = "REQUEST" => request' \in Requests
  /\ action' \in {"REQUEST", "RUNNING"}
  /\ request' \in Requests \cup {NULL} /\ guided' \in BOOLEAN

LEMMA InitHolds == Init => IInv
<1> SUFFICES ASSUME Init PROVE IInv
  OBVIOUS
<1>1. TypeOK
  BY StorageAssumption DEF Init, TypeOK
<1>2. RoundsAreKept
  <2> SUFFICES ASSUME NEW n \in Shuffles
               PROVE \E k \in Nat : \A m \in NextIds(version, n) :
                       taken[n][m] = k + (IF m \in used[n] THEN 1 ELSE 0)
    BY DEF RoundsAreKept
  <2>1. \A m \in NextIds(version, n) : m \in Nodes \cup {NULL}
    BY StorageAssumption DEF NextIds, Shuffles, Init
  <2>2. \A m \in NextIds(version, n) : taken[n][m] = 0 + (IF m \in used[n] THEN 1 ELSE 0)
    BY <2>1 DEF Init
  <2> QED BY <2>2
<1> QED BY <1>1, <1>2 DEF Init, IInv, PausedIsEnded, StreamHoldsItsPlace, TransfersAreOwn,
   PlaysAlone, AnswerIsDue, InVersion, Active

\* The nodes ports lead to.
LEMMA PortsLead ==
  ASSUME NEW v \in Versions, NEW n \in Nodes
  PROVE  /\ \A p \in Paths : Port[v][n][p] \in Nodes \cup {NULL}
         /\ NextIds(v, n) \subseteq Nodes \cup {NULL}
BY StorageAssumption DEF NextIds

\* A handler ends the turn, in the flow or out of it, or leads on.
LEMMA ReturnMoves ==
  ASSUME TypeOK, pc = "handle", NEW next \in Nodes \cup {NULL}, Return(next)
  PROVE  /\ Placed
         /\ pc' \in {"idle", "move"}
         /\ at' \in {at, NULL}
         /\ next = NULL => pc' = "idle"
         /\ next = at => pc' = "idle" /\ at' = at
BY StorageAssumption DEF TypeOK, Return, Over, Placed

LEMMA EndMoves ==
  ASSUME TypeOK, End
  PROVE  Placed /\ pc' = "idle" /\ at' = at
BY DEF TypeOK, End, Over, Placed

\* A step that leaves what is stored alone: nothing plays, and the function
\* that listens does not lead on.
LEMMA BesideKeeps ==
  ASSUME IInv, Placed, UNCHANGED <<version, based, storage, orphan, taken>>,
         pc' = "handle" => at' \in Holds[version],
         Active(play) /\ "play" \notin orphan => at' = at /\ Stays',
         transfers # NULL /\ "transfers" \notin orphan =>
           at' \in {at, NULL} /\ Stays' /\ (pc' # "idle" => action' = "REQUEST")
  PROVE  IInv'
<1> USE DEF IInv
<1>1. TypeOK'
  BY DEF TypeOK, Placed, storage, Transfers, Play, Streams, Functions
<1>2. PausedIsEnded' /\ RoundsAreKept' /\ PlaysAlone'
  BY DEF PausedIsEnded, RoundsAreKept, PlaysAlone, storage, Active
<1>3. StreamHoldsItsPlace' /\ InVersion'
  BY DEF StreamHoldsItsPlace, InVersion, storage, Active
<1>4. TransfersAreOwn' /\ AnswerIsDue'
  BY DEF TransfersAreOwn, AnswerIsDue, storage
<1> QED BY <1>1, <1>2, <1>3, <1>4

\* A step other than a function that leads anywhere, or any that leads out.
LEMMA LeadsOn ==
  ASSUME IInv, pc = "handle", ~Active(play), NEW next \in Nodes \cup {NULL}, Return(next),
         Kind[at] # "function" \/ next = NULL,
         UNCHANGED <<version, based, storage, orphan, taken>>
  PROVE  IInv'
<1>1. TypeOK /\ TransfersAreOwn
  BY DEF IInv
<1>2. Placed /\ at' \in {at, NULL} /\ pc' # "handle" /\ (next = NULL => pc' = "idle")
  BY <1>1, ReturnMoves
<1>3. transfers # NULL /\ "transfers" \notin orphan /\ Kind[at] # "function" => FALSE
  BY <1>1, StorageAssumption DEF TransfersAreOwn, TypeOK, Transfers, Functions
<1>4. transfers # NULL /\ "transfers" \notin orphan =>
        at' \in {at, NULL} /\ Stays' /\ (pc' # "idle" => action' = "REQUEST")
  BY <1>2, <1>3 DEF Stays
<1>5. Active(play) /\ "play" \notin orphan => at' = at /\ Stays'
  OBVIOUS
<1> QED BY <1>2, <1>4, <1>5, BesideKeeps

\* A step that ends the turn where it is and leaves what is stored alone.
LEMMA StopsHere ==
  ASSUME IInv, End, UNCHANGED <<version, based, storage, orphan, taken>>
  PROVE  IInv'
<1>1. TypeOK /\ StreamHoldsItsPlace /\ TransfersAreOwn
  BY DEF IInv
<1>2. Placed /\ pc' = "idle" /\ at' = at
  BY <1>1, EndMoves
<1>3. Stays'
  BY <1>2 DEF Stays
<1> QED BY <1>2, <1>3, BesideKeeps

LEMMA StartKeeps ==
  ASSUME IInv, NEW v \in Versions, NEW launch \in BOOLEAN, NEW req \in Requests \cup {NULL},
         NEW g \in BOOLEAN, NEW loaded \in BOOLEAN,
         StartTurn(v, launch, req, g, loaded)
  PROVE  IInv'
<1> USE DEF IInv
<1> DEFINE anew == launch \/ at = NULL \/ (based /\ v # version)
<1>1. /\ at' \in Nodes /\ nextID' = at' /\ pc' = "move" /\ version' = v
      /\ guided' \in BOOLEAN /\ based' \in BOOLEAN
      /\ request' = IF launch THEN NULL ELSE req
      /\ action' = IF request' = NULL THEN "RUNNING" ELSE "REQUEST"
      /\ ~anew => at' = at
  BY StorageAssumption DEF StartTurn, TypeOK
<1>2. CASE launch
  <2>1. /\ transfers' = NULL /\ play' = NULL /\ pause' = NULL /\ orphan' = {}
        /\ used' = [n \in Shuffles |-> {}]
        /\ taken' = [n \in Shuffles |-> [m \in Nodes \cup {NULL} |-> 0]]
    BY <1>2 DEF StartTurn
  <2>2. TypeOK'
    BY <1>1, <1>2, <2>1 DEF TypeOK, Shuffles
  <2>3. RoundsAreKept'
    <3> SUFFICES ASSUME NEW n \in Shuffles
                 PROVE \E k \in Nat : \A m \in NextIds(v, n) :
                         taken'[n][m] = k + (IF m \in used'[n] THEN 1 ELSE 0)
      BY <1>1 DEF RoundsAreKept, NextIds
    <3>1. NextIds(v, n) \subseteq Nodes \cup {NULL}
      BY PortsLead DEF Shuffles
    <3>2. \A m \in NextIds(v, n) : taken'[n][m] = 0 + (IF m \in used'[n] THEN 1 ELSE 0)
      BY <2>1, <3>1
    <3> QED BY <3>2
  <2> QED BY <1>1, <2>1, <2>2, <2>3 DEF PausedIsEnded, StreamHoldsItsPlace, TransfersAreOwn,
     PlaysAlone, AnswerIsDue, InVersion, Active
<1>3. CASE ~launch
  <2>1. UNCHANGED <<transfers, play, pause, used>>
    BY <1>3 DEF StartTurn, storage
  <2>2. /\ (anew \/ req = NULL) /\ transfers # NULL => "transfers" \in orphan'
        /\ (anew \/ v # version) /\ play # NULL => "play" \in orphan'
        /\ orphan \subseteq orphan' /\ orphan' \subseteq {"transfers", "play"}
    BY <1>3 DEF StartTurn, TypeOK
  <2>3. \A n \in Shuffles :
          taken'[n] = IF NextIds(v, n) = NextIds(version, n) THEN taken[n]
                      ELSE [m \in Nodes \cup {NULL} |-> IF m \in used[n] THEN 1 ELSE 0]
    BY <1>3 DEF StartTurn
  <2>4. taken' \in [Shuffles -> [Nodes \cup {NULL} -> Nat]]
    <3>1. taken' = [n \in Shuffles |-> taken'[n]]
      BY <1>3 DEF StartTurn
    <3>2. ASSUME NEW n \in Shuffles
          PROVE  taken'[n] \in [Nodes \cup {NULL} -> Nat]
      <4>1. taken[n] \in [Nodes \cup {NULL} -> Nat]
        BY DEF TypeOK
      <4>2. [m \in Nodes \cup {NULL} |-> IF m \in used[n] THEN 1 ELSE 0] \in [Nodes \cup {NULL} -> Nat]
        OBVIOUS
      <4> QED BY <4>1, <4>2, <2>3
    <3> QED BY <3>1, <3>2
  <2>5. TypeOK'
    BY <1>1, <1>3, <2>1, <2>2, <2>4 DEF TypeOK
  <2>6. RoundsAreKept'
    <3> SUFFICES ASSUME NEW n \in Shuffles
                 PROVE \E k \in Nat : \A m \in NextIds(v, n) :
                         taken'[n][m] = k + (IF m \in used[n] THEN 1 ELSE 0)
      BY <1>1, <2>1 DEF RoundsAreKept, NextIds
    <3>1. CASE NextIds(v, n) = NextIds(version, n)
      BY <3>1, <2>3 DEF RoundsAreKept
    <3>2. CASE NextIds(v, n) # NextIds(version, n)
      <4>1. NextIds(v, n) \subseteq Nodes \cup {NULL}
        BY PortsLead DEF Shuffles
      <4>2. \A m \in NextIds(v, n) : taken'[n][m] = 0 + (IF m \in used[n] THEN 1 ELSE 0)
        <5>1. taken'[n] = [m \in Nodes \cup {NULL} |-> IF m \in used[n] THEN 1 ELSE 0]
          BY <3>2, <2>3
        <5> QED BY <4>1, <5>1
      <4> QED BY <4>2
    <3> QED BY <3>1, <3>2
  <2>7. PausedIsEnded'
    BY <2>1 DEF PausedIsEnded, Active
  <2>8. StreamHoldsItsPlace' /\ InVersion'
    <3>1. Active(play') /\ "play" \notin orphan' =>
            Active(play) /\ "play" \notin orphan /\ ~anew /\ v = version
      BY <2>1, <2>2 DEF Active
    <3> QED BY <3>1, <1>1, <2>1 DEF StreamHoldsItsPlace, InVersion, Stays
  <2>9. TransfersAreOwn' /\ AnswerIsDue'
    <3>1. transfers' # NULL /\ "transfers" \notin orphan' =>
            transfers # NULL /\ "transfers" \notin orphan /\ ~anew /\ req # NULL
      BY <2>1, <2>2
    <3> QED BY <3>1, <1>1, <1>3, <2>1 DEF TransfersAreOwn, AnswerIsDue, Stays
  <2>10. PlaysAlone'
    BY <2>1, <2>2 DEF PlaysAlone, Active
  <2> QED BY <2>5, <2>6, <2>7, <2>8, <2>9, <2>10
<1> QED BY <1>2, <1>3

LEMMA MoveKeeps == IInv /\ Move => IInv'
<1> SUFFICES ASSUME IInv, Move PROVE IInv'
  OBVIOUS
<1>1. TypeOK /\ StreamHoldsItsPlace /\ TransfersAreOwn /\ AnswerIsDue /\ InVersion
  BY DEF IInv
<1>2. /\ Placed /\ pc = "move" /\ Stays'
      /\ pc' = "handle" => at' \in Holds[version]
  BY <1>1 DEF Move, Over, TypeOK, Placed, Stays
<1>3. UNCHANGED <<version, based, storage, orphan, taken>>
  BY DEF Move
<1>4. Active(play) /\ "play" \notin orphan => at' = at
  <2>1. Active(play) /\ "play" \notin orphan => nextID = at /\ at \in Holds[version]
    BY <1>1, <1>2 DEF StreamHoldsItsPlace, InVersion, Stays
  <2> QED BY <2>1 DEF Move
<1>5. transfers # NULL /\ "transfers" \notin orphan =>
        at' \in {at, NULL} /\ (pc' # "idle" => action' = "REQUEST")
  <2>1. transfers # NULL /\ "transfers" \notin orphan => nextID = at /\ action = "REQUEST"
    BY <1>1, <1>2 DEF TransfersAreOwn, AnswerIsDue, Stays
  <2> QED BY <2>1 DEF Move, Over
<1> QED BY <1>2, <1>3, <1>4, <1>5, BesideKeeps

LEMMA TimeoutKeeps == IInv /\ Timeout => IInv'
BY StopsHere DEF Timeout

\* What a stream makes of a request.
LEMMA TakesType ==
  ASSUME TypeOK, pc = "handle", Active(play)
  PROVE  /\ Takes[1] \in StreamActions
         /\ Takes[2] \in Nodes \cup {NULL}
         /\ Saved \in Streams \cup {NULL}
         /\ Saved # pause => Takes[1] = "END"
<1>1. play \in Play /\ play.node \in Streams /\ play.node \in Nodes /\ play.version \in Versions
  BY DEF TypeOK, Active, Play, Streams
<1>2. /\ PlayPort("next") \in Nodes \cup {NULL}
      /\ PlayPort("previous") \in Nodes \cup {NULL}
      /\ PlayPort("pause") \in Nodes \cup {NULL}
  BY <1>1, PortsLead, StorageAssumption DEF PlayPort
<1>3. at \in Nodes /\ pause \in Streams \cup {NULL} /\ CommandNode \in Nodes
  BY StorageAssumption DEF TypeOK
<1>4. Understood \in StreamActions \X (Nodes \cup {NULL})
  BY <1>2, <1>3 DEF Understood, StreamActions
<1>5. Takes \in StreamActions \X (Nodes \cup {NULL})
  BY <1>3, <1>4 DEF Takes, StreamActions
<1>6. Saved # pause => Takes = <<"END", PlayPort("pause")>>
  BY DEF Saved, Takes, Understood
<1> QED BY <1>1, <1>3, <1>5, <1>6 DEF Saved

\* A stream that takes a request.
LEMMA StreamStateKeeps == IInv /\ StreamState => IInv'
<1> SUFFICES ASSUME IInv, StreamState PROVE IInv'
  OBVIOUS
<1> USE DEF IInv
<1> DEFINE does == Takes[1]
           next == Takes[2]
<1>1. /\ pc = "handle" /\ Active(play) /\ play \in Play /\ play.node \in Streams
      /\ play' = [play EXCEPT !.action = does] /\ pause' = Saved
      /\ IF does = "END" THEN Return(next) ELSE End
      /\ UNCHANGED <<version, based, transfers, used, orphan, taken>>
  BY DEF StreamState, TypeOK, Play, Active
<1>2. /\ does \in StreamActions /\ next \in Nodes \cup {NULL} /\ Saved \in Streams \cup {NULL}
      /\ Saved # pause => does = "END"
  BY <1>1, TakesType
<1>3. play' \in Play /\ play'.node = play.node /\ play'.action = does
  BY <1>1, <1>2 DEF Play
<1>4. Placed /\ at' \in {at, NULL}
  BY <1>1, <1>2, ReturnMoves, EndMoves
<1>5. does # "END" => pc' = "idle" /\ at' = at
  BY <1>1, EndMoves
<1>6. TypeOK'
  <2> HIDE DEF does, next
  <2> QED BY <1>1, <1>2, <1>3, <1>4 DEF TypeOK, Placed, Transfers, Functions
<1>7. PausedIsEnded'
  <2> HIDE DEF does, next
  <2>1. pause # NULL => ~Active(play)
    BY DEF PausedIsEnded
  <2> QED BY <2>1, <1>1, <1>2, <1>3 DEF PausedIsEnded, Active
<1>8. StreamHoldsItsPlace' /\ InVersion'
  <2> HIDE DEF does, next
  <2>1. pc' # "handle"
    BY <1>1, <1>2, ReturnMoves, EndMoves
  <2>2. CASE does = "END"
    BY <2>1, <2>2, <1>3 DEF StreamHoldsItsPlace, InVersion, Active
  <2>3. CASE does # "END"
    BY <2>1, <2>3, <1>1, <1>3, <1>5 DEF StreamHoldsItsPlace, InVersion, Active, Stays
  <2> QED BY <2>2, <2>3
<1>9. TransfersAreOwn' /\ PlaysAlone' /\ AnswerIsDue'
  BY <1>1 DEF TransfersAreOwn, PlaysAlone, AnswerIsDue
<1>10. RoundsAreKept'
  BY <1>1 DEF RoundsAreKept
<1> QED BY <1>6, <1>7, <1>8, <1>9, <1>10

\* A stream that starts.
LEMMA StartStreamKeeps == IInv /\ StartStream => IInv'
<1> SUFFICES ASSUME IInv, StartStream PROVE IInv'
  OBVIOUS
<1> USE DEF IInv
<1>1. /\ pc = "handle" /\ at \in Streams
      /\ at \in Holds[version]
      /\ play' = [node |-> at, version |-> version, action |-> IF pause = at THEN "PAUSE" ELSE "START"]
      /\ pause' = NULL /\ orphan' = orphan \ {"play"} /\ End
      /\ UNCHANGED <<version, based, transfers, used, taken>>
  BY DEF StartStream, Handles, TypeOK, Streams, InVersion
<1>2. Placed /\ pc' = "idle" /\ at' = at
  BY <1>1, EndMoves
<1>3. play' \in Play /\ play'.node = at /\ at # NULL
  BY <1>1, StorageAssumption DEF Play, StreamActions, Streams, TypeOK
<1>4. transfers # NULL => "transfers" \in orphan
  BY <1>1, <1>3 DEF TransfersAreOwn, TypeOK, Transfers, Functions, Streams
<1>5. TypeOK'
  BY <1>1, <1>2, <1>3 DEF TypeOK, Placed, Transfers, Functions
<1>6. PausedIsEnded' /\ StreamHoldsItsPlace' /\ InVersion'
  BY <1>1, <1>2, <1>3 DEF PausedIsEnded, StreamHoldsItsPlace, InVersion, Stays
<1>7. TransfersAreOwn' /\ PlaysAlone' /\ AnswerIsDue'
  BY <1>1, <1>4 DEF TransfersAreOwn, PlaysAlone, AnswerIsDue
<1>8. RoundsAreKept'
  BY <1>1 DEF RoundsAreKept
<1> QED BY <1>5, <1>6, <1>7, <1>8

\* Where a function step leads.
LEMMA FunctionRunsKeeps ==
  ASSUME IInv, NEW command \in Commands, FunctionRuns(command)
  PROVE  IInv'
<1> USE DEF IInv
<1> DEFINE listens == PathCodes[version][at] # {} /\ command.kind = "listen"
           next == IF PathCodes[version][at] = {} THEN Port[version][at][Default] ELSE ApplyNext(at, command)
<1>1. /\ pc = "handle" /\ ~Active(play) /\ at \in Functions /\ at \in Nodes /\ at # NULL
      /\ Return(next)
      /\ UNCHANGED <<version, based, play, pause, used, taken>>
  BY StorageAssumption DEF FunctionRuns, Handles, TypeOK, Functions
<1>2. /\ listens => transfers' = [owner |-> at, to |-> command.to] /\ orphan' = orphan \ {"transfers"}
      /\ ~listens => UNCHANGED <<transfers, orphan>>
  BY DEF FunctionRuns
<1>3. \/ command.kind = "none"
      \/ command.kind = "path" /\ command.path \in Paths
      \/ command.kind = "listen" /\ command.to \in Listens
  BY DEF Commands, None, PathCommand, Listen
<1>4. next \in Nodes \cup {NULL} /\ (listens => next = at)
  <2>1. version \in Versions
    BY DEF TypeOK
  <2> QED BY <2>1, <1>1, <1>3, PortsLead, StorageAssumption DEF ApplyNext
<1> HIDE DEF next, listens
<1>5. /\ Placed /\ at' \in {at, NULL} /\ pc' \in {"idle", "move"}
      /\ next = at => pc' = "idle" /\ at' = at
  BY <1>1, <1>4, ReturnMoves
<1>6. listens => transfers' \in Transfers /\ transfers'.owner = at
  BY <1>1, <1>2, <1>3 DEF Transfers, listens
<1>7. TypeOK'
  BY <1>1, <1>2, <1>5, <1>6 DEF TypeOK, Placed, Play, Streams
<1>8. PausedIsEnded' /\ StreamHoldsItsPlace' /\ RoundsAreKept' /\ PlaysAlone' /\ InVersion'
  BY <1>1, <1>5 DEF PausedIsEnded, StreamHoldsItsPlace, RoundsAreKept, PlaysAlone, InVersion, Active
<1>9. TransfersAreOwn' /\ AnswerIsDue'
  <2>1. CASE listens
    BY <2>1, <1>1, <1>2, <1>4, <1>5, <1>6 DEF TransfersAreOwn, AnswerIsDue, Stays
  <2>2. CASE ~listens
    <3>1. ~(transfers # NULL /\ "transfers" \notin orphan)
      BY <1>1 DEF AnswerIsDue, FunctionRuns
    <3> QED BY <3>1, <2>2, <1>2 DEF TransfersAreOwn, AnswerIsDue
  <2> QED BY <2>1, <2>2
<1> QED BY <1>7, <1>8, <1>9

\* A function that answers, by a button or by the transfers.
LEMMA AnswerKeeps ==
  ASSUME IInv, pc = "handle", ~Active(play), NEW next \in Nodes \cup {NULL}, Return(next),
         transfers' = NULL, orphan' = orphan \ {"transfers"},
         UNCHANGED <<version, based, play, pause, used, taken>>
  PROVE  IInv'
<1> USE DEF IInv
<1>1. Placed /\ pc' # "handle"
  BY ReturnMoves
<1>2. TypeOK'
  BY <1>1 DEF TypeOK, Placed, Play, Streams
<1>3. PausedIsEnded' /\ StreamHoldsItsPlace' /\ RoundsAreKept' /\ PlaysAlone' /\ InVersion'
  BY <1>1 DEF PausedIsEnded, StreamHoldsItsPlace, RoundsAreKept, PlaysAlone, InVersion, Active
<1>4. TransfersAreOwn' /\ AnswerIsDue'
  BY DEF TransfersAreOwn, AnswerIsDue
<1> QED BY <1>2, <1>3, <1>4

LEMMA FunctionGuidedKeeps == IInv /\ FunctionGuided => IInv'
<1> SUFFICES ASSUME IInv, FunctionGuided PROVE IInv'
  OBVIOUS
<1> DEFINE next == GuidedButton(at)
<1>1. TypeOK
  BY DEF IInv
<1>2. /\ pc = "handle" /\ ~Active(play) /\ action = "REQUEST" /\ at \in Nodes /\ request \in Requests
      /\ version \in Versions
      /\ Return(next)
      /\ transfers' = NULL /\ orphan' = orphan \ {"transfers"}
      /\ UNCHANGED <<version, based, play, pause, used, taken>>
  BY <1>1 DEF FunctionGuided, Handles, TypeOK
<1>3. Said = "button" => request.path \in Paths
  <2>1. ASSUME NEW i \in Intents \cup {"text"}, request = Request(i, NULL)
        PROVE  request.is # "button"
    BY <2>1 DEF Request, Intents, StreamIntents
  <2>2. ASSUME NEW p \in UNION {PathCodes[v][n] : v \in Versions, n \in Nodes}, request = Request("button", p)
        PROVE  request.path \in Paths
    BY <2>2, StorageAssumption DEF Request
  <2> QED BY <1>2, <2>1, <2>2 DEF Requests, Said
<1>4. next \in Nodes \cup {NULL}
  BY <1>2, <1>3, PortsLead DEF GuidedButton
<1> HIDE DEF next
<1> QED BY <1>2, <1>4, AnswerKeeps

LEMMA FunctionAnswersKeeps == IInv /\ FunctionAnswers => IInv'
<1> SUFFICES ASSUME IInv, FunctionAnswers PROVE IInv'
  OBVIOUS
<1> DEFINE next == ListenResponse(at)
<1>1. TypeOK
  BY DEF IInv
<1>2. /\ pc = "handle" /\ ~Active(play) /\ action = "REQUEST" /\ at \in Nodes /\ request \in Requests
      /\ transfers \in Transfers /\ version \in Versions
      /\ Return(next)
      /\ transfers' = NULL /\ orphan' = orphan \ {"transfers"}
      /\ UNCHANGED <<version, based, play, pause, used, taken>>
  BY <1>1 DEF FunctionAnswers, Handles, TypeOK
<1>3. transfers.to \in [Requests -> Paths]
  BY <1>2, StorageAssumption DEF Transfers
<1>4. next \in Nodes \cup {NULL}
  BY <1>2, <1>3, PortsLead DEF ListenResponse
<1> HIDE DEF next
<1> QED BY <1>2, <1>4, AnswerKeeps

\* A random step without duplicates.
LEMMA ShuffleKeeps ==
  ASSUME IInv, NEW choice \in Nodes \cup {NULL}, Shuffle(choice)
  PROVE  IInv'
<1> USE DEF IInv
<1>1. /\ pc = "handle" /\ ~Active(play) /\ at \in Shuffles /\ at \in Nodes /\ Kind[at] # "function"
      /\ choice \in Choices(at) /\ choice \in NextIds(version, at)
      /\ version \in Versions
      /\ Return(choice)
      /\ UNCHANGED <<version, based, transfers, play, pause, orphan>>
  BY DEF Shuffle, Handles, TypeOK, Shuffles, Choices
<1>2. CASE UNCHANGED <<used, taken>>
  BY <1>1, <1>2, LeadsOn DEF storage
<1>3. CASE /\ used' = [used EXCEPT ![at] = UsedNow(at, choice)]
           /\ taken' = [taken EXCEPT ![at][choice] = @ + 1]
  <2>1. Placed /\ pc' # "handle"
    BY <1>1, ReturnMoves
  <2>2. ~(transfers # NULL /\ "transfers" \notin orphan)
    BY <1>1, StorageAssumption DEF TransfersAreOwn, TypeOK, Transfers, Functions
  <2>3. UsedNow(at, choice) \in SUBSET (Nodes \cup {NULL})
    BY <1>1 DEF UsedNow, TypeOK
  <2>4. TypeOK'
    <3>1. used' \in [Shuffles -> SUBSET (Nodes \cup {NULL})]
      BY <1>3, <2>3 DEF TypeOK
    <3>2. taken' \in [Shuffles -> [Nodes \cup {NULL} -> Nat]]
      <4> DEFINE more == [taken[at] EXCEPT ![choice] = @ + 1]
      <4>1. taken \in [Shuffles -> [Nodes \cup {NULL} -> Nat]] /\ taken[at] \in [Nodes \cup {NULL} -> Nat]
        BY <1>1 DEF TypeOK
      <4>2. more \in [Nodes \cup {NULL} -> Nat]
        BY <4>1
      <4>3. taken' = [taken EXCEPT ![at] = more]
        BY <1>3
      <4> HIDE DEF more
      <4> QED BY <4>1, <4>2, <4>3
    <3> QED BY <3>1, <3>2, <2>1, <1>1 DEF TypeOK, Placed, Play, Streams, Transfers, Functions
  <2>5. PausedIsEnded' /\ StreamHoldsItsPlace' /\ PlaysAlone' /\ InVersion'
    BY <1>1, <2>1 DEF PausedIsEnded, StreamHoldsItsPlace, PlaysAlone, InVersion, Active
  <2>6. TransfersAreOwn' /\ AnswerIsDue'
    BY <1>1, <2>2 DEF TransfersAreOwn, AnswerIsDue
  <2>7. RoundsAreKept'
    <3> SUFFICES ASSUME NEW n \in Shuffles
                 PROVE \E k \in Nat : \A m \in NextIds(version, n) :
                         taken'[n][m] = k + (IF m \in used'[n] THEN 1 ELSE 0)
      BY <1>1 DEF RoundsAreKept, NextIds
    <3>1. PICK k \in Nat : \A m \in NextIds(version, n) : taken[n][m] = k + (IF m \in used[n] THEN 1 ELSE 0)
      BY DEF RoundsAreKept
    <3>2. NextIds(version, n) \subseteq Nodes \cup {NULL}
      BY <1>1, PortsLead DEF Shuffles
    <3>3. CASE n # at
      BY <3>1, <3>3, <1>3 DEF TypeOK
    <3>4. CASE n = at /\ NextIds(version, n) \subseteq used[n]
      <4>1. used'[n] = {choice}
        BY <3>4, <1>3 DEF UsedNow, TypeOK
      <4>2. \A m \in NextIds(version, n) : taken[n][m] = k + 1
        BY <3>1, <3>4
      <4>3. \A m \in NextIds(version, n) : taken'[n][m] = (k + 1) + (IF m \in used'[n] THEN 1 ELSE 0)
        BY <4>1, <4>2, <3>1, <3>2, <3>4, <1>1, <1>3 DEF TypeOK
      <4>4. k + 1 \in Nat
        BY <3>1
      <4> WITNESS k + 1 \in Nat
      <4> QED BY <4>3
    <3>5. CASE n = at /\ ~(NextIds(version, n) \subseteq used[n])
      <4>1. used'[n] = used[n] \cup {choice} /\ choice \notin used[n]
        BY <3>5, <1>1, <1>3 DEF UsedNow, TypeOK, Choices
      <4>2. \A m \in NextIds(version, n) : taken'[n][m] = k + (IF m \in used'[n] THEN 1 ELSE 0)
        BY <4>1, <3>1, <3>2, <3>5, <1>1, <1>3 DEF TypeOK
      <4> QED BY <4>2
    <3> QED BY <3>3, <3>4, <3>5
  <2> QED BY <2>4, <2>5, <2>6, <2>7
<1> QED BY <1>2, <1>3 DEF Shuffle

\* The handlers that keep nothing: each leads to one of its ports, a command,
\* where it is or nowhere.
LEMMA PlainKeeps ==
  ASSUME IInv,
         FunctionFails \/ FunctionUnheard \/ NoPath \/ Random \/ (If /\ ~End) \/ IfV2 \/ V1
           \/ Go \/ OneShot \/ Preliminary \/ Interaction
  PROVE  IInv'
<1>1. pc = "handle" /\ ~Active(play) /\ UNCHANGED <<version, based, storage, orphan, taken>>
  BY DEF FunctionFails, FunctionUnheard, NoPath, Random, If, IfV2, V1, Go,
     OneShot, Preliminary, Interaction, Handles
<1>2. at \in Nodes /\ version \in Versions
  BY <1>1 DEF IInv, TypeOK
<1>3. /\ \A p \in Paths : Port[version][at][p] \in Nodes \cup {NULL}
      /\ \A n \in NextIds(version, at) : n \in Nodes \cup {NULL}
      /\ CommandNode \in Nodes /\ "next" \in Paths
  BY <1>2, PortsLead, StorageAssumption
<1>4. \E next \in Nodes \cup {NULL} : Return(next) /\ (Kind[at] # "function" \/ next = NULL)
  <2>1. CASE FunctionFails \/ FunctionUnheard \/ NoPath
    BY <2>1 DEF FunctionFails, FunctionUnheard, NoPath
  <2>2. CASE Random
    BY <2>2, <1>3 DEF Random, Handles
  <2>3. CASE (If /\ ~End) \/ IfV2
    BY <2>3, <1>3 DEF If, IfV2, Handles
  <2>4. CASE V1
    BY <2>4, <1>2, <1>3 DEF V1, Handles
  <2>5. CASE Go
    BY <2>5, <1>3 DEF Go, Handles
  <2>6. CASE OneShot
    <3>1. Kind[at] # "function" /\ (Return(CommandNode) \/ Return(Port[version][at]["next"]))
      BY <2>6 DEF OneShot, Handles
    <3> QED BY <3>1, <1>3
  <2>7. CASE Preliminary
    <3>1. Kind[at] # "function" /\ (Return(CommandNode) \/ Return(at))
      BY <2>7 DEF Preliminary, Handles
    <3> QED BY <3>1, <1>2, <1>3
  <2>8. CASE Interaction
    <3>1. Kind[at] # "function" /\ (Return(at) \/ Return(CommandNode) \/ Return(Port[version][at]["next"]))
      BY <2>8 DEF Interaction, Handles
    <3> QED BY <3>1, <1>2, <1>3
  <2> QED BY <2>1, <2>2, <2>3, <2>4, <2>5, <2>6, <2>7, <2>8
<1> QED BY <1>1, <1>4, LeadsOn

LEMMA NextKeeps == IInv /\ [Next]_vars => IInv'
<1> SUFFICES ASSUME IInv, [Next]_vars PROVE IInv'
  OBVIOUS
<1>1. CASE \E v \in Versions, launch, g, loaded \in BOOLEAN, req \in Requests \cup {NULL} :
             StartTurn(v, launch, req, g, loaded)
  BY <1>1, StartKeeps
<1>2. CASE Move \/ Timeout
  BY <1>2, MoveKeeps, TimeoutKeeps
<1>3. CASE StreamState \/ StartStream
  BY <1>3, StreamStateKeeps, StartStreamKeeps
<1>4. CASE FunctionGuided \/ FunctionAnswers
  BY <1>4, FunctionGuidedKeeps, FunctionAnswersKeeps
<1>5. CASE \E command \in Commands : FunctionRuns(command)
  BY <1>5, FunctionRunsKeeps
<1>6. CASE \E choice \in Nodes \cup {NULL} : Shuffle(choice)
  BY <1>6, ShuffleKeeps
<1>7. CASE FunctionFails \/ FunctionUnheard \/ NoPath \/ Random \/ (If /\ ~End) \/ IfV2 \/ V1 \/ Go
             \/ OneShot \/ Preliminary \/ Interaction
  BY <1>7, PlainKeeps
<1>8. CASE FunctionUnresolved \/ (If /\ End)
  BY <1>8, StopsHere DEF FunctionUnresolved, If
<1>9. CASE UNCHANGED vars
  <2>1. RoundsAreKept'
    BY <1>9 DEF vars, storage, IInv, RoundsAreKept, NextIds
  <2>2. TypeOK'
    BY <1>9 DEF vars, storage, IInv, TypeOK, Play, Streams, Transfers, Functions
  <2> QED BY <1>9, <2>1, <2>2 DEF vars, storage, IInv, PausedIsEnded, StreamHoldsItsPlace,
     TransfersAreOwn, PlaysAlone, AnswerIsDue, InVersion, Stays, Active
<1> QED BY <1>1, <1>2, <1>3, <1>4, <1>5, <1>6, <1>7, <1>8, <1>9 DEF Next, Handle

LEMMA InvariantHolds == Spec => []IInv
BY InitHolds, NextKeeps, PTL DEF Spec

\* A stream that is to be gone on with is never playing, nor another: the one
\* paused is forgotten when any starts (StreamHandler, StreamStateHandler).
THEOREM PausedStreamIsEnded == Spec => []PausedIsEnded
<1>1. IInv => PausedIsEnded
  BY DEF IInv
<1> QED BY <1>1, InvariantHolds, PTL

\* While a stream plays the flow waits at it (StreamStateHandler), whatever
\* requests, timeouts and versions come.
THEOREM PlayingHoldsItsPlace == Spec => []StreamHoldsItsPlace
<1>1. IInv => StreamHoldsItsPlace
  BY DEF IInv
<1> QED BY <1>1, InvariantHolds, PTL

\* The transfers in the storage are answered by the function that stored them
\* (FunctionHandler), unless the stack was started anew or the function was
\* run without a request in between.
THEOREM AnsweredByItsFunction == Spec => []TransfersAreOwn
<1>1. IInv => TransfersAreOwn
  BY DEF IInv
<1> QED BY <1>1, InvariantHolds, PTL

\* The paths of a random step without duplicates are taken equally often but
\* for one (randomHandler).
THEOREM PathsAreEven == Spec => []EvenPaths
<1>1. RoundsAreKept => EvenPaths
  <2> SUFFICES ASSUME RoundsAreKept, NEW n \in Shuffles, NEW m \in NextIds(version, n), NEW k \in NextIds(version, n)
               PROVE taken[n][m] <= taken[n][k] + 1
    BY DEF EvenPaths
  <2>1. PICK r \in Nat : \A l \in NextIds(version, n) : taken[n][l] = r + (IF l \in used[n] THEN 1 ELSE 0)
    BY DEF RoundsAreKept
  <2> QED BY <2>1
<1>2. IInv => EvenPaths
  BY <1>1 DEF IInv
<1> QED BY <1>2, InvariantHolds, PTL
-----------------------------------------------------------------------------
(* The API step: the limiter never counts a call twice and delays none too *)
(* soon, and what a call stores is its answer's.                           *)


\* A count read is that of calls made by then, and none of a key that is gone.
ReadIsPast ==
  \A c \in Calls :
    /\ stage[c] \in {"ttl", "set"} => read[c] <= counted
    /\ stage[c] = "first" => read[c] = 0

\* Whoever counts alone holds the current count.
AloneIsCurrent ==
  exact => \A c \in Calls :
             /\ stage[c] \in {"ttl", "set"} => read[c] = uses
             /\ stage[c] = "first" => uses = 0
             /\ stage[c] \in Counting => \A d \in Calls \ {c} : stage[d] \notin Counting

LimiterInv ==
  /\ CallsTypeOK /\ ReadIsPast /\ AloneIsCurrent
  /\ NeverOvercounts /\ DelayedOnlyWhenBusy /\ ExactWhenAlone

LEMMA LimiterInit == CallsInit => LimiterInv
BY OutgoingAssumption DEF CallsInit, LimiterInv, CallsTypeOK, ReadIsPast, AloneIsCurrent,
   NeverOvercounts,
   DelayedOnlyWhenBusy, ExactWhenAlone, Phases, Counting

\* A write of the next count: by whoever read before, with a ttl that redis
\* accepts.
LEMMA WriteKeeps ==
  ASSUME LimiterInv, NEW c \in Calls, NEW heard \in BOOLEAN, NEW lives \in 1..WINDOW,
         stage[c] \in {"first", "set"}, Counted(c, lives), AfterCount(c, heard),
         UNCHANGED <<proxy, step>>
  PROVE  LimiterInv'
<1> USE DEF LimiterInv
<1>1. NextCount(c) = read[c] + 1 /\ NextCount(c) <= counted + 1 /\ NextCount(c) \in Nat \ {0}
  BY DEF NextCount, ReadIsPast, CallsTypeOK
<1>2. exact => NextCount(c) = uses + 1
  BY DEF NextCount, AloneIsCurrent, ReadIsPast, CallsTypeOK
<1>3. /\ stage'[c] \in {"delayed", "request"}
      /\ \A d \in Calls \ {c} : stage'[d] = stage[d] /\ read'[d] = read[d] /\ ttl'[d] = ttl[d]
      /\ stage'[c] = "delayed" => NextCount(c) > LIMIT
      /\ read'[c] = 0 /\ ttl'[c] = 0
      /\ stage' \in [Calls -> Phases]
      /\ read' \in [Calls -> Nat] /\ ttl' \in [Calls -> {-2} \cup 0..WINDOW]
  BY OutgoingAssumption DEF AfterCount, Leave, Enter, CallsTypeOK, Phases, Counting
<1>4. uses' = NextCount(c) /\ left' = lives /\ counted' = counted + 1 /\ window' = window + 1
  BY DEF Counted
<1>5. exact' = (exact /\ heard)
  BY DEF AfterCount
<1>6. CallsTypeOK'
  BY <1>1, <1>3, <1>4, <1>5, OutgoingAssumption DEF CallsTypeOK, step
<1>7. ReadIsPast'
  BY <1>3, <1>4 DEF ReadIsPast, CallsTypeOK
<1>8. AloneIsCurrent'
  BY <1>3, <1>4, <1>5 DEF AloneIsCurrent, Counting
<1>9. NeverOvercounts' /\ ExactWhenAlone'
  BY <1>1, <1>2, <1>4, <1>5 DEF NeverOvercounts, ExactWhenAlone, CallsTypeOK
<1>10. DelayedOnlyWhenBusy'
  BY <1>1, <1>3, <1>4, OutgoingAssumption DEF DelayedOnlyWhenBusy, CallsTypeOK
<1> QED BY <1>6, <1>7, <1>8, <1>9, <1>10

\* A step of one call beside the counter, to a phase in which it holds none.
LEMMA CountBesideKeeps ==
  ASSUME LimiterInv, NEW c \in Calls, NEW to \in Phases \ (Counting \cup {"delayed"}), Enter(c,
         to),
         read' = read \/ read' = [read EXCEPT ![c] = 0],
         ttl' = ttl \/ ttl' = [ttl EXCEPT ![c] = 0],
         exact' \in BOOLEAN, exact' => exact,
         UNCHANGED <<proxy, redis, counted, window>>
  PROVE  LimiterInv'
<1> USE DEF LimiterInv
<1>1. /\ stage'[c] = to /\ \A d \in Calls \ {c} : stage'[d] = stage[d] /\ read'[d] = read[d]
      /\ stage' \in [Calls -> Phases] /\ read' \in [Calls -> Nat]
  BY DEF Enter, CallsTypeOK
<1>2. ttl' \in [Calls -> {-2} \cup 0..WINDOW]
  BY OutgoingAssumption DEF CallsTypeOK
<1>3. CallsTypeOK'
  BY <1>1, <1>2 DEF CallsTypeOK, redis
<1>4. ReadIsPast' /\ AloneIsCurrent'
  BY <1>1 DEF ReadIsPast, AloneIsCurrent, redis, Counting
<1>5. NeverOvercounts' /\ ExactWhenAlone' /\ DelayedOnlyWhenBusy'
  BY <1>1 DEF NeverOvercounts, ExactWhenAlone, DelayedOnlyWhenBusy, redis
<1> QED BY <1>3, <1>4, <1>5

LEMMA ReadKeeps ==
  ASSUME LimiterInv, NEW c \in Calls, GetHostnameUses(c)
  PROVE  LimiterInv'
<1> USE DEF LimiterInv
<1>1. /\ stage'[c] = (IF uses = 0 THEN "first" ELSE "ttl") /\ read'[c] = uses
      /\ \A d \in Calls \ {c} : stage'[d] = stage[d] /\ read'[d] = read[d]
      /\ stage' \in [Calls -> Phases] /\ read' \in [Calls -> Nat]
  BY DEF GetHostnameUses, Enter, CallsTypeOK, Phases, Counting
<1>2. exact' = (exact /\ \A d \in Calls : stage[d] \notin Counting)
  BY DEF GetHostnameUses
<1>3. UNCHANGED <<proxy, uses, left, ttl, counted, window>>
  BY DEF GetHostnameUses, redis
<1>4. CallsTypeOK'
  BY <1>1, <1>2, <1>3 DEF CallsTypeOK
<1>5. ReadIsPast'
  BY <1>1, <1>3 DEF ReadIsPast, NeverOvercounts
<1>6. AloneIsCurrent'
  BY <1>1, <1>2, <1>3 DEF AloneIsCurrent, Counting
<1>7. NeverOvercounts' /\ ExactWhenAlone'
  BY <1>2, <1>3 DEF NeverOvercounts, ExactWhenAlone
<1>8. DelayedOnlyWhenBusy'
  BY <1>1, <1>3 DEF DelayedOnlyWhenBusy
<1> QED BY <1>4, <1>5, <1>6, <1>7, <1>8

LEMMA AskKeeps ==
  ASSUME LimiterInv, NEW c \in Calls, GetTTL(c)
  PROVE  LimiterInv'
<1> USE DEF LimiterInv
<1>1. /\ stage[c] = "ttl" /\ stage'[c] = "set" /\ \A d \in Calls \ {c} : stage'[d] = stage[d]
      /\ stage' \in [Calls -> Phases]
  BY DEF GetTTL, Enter, CallsTypeOK, Phases, Counting
<1>2. UNCHANGED <<proxy, uses, left, read, counted, window, exact>>
  BY DEF GetTTL, redis, history
<1>3. ttl' \in [Calls -> {-2} \cup 0..WINDOW]
  <2>1. Remaining \subseteq {-2} \cup 0..WINDOW
    BY OutgoingAssumption DEF Remaining, CallsTypeOK
  <2> QED BY <2>1 DEF GetTTL, CallsTypeOK
<1>4. CallsTypeOK'
  BY <1>1, <1>2, <1>3 DEF CallsTypeOK
<1>5. ReadIsPast' /\ AloneIsCurrent'
  BY <1>1, <1>2 DEF ReadIsPast, AloneIsCurrent, Counting
<1>6. NeverOvercounts' /\ ExactWhenAlone' /\ DelayedOnlyWhenBusy'
  BY <1>1, <1>2 DEF NeverOvercounts, ExactWhenAlone, DelayedOnlyWhenBusy
<1> QED BY <1>4, <1>5, <1>6

LEMMA TickKeeps ==
  ASSUME LimiterInv, Tick
  PROVE  LimiterInv'
<1> USE DEF LimiterInv
<1>1. UNCHANGED <<proxy, stage, read, ttl, counted>> /\ left' = left - 1 /\ left > 0
  BY DEF Tick
<1>2. CASE left = 1
  <2>1. uses' = 0 /\ window' = 0 /\ exact' = (\A d \in Calls : stage[d] \notin Counting)
    BY <1>2 DEF Tick
  <2>2. CallsTypeOK'
    <3>1. exact' \in BOOLEAN
      BY <2>1
    <3> QED BY <1>1, <1>2, <2>1, <3>1, OutgoingAssumption DEF CallsTypeOK
  <2>3. ReadIsPast' /\ AloneIsCurrent' /\ ExactWhenAlone' /\ NeverOvercounts' /\ DelayedOnlyWhenBusy'
    BY <1>1, <2>1 DEF ReadIsPast, AloneIsCurrent, ExactWhenAlone, NeverOvercounts,
       DelayedOnlyWhenBusy, Counting, CallsTypeOK
  <2> QED BY <2>2, <2>3
<1>3. CASE left # 1
  <2>1. UNCHANGED <<uses, window, exact>>
    BY <1>3 DEF Tick
  <2>2. CallsTypeOK'
    BY <1>1, <1>3, <2>1, OutgoingAssumption DEF CallsTypeOK
  <2>3. ReadIsPast' /\ AloneIsCurrent' /\ ExactWhenAlone' /\ NeverOvercounts' /\ DelayedOnlyWhenBusy'
    BY <1>1, <2>1 DEF ReadIsPast, AloneIsCurrent, ExactWhenAlone, NeverOvercounts,
       DelayedOnlyWhenBusy
  <2> QED BY <2>2, <2>3
<1> QED BY <1>2, <1>3

LEMMA ProceedKeeps ==
  ASSUME LimiterInv, NEW c \in Calls, Proceed(c)
  PROVE  LimiterInv'
<1>1. CASE GetHostnameUses(c) BY <1>1, ReadKeeps
<1>2. CASE GetTTL(c) BY <1>2, AskKeeps
<1>3. CASE CountFails(c)
  <2>1. Enter(c, "request") /\ exact' = FALSE /\ UNCHANGED <<proxy, redis, counted, window>>
    BY <1>3 DEF CountFails, Leave
  <2>2. read' = [read EXCEPT ![c] = 0] /\ ttl' = [ttl EXCEPT ![c] = 0]
    BY <1>3 DEF CountFails, Leave
  <2>3. "request" \in Phases \ (Counting \cup {"delayed"})
    BY DEF Phases, Counting
  <2> QED BY <2>1, <2>2, <2>3, CountBesideKeeps
<1>4. ASSUME NEW heard \in BOOLEAN, SetFirst(c, heard) PROVE LimiterInv'
  <2>1. Counted(c, WINDOW) /\ AfterCount(c, heard) /\ UNCHANGED <<proxy, step>> /\ stage[c] \in {"first", "set"}
    BY <1>4 DEF SetFirst
  <2>2. WINDOW \in 1..WINDOW
    BY OutgoingAssumption
  <2> QED BY <2>1, <2>2, WriteKeeps
<1>5. ASSUME NEW heard \in BOOLEAN, SetAgain(c, heard) PROVE LimiterInv'
  <2>1. Counted(c, ttl[c]) /\ AfterCount(c, heard) /\ UNCHANGED <<proxy, step>> /\ stage[c] \in {"first", "set"}
    BY <1>5 DEF SetAgain
  <2>2. ttl[c] \in 1..WINDOW
    BY <1>5, OutgoingAssumption DEF SetAgain, LimiterInv, CallsTypeOK
  <2> QED BY <2>1, <2>2, WriteKeeps
<1>6. ASSUME Delay(c) \/ CreateRequest(c) \/ RequestFails(c) \/ Abort(c) PROVE LimiterInv'
  <2>1. PICK to \in {"request", "fetch", "done"} : Enter(c, to)
    BY <1>6 DEF Delay, CreateRequest, RequestFails, Abort, Fail
  <2>2. UNCHANGED <<proxy, redis, read, ttl, counted, window, exact>>
    BY <1>6 DEF Delay, CreateRequest, RequestFails, Abort, history
  <2>3. to \in Phases \ (Counting \cup {"delayed"}) /\ exact' \in BOOLEAN
    BY <2>2 DEF Phases, Counting, LimiterInv, CallsTypeOK
  <2> QED BY <2>1, <2>2, <2>3, CountBesideKeeps
<1> QED BY <1>1, <1>2, <1>3, <1>4, <1>5, <1>6 DEF Proceed

LEMMA LimiterKeeps == LimiterInv /\ [CallsNext]_callsVars => LimiterInv'
<1> SUFFICES ASSUME LimiterInv, [CallsNext]_callsVars PROVE LimiterInv'
  OBVIOUS
<1>1. ASSUME NEW c \in Calls, Proceed(c) PROVE LimiterInv'
  BY <1>1, ProceedKeeps
<1>2. ASSUME NEW c \in Calls, Validate(c) \/ RejectAddress(c) \/ Hosted(c) PROVE LimiterInv'
  <2>1. PICK to \in {"get", "done"} : Enter(c, to)
    BY <1>2 DEF Validate, RejectAddress, Hosted, Answer, AnswerFails, LambdaFails, Fail
  <2>2. UNCHANGED <<proxy, redis, read, ttl, counted, window, exact>>
    BY <1>2 DEF Validate, RejectAddress, Hosted, Answer, AnswerFails, LambdaFails, history
  <2>3. to \in Phases \ (Counting \cup {"delayed"}) /\ exact' \in BOOLEAN
    BY <2>2 DEF Phases, Counting, LimiterInv, CallsTypeOK
  <2> QED BY <2>1, <2>2, <2>3, CountBesideKeeps
<1>3. CASE Tick BY <1>3, TickKeeps
<1>4. CASE UNCHANGED callsVars
  BY <1>4 DEF callsVars, redis, history, LimiterInv, CallsTypeOK, ReadIsPast, AloneIsCurrent,
     NeverOvercounts,
     DelayedOnlyWhenBusy, ExactWhenAlone
<1> QED BY <1>1, <1>2, <1>3, <1>4 DEF CallsNext

LEMMA LimiterHolds == CallsSpec => []LimiterInv
BY LimiterInit, LimiterKeeps, PTL DEF CallsSpec

\* The counter of a host never exceeds the calls that were counted.
THEOREM NeverCountedTwice == CallsSpec => []NeverOvercounts
<1>1. LimiterInv => NeverOvercounts BY DEF LimiterInv
<1> QED BY <1>1, LimiterHolds, PTL

\* No call waits unless more than the limit were made.
THEOREM NoneWaitsTooSoon == CallsSpec => []DelayedOnlyWhenBusy
<1>1. LimiterInv => DelayedOnlyWhenBusy BY DEF LimiterInv
<1> QED BY <1>1, LimiterHolds, PTL

\* The counter is exact as long as calls are counted one at a time.
THEOREM AloneIsExact == CallsSpec => []ExactWhenAlone
<1>1. LimiterInv => ExactWhenAlone BY DEF LimiterInv
<1> QED BY <1>1, LimiterHolds, PTL
-----------------------------------------------------------------------------
(* What a call stores.                                                     *)

\* An answer comes last.
AnswersEnd ==
  /\ stage \in [Calls -> Phases]
  /\ answer \in [Calls -> Received \cup {NONE}]
  /\ store = [c \in Calls |-> store[c]] /\ port = [c \in Calls |-> port[c]]
  /\ \A c \in Calls : answer[c] # NONE => stage[c] = "done"

Stored == AnswersEnd /\ AllOrNothing

\* A step of a call that has no answer yet and gets none.
LEMMA UnansweredKeeps ==
  ASSUME Stored, NEW c \in Calls, NEW to \in Phases \ {"done"}, stage[c] # "done", Enter(c, to),
         UNCHANGED step
  PROVE  Stored'
<1>1. /\ stage'[c] = to /\ \A d \in Calls \ {c} : stage'[d] = stage[d]
      /\ stage' \in [Calls -> Phases]
  BY DEF Enter, Stored, AnswersEnd
<1>2. AnswersEnd'
  BY <1>1 DEF Stored, AnswersEnd, step
<1>3. AllOrNothing'
  BY <1>1 DEF Stored, AllOrNothing, AnswersEnd, step
<1> QED BY <1>2, <1>3 DEF Stored

LEMMA FailureStoresNothing ==
  ASSUME Stored, NEW c \in Calls, stage[c] # "done", Fail(c)
  PROVE  Stored'
<1>1. /\ stage'[c] = "done" /\ \A d \in Calls \ {c} : stage'[d] = stage[d] /\ port'[d] = port[d]
      /\ stage' \in [Calls -> Phases] /\ port'[c] = "fail"
      /\ port' = [d \in Calls |-> port'[d]]
  BY DEF Fail, Enter, Stored, AnswersEnd, Phases
<1>2. UNCHANGED <<answer, store>>
  BY DEF Fail
<1>3. AnswersEnd'
  BY <1>1, <1>2 DEF Stored, AnswersEnd
<1>4. AllOrNothing'
  BY <1>1, <1>2 DEF Stored, AllOrNothing, AnswersEnd
<1> QED BY <1>3, <1>4 DEF Stored

LEMMA AnswerStoresAll ==
  ASSUME Stored, NEW c \in Calls, NEW ok \in BOOLEAN, NEW body \in Received, Answer(c, ok, body)
  PROVE  Stored'
<1>1. /\ stage[c] = "fetch" /\ stage'[c] = "done" /\ stage' \in [Calls -> Phases]
      /\ answer'[c] = body /\ answer' \in [Calls -> Received \cup {NONE}]
      /\ \A d \in Calls \ {c} : stage'[d] = stage[d] /\ answer'[d] = answer[d]
  BY DEF Answer, Enter, Stored, AnswersEnd, Phases
<1>2. /\ store'[c] = Merged(store[c], body) /\ store' = [d \in Calls |-> store'[d]]
      /\ port' = [d \in Calls |-> port'[d]]
      /\ \A d \in Calls \ {c} : store'[d] = store[d] /\ port'[d] = port[d]
  BY DEF Answer, Stored, AnswersEnd
<1>3. Maps(body) /\ body # NONE
  BY AnswerAssumption DEF Answer
<1>4. \A x \in Names : store[c][x] = OLD
  BY <1>1 DEF Stored, AllOrNothing
<1>5. \A x \in Names : /\ Extract(Path[x], body) # THROWS
                       /\ store'[c][x] = IF Extract(Path[x], body) = UNDEF THEN OLD
                                                                        ELSE Extract(Path[x], body)
  BY <1>2, <1>3, <1>4 DEF Merged, Maps
<1>6. AnswersEnd'
  BY <1>1, <1>2 DEF Stored, AnswersEnd
<1>7. AllOrNothing'
  <2> SUFFICES ASSUME NEW d \in Calls
               PROVE  /\ stage'[d] # "done" \/ answer'[d] = NONE => \A x \in Names : store'[d][x] = OLD
                      /\ stage'[d] = "done" /\ answer'[d] = NONE => port'[d] = "fail"
                      /\ answer'[d] # NONE =>
                           \A x \in Names :
                             /\ Extract(Path[x], answer'[d]) # THROWS
                             /\ store'[d][x] = IF Extract(Path[x], answer'[d]) = UNDEF THEN OLD
                                               ELSE Extract(Path[x], answer'[d])
    BY DEF AllOrNothing
  <2>1. CASE d = c
    BY <1>1, <1>3, <1>5, <2>1
  <2>2. CASE d # c
    BY <1>1, <1>2, <2>2 DEF Stored, AllOrNothing
  <2> QED BY <2>1, <2>2
<1> QED BY <1>6, <1>7 DEF Stored

\* What the answer of a call defines is stored as a whole or not at all, and
\* a call that stored nothing takes the fail port (APIHandler, makeAPICall).
THEOREM StoredAsAnswered == CallsSpec => []AllOrNothing
<1>1. CallsInit => Stored
  BY DEF CallsInit, Stored, AnswersEnd, AllOrNothing, Phases, Counting
<1>2. ASSUME Stored, [CallsNext]_callsVars PROVE Stored'
  <2>1. CASE Tick \/ UNCHANGED callsVars
    <3>1. UNCHANGED <<stage, answer, store, port>>
      BY <2>1 DEF Tick, callsVars, step
    <3> QED BY <1>2, <3>1 DEF Stored, AnswersEnd, AllOrNothing
  <2>2. ASSUME NEW c \in Calls,
               \/ Validate(c) \/ GetHostnameUses(c) \/ GetTTL(c) \/ CountFails(c)
               \/ \E heard \in BOOLEAN : SetFirst(c, heard) \/ SetAgain(c, heard)
               \/ Delay(c) \/ CreateRequest(c)
        PROVE  Stored'
    <3>1. stage[c] # "done" /\ UNCHANGED step
      BY <2>2 DEF Validate, GetHostnameUses, GetTTL, CountFails, SetFirst, SetAgain, Delay,
         CreateRequest, Counting
    <3>2. PICK to \in {"get", "first", "ttl", "set", "delayed", "request", "fetch"} : Enter(c, to)
      BY <2>2 DEF Validate, GetHostnameUses, GetTTL, CountFails, SetFirst, SetAgain, Delay,
         CreateRequest, AfterCount, Leave
    <3>3. to \in Phases \ {"done"}
      BY DEF Phases, Counting
    <3> QED BY <1>2, <3>1, <3>2, <3>3, UnansweredKeeps
  <2>3. ASSUME NEW c \in Calls,
               RejectAddress(c) \/ RequestFails(c) \/ Abort(c) \/ AnswerFails(c) \/ LambdaFails(c)
        PROVE  Stored'
    <3>1. stage[c] # "done" /\ Fail(c)
      BY <2>3 DEF RejectAddress, RequestFails, Abort, AnswerFails, LambdaFails
    <3> QED BY <1>2, <3>1, FailureStoresNothing
  <2>4. ASSUME NEW c \in Calls, NEW ok \in BOOLEAN, NEW body \in Received, Answer(c, ok, body)
        PROVE  Stored'
    BY <1>2, <2>4, AnswerStoresAll
  <2> QED BY <1>2, <2>1, <2>2, <2>3, <2>4 DEF CallsNext, Proceed, Hosted
<1>3. Stored => AllOrNothing
  BY DEF Stored
<1> QED BY <1>1, <1>2, <1>3, PTL DEF CallsSpec
=============================================================================
