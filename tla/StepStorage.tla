----------------------------- MODULE StepStorage -----------------------------
(***************************************************************************)
(* Steps that keep something in the storage of the session between turns:  *)
(* a function step what it listens for, a stream step what is playing or   *)
(* paused, a random step the paths it has taken.  The storage is one for   *)
(* the session, not one per step or flow: it outlives a flow that ends and *)
(* a change of version, and only a launch empties it.                      *)
(*                                                                         *)
(* One flow runs; flows above and below it are in Runtime.                 *)
(***************************************************************************)
EXTENDS Integers, Sequences, FiniteSets

CONSTANTS
  Nodes, Kind, Versions,
  DevVersion,  \* the development version of the project
  Holds,       \* nodes of each version
  Start,       \* its start node
  Paths,       \* names of ports
  Outs,        \* ports of each random step, by version
  Port,        \* node a port of a node leads to in a version, NULL if none
  PathCodes,   \* paths each function declares in a version
  Loops,       \* stream nodes that loop
  Listens,     \* what a function may listen for: a path per request
  CommandNode, \* node a command leads to
  Default,     \* __vf__default, the port of a function without paths
  NULL,
  MaxTaken     \* bound: a random path is taken so often between launches

Kinds == {"start", "function", "stream", "random", "shuffle", "if", "ifv2", "v1", "listen", "step"}

\* What a stream understands, and what it does not.
StreamIntents == {"pause", "resume", "restart", "next", "previous", "cancel", "nearly finished"}
Intents == StreamIntents \cup {"command", "other"}
Request(is, path) == [is |-> is, path |-> path]
Requests == {Request(i, NULL) : i \in Intents \cup {"text"}}
            \cup {Request("button", p) :
                      p \in UNION {PathCodes[v][n] : v \in Versions, n \in Nodes}}

ASSUME StorageAssumption ==
  /\ Kind \in [Nodes -> Kinds]
  /\ Holds \in [Versions -> SUBSET Nodes]
  /\ \A v \in Versions : Start[v] \in Holds[v] /\ CommandNode \in Holds[v]
  /\ Start \in [Versions -> Nodes]
  /\ NULL \notin Nodes
  /\ CommandNode \in Nodes
  /\ {"next", "pause", "previous", Default} \subseteq Paths
  /\ Outs \in [Versions -> [Nodes -> SUBSET Paths]]
  /\ Port \in [Versions -> [Nodes -> [Paths -> Nodes \cup {NULL}]]]
  /\ PathCodes \in [Versions -> [Nodes -> SUBSET Paths]]
  /\ Loops \subseteq Nodes
  /\ Listens \subseteq [Requests -> Paths]
  /\ MaxTaken \in Nat

VARIABLES
  version,   \* of the turn
  based,     \* the base frame of the version is on the stack
  at,        \* node id of the flow's frame, NULL when the stack is empty
  transfers, \* FUNCTION_CONDITIONAL_TRANSFERS
  play,      \* STREAM_PLAY
  pause,     \* STREAM_PAUSE: the stream to go on with
  used,      \* RANDOMS: paths each node has taken in this round
  pc,        \* idle, move, handle
  action,    \* Action of the runtime: REQUEST, then RUNNING
  request,   \* NULL: none, or a launch
  guided,    \* guided navigation: of the development version, with stopAll
  nextID,
  orphan,    \* history: the stack was started anew while this was stored, or
             \* meanwhile a turn came without a request (transfers) or with
             \* another version (play)
  taken      \* history: how often a random path was taken since the launch,
             \* or since the round in which a version brought other paths

storage == <<transfers, play, pause, used>>
vars == <<version, based, at, storage, pc, action, request, guided, nextID, orphan, taken>>

Streams == {n \in Nodes : Kind[n] = "stream"}
Functions == {n \in Nodes : Kind[n] = "function"}
Shuffles == {n \in Nodes : Kind[n] = "shuffle"}

\* Where the paths of a random step lead, nowhere among it; two may lead alike.
NextIds(v, n) == {Port[v][n][p] : p \in Outs[v][n]}

StreamActions == {"START", "PAUSE", "RESUME", "LOOP", "NOEFFECT", "END"}
Play == [node : Streams, version : Versions, action : StreamActions]
Transfers == [owner : Functions, to : Listens]

Active(p) == p # NULL /\ p.action # "END"
-----------------------------------------------------------------------------
(* A turn.                                                                 *)

\* A launch empties storage and stack; so does a new version the stack, if the
\* base frame shows that it is new.  A turn need not bring a request.
StartTurn(v, launch, req, g, loaded) ==
  LET anew == launch \/ at = NULL \/ (based /\ v # version)
  IN /\ pc = "idle"
     /\ launch \/ \A n \in Shuffles : \A m \in Nodes \cup {NULL} : taken[n][m] < MaxTaken
     /\ version' = v /\ guided' = (g /\ v = DevVersion)
     /\ based' = ((~anew /\ based) \/ loaded)
     /\ request' = IF launch THEN NULL ELSE req
     /\ at' = IF anew THEN Start[v] ELSE at
     /\ action' = IF request' = NULL THEN "RUNNING" ELSE "REQUEST"
     /\ pc' = "move" /\ nextID' = at'
     /\ IF launch
          THEN /\ transfers' = NULL /\ play' = NULL /\ pause' = NULL
               /\ used' = [n \in Shuffles |-> {}]
               /\ taken' = [n \in Shuffles |-> [m \in Nodes \cup {NULL} |-> 0]]
               /\ orphan' = {}
          ELSE /\ UNCHANGED storage
               /\ taken' = [n \in Shuffles |->
                              IF NextIds(v, n) = NextIds(version, n) THEN taken[n]
                              ELSE [m \in Nodes \cup {NULL} |-> IF m \in used[n] THEN 1 ELSE 0]]
               /\ orphan' = orphan
                    \cup (IF (anew \/ req = NULL) /\ transfers # NULL THEN {"transfers"} ELSE {})
                    \cup (IF (anew \/ v # version) /\ play # NULL THEN {"play"} ELSE {})

\* The runtime of a turn is gone when it ends.
Over == pc' = "idle" /\ nextID' = NULL /\ action' = "RUNNING" /\ request' = NULL /\ guided' = FALSE

\* A handler returns a node id or null, or has called runtime.end.
Return(next) ==
  IF next = at THEN Over /\ UNCHANGED at
  ELSE IF next = NULL THEN Over /\ at' = NULL
  ELSE /\ pc' = "move" /\ nextID' = next /\ action' = "RUNNING"
       /\ UNCHANGED <<at, request, guided>>

End == Over /\ UNCHANGED at

\* cycleHandler begins with the node of the frame and goes on with the one
\* returned, or leaves the flow if it is none of the version's.
Move ==
  /\ pc = "move"
  /\ IF nextID \in Holds[version]
       THEN at' = nextID /\ nextID' = NULL /\ pc' = "handle" /\ UNCHANGED <<action, request, guided>>
       ELSE at' = NULL /\ Over
  /\ UNCHANGED <<version, based, storage, orphan, taken>>

\* Time is up: the flow stays where it was, whatever was returned.
Timeout ==
  /\ pc = "move"
  /\ End
  /\ UNCHANGED <<version, based, storage, orphan, taken>>
-----------------------------------------------------------------------------
(* Streams.                                                                *)

\* What a request says, nothing if there is none.
Said == IF request = NULL THEN "none" ELSE request.is

\* Ports of the stream that plays, kept from the version it started in.
PlayPort(p) == Port[play.version][play.node][p]

\* What a stream makes of a request: its next action and node, NULL for none
\* and itself to wait where it is.
Understood ==
  CASE Said = "pause" /\ PlayPort("pause") # NULL -> <<"END", PlayPort("pause")>>
    [] Said = "pause" /\ PlayPort("pause") = NULL -> <<"PAUSE", at>>
    [] Said = "resume" -> <<"RESUME", at>>
    [] Said = "restart" -> <<"START", at>>
    [] Said = "next" -> <<"END", PlayPort("next")>>
    [] Said = "previous" -> <<"END", PlayPort("previous")>>
    [] Said = "cancel" -> <<"PAUSE", at>>
    [] Said = "nearly finished" ->
         IF play.node \in Loops THEN <<"LOOP", at>> ELSE <<"END", PlayPort("next")>>
    [] OTHER -> <<"NOEFFECT", at>>

Takes == IF Said = "command" THEN <<"END", CommandNode>> ELSE Understood

\* Saved when the flow is to come back to the stream.
Saved == IF Said = "pause" /\ PlayPort("pause") # NULL THEN play.node ELSE pause

\* Faulty variant: a stream that leads on keeps what it was doing.
StreamStateLeft ==
  /\ pc = "handle" /\ Active(play)
  /\ play' = [play EXCEPT !.action = IF Takes[1] = "END" THEN @ ELSE Takes[1]]
  /\ pause' = Saved
  /\ IF Takes[1] = "END" THEN Return(Takes[2]) ELSE End
  /\ UNCHANGED <<version, based, transfers, used, orphan, taken>>

\* StreamStateHandler: while a stream plays it takes whatever node comes.
StreamState ==
  /\ pc = "handle" /\ Active(play)
  /\ play' = [play EXCEPT !.action = Takes[1]]
  /\ pause' = Saved
  /\ IF Takes[1] = "END" THEN Return(Takes[2]) ELSE End
  /\ UNCHANGED <<version, based, transfers, used, orphan, taken>>

Handles(kind) == pc = "handle" /\ ~Active(play) /\ Kind[at] = kind

\* Faulty variant: what is paused elsewhere is still to be gone on with.
StartStreamKeepPause ==
  /\ Handles("stream") /\ action = "RUNNING"
  /\ play' = [node |-> at, version |-> version, action |-> IF pause = at THEN "PAUSE" ELSE "START"]
  /\ pause' = IF pause = at THEN NULL ELSE pause
  /\ End
  /\ orphan' = orphan \ {"play"}
  /\ UNCHANGED <<version, based, transfers, used, taken>>

\* StreamHandler: a paused stream goes on, and no other stays paused.
StartStream ==
  /\ Handles("stream") /\ action = "RUNNING"
  /\ play' = [node |-> at, version |-> version, action |-> IF pause = at THEN "PAUSE" ELSE "START"]
  /\ pause' = NULL
  /\ End
  /\ orphan' = orphan \ {"play"}
  /\ UNCHANGED <<version, based, transfers, used, taken>>
-----------------------------------------------------------------------------
(* Functions.                                                              *)

\* What the lambda may answer with, a command of the function if all goes well.
Payloads == {"none", "garbage", "unexpected", "error", "malformed", "command"}

\* Commands: nothing, a path or what to listen for.
None == [kind |-> "none"]
PathCommand(p) == [kind |-> "path", path |-> p]
Listen(l) == [kind |-> "listen", to |-> l]
Commands == {None} \cup {PathCommand(p) : p \in Paths} \cup {Listen(l) : l \in Listens}

\* The paths of a listen command are not looked at.
ValidNext(n, command) == command.kind = "path" => command.path \in PathCodes[version][n]

\* executeFunction: the inputs are of their types, the lambda answers with a
\* command, its path is declared and its traces are well formed.
Executes(n, inputs, payload, command, traces) ==
  inputs /\ payload = "command" /\ ValidNext(n, command) /\ traces

\* applyNextCommand.
ApplyNext(n, command) ==
  CASE command.kind = "path" -> Port[version][n][command.path]
    [] command.kind = "listen" -> n
    [] command.kind = "none" -> NULL

\* The transfers stored last, whoever's they are, name a path of this node.
ListenResponse(n) == Port[version][n][transfers.to[request]]

GuidedButton(n) == IF Said = "button" THEN Port[version][n][request.path] ELSE NULL

\* The version does not have the definition the step refers to, which is
\* thrown out of the handler: the turn ends at the function.
FunctionUnresolved ==
  /\ Handles("function")
  /\ End
  /\ UNCHANGED <<version, based, storage, orphan, taken>>

\* The function throws: a debug trace, and the flow ends.
FunctionFails ==
  /\ Handles("function") /\ action = "RUNNING"
  /\ \E inputs, traces \in BOOLEAN, payload \in Payloads, command \in Commands :
       ~Executes(at, inputs, payload, command, traces)
  /\ Return(NULL)
  /\ UNCHANGED <<version, based, storage, orphan, taken>>

\* The function runs, and its command is applied.
FunctionRuns(command) ==
  /\ Handles("function") /\ action = "RUNNING"
  /\ Executes(at, TRUE, "command", command, TRUE)
  /\ IF PathCodes[version][at] # {} /\ command.kind = "listen"
       THEN /\ transfers' = [owner |-> at, to |-> command.to]
            /\ orphan' = orphan \ {"transfers"}
       ELSE UNCHANGED <<transfers, orphan>>
  /\ Return(IF PathCodes[version][at] = {} THEN Port[version][at][Default] ELSE ApplyNext(at, command))
  /\ UNCHANGED <<version, based, play, pause, used, taken>>

\* Guided navigation: the button names the path.
FunctionGuided ==
  /\ Handles("function") /\ action = "REQUEST" /\ guided
  /\ transfers' = NULL
  /\ orphan' = orphan \ {"transfers"}
  /\ Return(GuidedButton(at))
  /\ UNCHANGED <<version, based, play, pause, used, taken>>

\* Faulty variant: the transfers stay until the next function listens.
FunctionAnswersKeep ==
  /\ Handles("function") /\ action = "REQUEST" /\ ~guided
  /\ transfers # NULL
  /\ Return(ListenResponse(at))
  /\ UNCHANGED <<version, based, storage, orphan, taken>>

FunctionAnswers ==
  /\ Handles("function") /\ action = "REQUEST" /\ ~guided
  /\ transfers # NULL
  /\ transfers' = NULL
  /\ orphan' = orphan \ {"transfers"}
  /\ Return(ListenResponse(at))
  /\ UNCHANGED <<version, based, play, pause, used, taken>>

\* "A bug has occurred": no transfers; or their query cannot be evaluated, or
\* the transfer is of no known type.
FunctionUnheard ==
  /\ Handles("function") /\ action = "REQUEST" /\ ~guided
  /\ Return(NULL)
  /\ UNCHANGED <<version, based, storage, orphan, taken>>
-----------------------------------------------------------------------------
(* Random and condition steps.                                             *)

\* A random step without paths.
NoPath ==
  /\ \E kind \in {"random", "shuffle"} : Handles(kind)
  /\ action = "RUNNING"
  /\ Outs[version][at] = {}
  /\ Return(NULL)
  /\ UNCHANGED <<version, based, storage, orphan, taken>>

\* A path that leads nowhere is one of them.
Random ==
  /\ Handles("random") /\ action = "RUNNING"
  /\ \E n \in NextIds(version, at) : Return(n)
  /\ UNCHANGED <<version, based, storage, orphan, taken>>

\* Where paths lead that were not used in this round, all of them for a new round.
Choices(n) ==
  LET unused == NextIds(version, n) \ used[n]
  IN IF unused = {} THEN NextIds(version, n) ELSE unused

\* Faulty variant: only the path taken last is kept.
UsedNowLast(n, choice) == {choice}

UsedNow(n, choice) == (IF NextIds(version, n) \subseteq used[n] THEN {} ELSE used[n]) \cup {choice}

\* No duplicates: to each node once before to any again.
Shuffle(choice) ==
  /\ Handles("shuffle") /\ action = "RUNNING"
  /\ choice \in Choices(at)
  /\ IF Cardinality(Outs[version][at]) = 1 THEN UNCHANGED <<used, taken>>
     ELSE /\ used' = [used EXCEPT ![at] = UsedNow(at, choice)]
          /\ taken' = [taken EXCEPT ![at][choice] = @ + 1]
  /\ Return(choice)
  /\ UNCHANGED <<version, based, transfers, play, pause, orphan>>

\* The path of the first condition that holds, or else; one that throws does
\* not hold, but ends the turn here (handlerDidCatch).
If ==
  /\ Handles("if") /\ action = "RUNNING"
  /\ End \/ \E p \in Paths : Return(Port[version][at][p])
  /\ UNCHANGED <<version, based, storage, orphan, taken>>

\* The same in one program of all conditions, even when a request comes; what
\* throws in it does not hold.
IfV2 ==
  /\ Handles("ifv2")
  /\ \E p \in Paths : Return(Port[version][at][p])
  /\ UNCHANGED <<version, based, storage, orphan, taken>>

\* A custom step: the path of an event, a command or the default path; when
\* it runs the default path, or it waits.  So is a condition made to stop.
V1 ==
  /\ \E kind \in {"v1", "ifv2"} : Handles(kind)
  /\ \/ action = "REQUEST" /\ \E p \in Paths : Return(Port[version][at][p])
     \/ action = "REQUEST" /\ Said = "command" /\ Return(CommandNode)
     \/ action = "RUNNING" /\ \E next \in {Port[version][at]["next"], at} : Return(next)
  /\ UNCHANGED <<version, based, storage, orphan, taken>>
-----------------------------------------------------------------------------
(* The other steps, by what they do with a request.                        *)

\* Steps that go on by themselves.
Go ==
  /\ \E kind \in {"start", "step"} : Handles(kind)
  /\ action = "RUNNING"
  /\ Return(Port[version][at]["next"])
  /\ UNCHANGED <<version, based, storage, orphan, taken>>

\* OneShotIntentHandler: an intent at the start node, of a command or not.
OneShot ==
  /\ Handles("start") /\ action = "REQUEST" /\ Said \in Intents
  /\ Return(IF Said = "command" THEN CommandNode ELSE Port[version][at]["next"])
  /\ UNCHANGED <<version, based, storage, orphan, taken>>

\* PreliminaryHandler: a step that takes no requests stays where it is.
Preliminary ==
  /\ \E kind \in {"start", "stream", "random", "shuffle", "if", "step"} : Handles(kind)
  /\ action = "REQUEST"
  /\ ~(Kind[at] = "start" /\ Said \in Intents)
  /\ Return(IF Said = "command" THEN CommandNode ELSE at)
  /\ UNCHANGED <<version, based, storage, orphan, taken>>

\* A step that listens waits, and then takes a port or waits on.
Interaction ==
  /\ Handles("listen")
  /\ \/ Return(at)
     \/ action = "REQUEST" /\ Return(IF Said = "command" THEN CommandNode ELSE Port[version][at]["next"])
  /\ UNCHANGED <<version, based, storage, orphan, taken>>
-----------------------------------------------------------------------------
Init ==
  /\ version \in Versions /\ based = FALSE
  /\ at = NULL /\ nextID = NULL
  /\ transfers = NULL /\ play = NULL /\ pause = NULL
  /\ used = [n \in Shuffles |-> {}]
  /\ pc = "idle" /\ action = "RUNNING"
  /\ request = NULL /\ guided = FALSE
  /\ orphan = {}
  /\ taken = [n \in Shuffles |-> [m \in Nodes \cup {NULL} |-> 0]]

Handle ==
  \/ StreamState \/ StartStream
  \/ FunctionUnresolved \/ FunctionFails \/ FunctionGuided \/ FunctionAnswers \/ FunctionUnheard
  \/ \E command \in Commands : FunctionRuns(command)
  \/ NoPath \/ Random \/ If \/ IfV2 \/ V1
  \/ \E choice \in Nodes \cup {NULL} : Shuffle(choice)
  \/ Go \/ OneShot \/ Preliminary \/ Interaction

Next ==
  \/ \E v \in Versions, launch, g, loaded \in BOOLEAN, req \in Requests \cup {NULL} :
       StartTurn(v, launch, req, g, loaded)
  \/ Handle \/ Move \/ Timeout

Spec == Init /\ [][Next]_vars
-----------------------------------------------------------------------------
(* Properties.                                                             *)

TypeOK ==
  /\ version \in Versions /\ based \in BOOLEAN
  /\ at \in Nodes \cup {NULL} /\ nextID \in Nodes \cup {NULL}
  /\ transfers \in Transfers \cup {NULL}
  /\ play \in Play \cup {NULL}
  /\ pause \in Streams \cup {NULL}
  /\ used \in [Shuffles -> SUBSET (Nodes \cup {NULL})]
  /\ taken \in [Shuffles -> [Nodes \cup {NULL} -> Nat]]
  /\ pc \in {"idle", "handle", "move"}
  /\ pc = "handle" => at \in Nodes
  /\ pc = "move" => at \in Nodes /\ nextID \in Nodes
  /\ pc # "idle" /\ action = "REQUEST" => request \in Requests
  /\ action \in {"REQUEST", "RUNNING"}
  /\ request \in Requests \cup {NULL} /\ guided \in BOOLEAN
  /\ orphan \subseteq {"transfers", "play"}

\* A stream that is to be gone on with was ended, and nothing plays meanwhile:
\* a stream that starts forgets the one that was paused (StreamHandler).
PausedIsEnded == pause # NULL => ~Active(play)

\* The flow is at its node, or comes back to it.
Stays == pc = "move" => nextID = at

\* While a stream plays the flow waits at it, so that it takes requests in the
\* step's stead, unless a new version came, which may start the stack anew or
\* have no such stream, and the stream lives on in the storage
\* (StreamStateHandler.canHandle).
StreamHoldsItsPlace ==
  Active(play) /\ "play" \notin orphan => at = play.node /\ Stays

\* Transfers are answered by the function that listens for them: nothing lies
\* between, unless the flow ended, was started anew, or was run on without a
\* request since they were stored; then the function runs again and may lead
\* on while they stay (FunctionHandler.handle).
TransfersAreOwn ==
  transfers # NULL /\ "transfers" \notin orphan => at \in {transfers.owner, NULL} /\ Stays

\* A random step without duplicates leads everywhere equally often, but for
\* the round it is in, whatever ends the turns it runs in; paths that lead
\* alike count once (randomHandler).
EvenPaths ==
  \A n \in Shuffles : \A m, k \in NextIds(version, n) : taken[n][m] <= taken[n][k] + 1
=============================================================================
