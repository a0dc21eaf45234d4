------------------------------- MODULE Program -------------------------------
(***************************************************************************)
(* The compiled Voiceflow project a turn executes: versions, the programs  *)
(* (diagrams) of each version, their nodes and their commands.  Everything *)
(* here is a constant: programs are read through the data API and are      *)
(* never written by the runtime.                                           *)
(*                                                                         *)
(* A version id doubles as the diagram id of the version's base program,   *)
(* which has commands and no nodes.  Of a node only what decides the       *)
(* control flow of a turn is kept.                                         *)
(***************************************************************************)
EXTENDS Integers, Sequences

CONSTANTS
  Versions,      \* version ids, each also the diagram id of its base program
  Diagrams,      \* diagram ids of ordinary programs
  Nodes,         \* node ids, unique over all diagrams
  Events,        \* what a request can carry for matchers to match
  Intents,       \* the events that are intents
  RepeatIntents, \* the intents the repeat handler answers
  NULL,          \* JavaScript null
  UNDEF          \* JavaScript undefined, as a node id

CONSTANTS
  VersionOf,     \* the version a diagram was compiled for
  Root,          \* rootDiagramID of a version
  Context,       \* prototype.context.stack of a version, NULL if it has none
  StartNode,     \* startId of a diagram
  Home,          \* the diagram a node belongs to
  Kind,          \* which handler takes the node when nothing preempts it
  NextId,        \* node.nextId, or the first way out of a branching node
  ElseId,        \* the other way out: noMatch.nodeID, noReply.nodeID, fail path
  Target,        \* diagram_id of a flow node, diagramID of a gotoNode node
  Choice,        \* the nextId of the interaction an event matches
  NodeScoped,    \* intentScope = NODE: commands are not searched
  Commands       \* the commands of every program, base programs included

Kinds == {"start", "step", "branch", "interaction", "goTo", "card", "passingCard",
          "function", "custom", "condition", "flow", "gotoNode", "reset", "end", "unknown"}

\* Node kinds whose handler takes a request itself (the eventHandlers list of
\* the preliminary handler).  An interaction is any of capture, captureV2 and
\* interaction, a card (that is blocking, or not) a cardV2 or a carousel, custom
\* a _v1 node and condition an ifV2 node.
EventKinds == {"interaction", "goTo", "card", "passingCard", "function", "custom", "condition"}

NodeOrNull == Nodes \cup {NULL}

\* A frame of a prepared stack, which may bring the commands of its program.
ContextFrame == [diagram : Diagrams, node : NodeOrNull \cup {UNDEF}, known : BOOLEAN]

\* The interaction has no entry for the event.
NoChoice == "no choice"

Command == [event : Events, type : {"jump", "push"},
            diagram : Diagrams \cup {NULL}, next : NodeOrNull]

ASSUME ProgramAssumption ==
  /\ Versions \cap Diagrams = {}
  /\ NULL \notin Nodes \cup Diagrams \cup Versions \cup Events
  /\ UNDEF \notin Nodes \cup {NULL}
  /\ NoChoice \notin NodeOrNull
  /\ Intents \subseteq Events
  /\ RepeatIntents \subseteq Intents
  /\ VersionOf \in [Diagrams -> Versions]
  /\ Root \in [Versions -> Diagrams]
  /\ Context \in [Versions -> {NULL} \cup Seq(ContextFrame)]
  /\ StartNode \in [Diagrams -> Nodes]
  /\ Home \in [Nodes -> Diagrams]
  /\ Kind \in [Nodes -> Kinds]
  /\ NextId \in [Nodes -> NodeOrNull]
  /\ ElseId \in [Nodes -> NodeOrNull]
  /\ Target \in [Nodes -> Diagrams \cup {NULL}]
  /\ Choice \in [Nodes -> [Events -> NodeOrNull \cup {NoChoice}]]
  /\ NodeScoped \in [Nodes -> BOOLEAN]
  /\ Commands \in [Diagrams \cup Versions -> Seq(Command)]

\* The version whose programs a diagram id, base ids included, is part of.
Owner(d) == IF d \in Versions THEN d ELSE VersionOf[d]

\* The compiler emits links that stay inside a version, and inside a diagram
\* when the handler does not change diagram.
ASSUME LinkAssumption ==
  /\ \A v \in Versions : VersionOf[Root[v]] = v
  /\ \A v \in Versions : Context[v] # NULL =>
       \A k \in DOMAIN Context[v] :
         LET f == Context[v][k] IN
         VersionOf[f.diagram] = v /\ (f.node \in Nodes => Home[f.node] = f.diagram)
  /\ \A d \in Diagrams : Home[StartNode[d]] = d
  /\ \A n \in Nodes :
       /\ Target[n] # NULL => VersionOf[Target[n]] = VersionOf[Home[n]]
       /\ NextId[n] # NULL =>
            Home[NextId[n]] = IF Kind[n] = "gotoNode" /\ Target[n] # NULL THEN Target[n] ELSE Home[n]
       /\ ElseId[n] # NULL => Home[ElseId[n]] = Home[n]
       /\ \A e \in Events : Choice[n][e] \in Nodes => Home[Choice[n][e]] = Home[n]
  /\ \A d \in Diagrams \cup Versions : \A j \in DOMAIN Commands[d] :
       LET c == Commands[d][j] IN
       /\ c.diagram # NULL => VersionOf[c.diagram] = Owner(d)
       /\ c.next # NULL => Home[c.next] = IF c.diagram # NULL THEN c.diagram ELSE d

\* program.getNode: null for a falsy id or one the program does not hold.
GetNode(d, n) == IF n \in Nodes /\ Home[n] = d THEN n ELSE NULL

=============================================================================
