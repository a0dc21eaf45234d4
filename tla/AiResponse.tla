----------------------------- MODULE AiResponse -----------------------------
(***************************************************************************)
(* Nodes that answer with a completion, one after the other in a turn: the *)
(* completion comes in pieces, which are traced as they come, while another*)
(* consumer adds them up; at the end of the turn the traces are merged.    *)
(***************************************************************************)
EXTENDS Traces

CONSTANTS
  MaxNodes,     \* bound: such nodes in a turn
  MaxItems      \* bound: items of one completion

ASSUME AiResponseAssumption == MaxNodes \in Nat \ {0} /\ MaxItems \in Nat \ {0}

VARIABLES
  stage,      \* next (node), open (stream), closed, asked (the knowledge base),
              \* counted (its tokens), stuck, over or merged
  nodes,      \* nodes begun
  items,      \* items of the stream so far, each a piece or SILENT
  gateway,    \* the stream is the gateway's: items may follow
  traced,     \* traces of the turn
  memory,     \* pieces in what the assistant is remembered to have said
  output,     \* OUTPUT of the frame, which a repeat says again
  notices     \* history: pieces that tell the user of a broken completion

turnVars == <<stage, nodes, items, gateway, traced, memory, output, notices>>

SILENT == 0

\* Pieces are numbered in the order they come.
NextPiece == Len(Said(traced)) + 1

Heard == Only(items, Nat \ {SILENT})

Add(kinds) == traced' = traced \o [i \in DOMAIN kinds |-> Trace(kinds[i], <<>>, 1)]

-----------------------------------------------------------------------------
\* The node is handled, announcing its block.  Without a private gateway or a
\* prompt there is one item without output; a model the plan does not allow is
\* one item that says so; else the gateway is asked.
Begin(source) ==
  /\ stage = "next" /\ nodes < MaxNodes
  /\ stage' = IF source = "gateway" THEN "open" ELSE "closed"
  /\ nodes' = nodes + 1
  /\ gateway' = (source = "gateway")
  /\ LET block == Trace("debug", <<>>, 1) IN
     CASE source = "gateway" -> items' = <<>> /\ traced' = Append(traced, block)
       [] source = "nothing" -> items' = <<SILENT>> /\ traced' = Append(traced, block)
       [] source = "refusal" -> /\ items' = <<NextPiece>>
                                /\ traced' = traced \o <<block, Trace("start", <<NextPiece>>, 1)>>
  /\ UNCHANGED <<memory, output, notices>>

\* Faulty variant: the index of the item among all items tells the start.
ItemByIndex(piece) ==
  /\ stage = "open" /\ Len(items) < MaxItems
  /\ items' = Append(items, IF piece THEN NextPiece ELSE SILENT)
  /\ IF piece
       THEN traced' = Append(traced, Trace(IF items = <<>> THEN "start" ELSE "more", <<NextPiece>>, 1))
       ELSE UNCHANGED traced
  /\ UNCHANGED <<stage, nodes, gateway, memory, output, notices>>

\* An item comes: the first that has output starts the completion.
Item(piece) ==
  /\ stage = "open" /\ Len(items) < MaxItems
  /\ items' = Append(items, IF piece THEN NextPiece ELSE SILENT)
  /\ IF piece
       THEN traced' = Append(traced, Trace(IF Heard = <<>> THEN "start" ELSE "more", <<NextPiece>>, 1))
       ELSE UNCHANGED traced
  /\ UNCHANGED <<stage, nodes, gateway, memory, output, notices>>

\* The gateway's stream ends.
Close ==
  /\ stage = "open"
  /\ stage' = "closed"
  /\ UNCHANGED <<nodes, items, gateway, traced, memory, output, notices>>

\* A stream without items: the traces never complete, nor does the node.
Hang ==
  /\ stage = "closed" /\ items = <<>>
  /\ stage' = "stuck"
  /\ UNCHANGED <<nodes, items, gateway, traced, memory, output, notices>>

\* Faulty variant: the traces wait for an item that has output.
SettleHeard ==
  /\ stage = "closed" /\ Heard # <<>>
  /\ stage' = "next"
  /\ Add(<<"last", "debug">>)
  /\ memory' = memory \o Heard
  /\ output' = Heard
  /\ UNCHANGED <<nodes, items, gateway, notices>>

\* Both consumers are done: the end is traced, then the tokens used, and the
\* whole output is remembered if there is any.
Settle ==
  /\ stage = "closed" /\ items # <<>>
  /\ stage' = "next"
  /\ Add(<<"last", "debug">>)
  /\ IF Heard = <<>>
       THEN UNCHANGED <<memory, output>>
       ELSE memory' = memory \o Heard /\ output' = Heard
  /\ UNCHANGED <<nodes, items, gateway, notices>>

\* What a node awaits breaks because the content was moderated or no tokens are
\* left: the user is told, with a piece of its own, and the turn goes on.
Break ==
  /\ stage \in {"open", "asked", "counted"}
  /\ stage' = "next"
  /\ traced' = traced \o <<Trace("speech", <<NextPiece>>, 1), Trace("debug", <<>>, 1)>>
  /\ notices' = notices \cup {NextPiece}
  /\ UNCHANGED <<nodes, items, gateway, memory, output>>

\* It breaks for another reason, which ends the turn.
Abort ==
  /\ stage \in {"open", "asked", "counted"}
  /\ stage' = "over"
  /\ Add(<<"debug">>)
  /\ UNCHANGED <<nodes, items, gateway, memory, output, notices>>

\* A node that asks the knowledge base announces its block.
AskKnowledge ==
  /\ stage = "next" /\ nodes < MaxNodes
  /\ stage' = "asked"
  /\ nodes' = nodes + 1
  /\ Add(<<"debug">>)
  /\ UNCHANGED <<items, gateway, memory, output, notices>>

\* It answers: the tokens used are traced.
CountTokens ==
  /\ stage = "asked"
  /\ stage' = "counted"
  /\ Add(<<"debug">>)
  /\ UNCHANGED <<nodes, items, gateway, memory, output, notices>>

\* Nothing was found, and the node has a path for that; or the documents and an
\* answer are traced, which is remembered, but is no OUTPUT.
AnswerKnowledge(found) ==
  /\ stage = "counted"
  /\ stage' = "next"
  /\ IF found
       THEN /\ traced' = traced \o <<Trace("debug", <<>>, 1), Trace("speech", <<NextPiece>>, 1)>>
            /\ memory' = Append(memory, NextPiece)
       ELSE UNCHANGED <<traced, memory>>
  /\ UNCHANGED <<nodes, items, gateway, output, notices>>

\* The turn is at its end after a node.
Stop ==
  /\ stage = "next" /\ nodes > 0
  /\ stage' = "over"
  /\ UNCHANGED <<nodes, items, gateway, traced, memory, output, notices>>

\* MergeCompletion.handle
MergeTraces ==
  /\ stage = "over"
  /\ stage' = "merged"
  /\ traced' = Merge(traced)
  /\ UNCHANGED <<nodes, items, gateway, memory, output, notices>>

TurnInit ==
  /\ stage = "next" /\ nodes = 0
  /\ items = <<>> /\ gateway = FALSE
  /\ traced = <<>> /\ memory = <<>> /\ output = <<>> /\ notices = {}

\* A step of the turn.
Turn ==
  \/ \E source \in {"gateway", "nothing", "refusal"} : Begin(source)
  \/ \E piece \in BOOLEAN : Item(piece)
  \/ Close
  \/ Hang
  \/ Settle
  \/ Break
  \/ Abort
  \/ AskKnowledge
  \/ CountTokens
  \/ \E found \in BOOLEAN : AnswerKnowledge(found)
  \/ Stop

TurnNext == Turn \/ MergeTraces

\* What is awaited settles: the stream goes on to its end, the knowledge base
\* answers, or they break.
TurnSpec == TurnInit /\ [][TurnNext]_turnVars /\ WF_turnVars(Turn)
-----------------------------------------------------------------------------
Speech == OfKinds(traced, {"speech"})

\* Once the traces are merged the assistant is remembered to have said what the
\* speech in the answer says, in its order, and nothing else; what tells the
\* user of a broken completion is not remembered, nor is the completion.  What a
\* repeat would say again is one whole speech of the answer.
SpokenIsRemembered ==
  stage = "merged" =>
    /\ memory = Only(Said(Speech), Nat \ notices)
    /\ output # <<>> => \E t \in ToSet(Speech) : t.said = output

\* The turn comes to its end, unless the gateway closes a stream without an
\* item: then no trace completes the node, and the request is not answered.
TurnEnds == <>(stage = "over" \/ (stage = "stuck" /\ gateway /\ items = <<>>))
=============================================================================
