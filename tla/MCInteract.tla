----------------------------- MODULE MCInteract -----------------------------
(***************************************************************************)
(* Requests through the pipes, with turns of one or two nodes.             *)
(***************************************************************************)
EXTENDS Interact

\* Each node announces its block.  A completion in pieces, one that was broken
\* off after its start, and one of an empty prompt, are as AiResponse makes them.
Nodes == {<<"debug", "speech">>,
          <<"debug", "start", "more", "last", "debug">>,
          <<"debug", "start", "speech", "debug">>,
          <<"debug", "last", "debug">>}

BrokenThenEmpty == <<"debug", "start", "speech", "debug", "debug", "last", "debug">>

MCOutputs ==
  LET turns == Nodes \cup {BrokenThenEmpty} IN
  turns \cup {turn \o <<"debug", "goto">> : turn \in turns}
=============================================================================
