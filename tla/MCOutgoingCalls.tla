--------------------------- MODULE MCOutgoingCalls ---------------------------
(***************************************************************************)
(* Three calls to one host, of which the second is one too many, and       *)
(* answers in which what a variable maps is there, missing or null.        *)
(***************************************************************************)
EXTENDS OutgoingCalls, TLC

CONSTANTS x, y, k, one, text

MCPath == (x :> <<k>>) @@ (y :> <<k, k>>)
MCBodies ==
  {Object(k :> Object(k :> Leaf(text))), Object(k :> Null)}
MCAsNumber == (one :> one) @@ (text :> one)
=============================================================================
