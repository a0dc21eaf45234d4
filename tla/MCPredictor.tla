----------------------------- MODULE MCPredictor -----------------------------
(***************************************************************************)
(* Three intents of the project, two of them with a slot of their own.     *)
(***************************************************************************)
EXTENDS Predictor, TLC

CONSTANTS order, book, greet, amount, day

MCSlotsOf == (order :> {amount}) @@ (book :> {day}) @@ (greet :> {})
=============================================================================
