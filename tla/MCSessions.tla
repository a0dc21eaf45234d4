----------------------------- MODULE MCSessions -----------------------------
(***************************************************************************)
(* Three requests to one session.                                          *)
(***************************************************************************)
EXTENDS Sessions, TLC

Symmetry == Permutations(Requests)
=============================================================================
