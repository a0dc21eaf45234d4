---------------------------- MODULE MCAiResponse ----------------------------
(***************************************************************************)
(* Such nodes in a turn, with completions of up to three items.            *)
(***************************************************************************)
EXTENDS AiResponse
=============================================================================
