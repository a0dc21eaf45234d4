---------------------------- MODULE MCAssistant ----------------------------
(***************************************************************************)
(* A window of two messages of two pieces, two variables, and messages     *)
(* whose conditions hold, fail and throw.                                  *)
(***************************************************************************)
EXTENDS Assistant

CONSTANTS mood, topic

MCVars == {mood, topic}

MCSetNodes ==
  {[source |-> "knowledge", sets |-> <<mood, topic>>],
   [source |-> "model", sets |-> <<mood, NULL, mood>>],
   [source |-> "nobody", sets |-> <<mood>>],
   [source |-> "model", sets |-> <<>>]}

AllOf(results) == [kind |-> "all", results |-> results]
AnyOf(results) == [kind |-> "some", results |-> results]
Script(result) == [kind |-> "script", results |-> <<result>>]
Plain == [kind |-> "plain", results |-> <<>>]

MCMessages ==
  {<<AnyOf(<<"holds", "throws">>), AllOf(<<"holds">>), Plain>>,
   <<Plain, Script("fails"), AllOf(<<"holds", "fails">>)>>,
   <<Script("throws"), AnyOf(<<"fails", "fails">>)>>}
=============================================================================
