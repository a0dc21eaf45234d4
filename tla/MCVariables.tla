---------------------------- MODULE MCVariables -----------------------------
(***************************************************************************)
(* Two versions, the newer with one more variable and a prepared session;  *)
(* a flow that makes up that variable in the older one, and a flow step    *)
(* that hands the value of one over as the other.                         *)
(***************************************************************************)
EXTENDS Variables, TLC

CONSTANTS total, extra, root, flow, old, new

MCDeclared == (old :> [d \in Diagrams |-> IF d = flow THEN {extra} ELSE {}])
              @@ (new :> [d \in Diagrams |-> {}])
MCVersionNames == (old :> {total}) @@ (new :> {total, extra})
\* One version starts in its root flow, the other in a flow that was given total.
MCPrepared ==
  (old :> [flows |-> <<NewFrame(root, "unset")>>, globals |-> Empty])
  @@ (new :> [flows |-> <<[NewFrame(flow, "step") EXCEPT !.locals = [Empty EXCEPT ![total] = 0]]>>, globals |-> Empty])
MCMaps == {NoMap, [NoMap EXCEPT ![total] = extra]}
\* A step loses the value of one name or makes up the other.
MCWrites == {[Empty EXCEPT ![total] = UNDEF], [Empty EXCEPT ![extra] = 0]}
=============================================================================
