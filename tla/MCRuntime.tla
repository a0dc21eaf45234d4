------------------------------ MODULE MCRuntime ------------------------------
(***************************************************************************)
(* A small project for TLC.  Version v1 asks a question in its root        *)
(* diagram R (q), whose choice calls the flow D and whose no-match leads   *)
(* to a goTo node and from there to an exit; D asks in turn (d) and leaves *)
(* by exit, by reset or by a jump back into R, or goes on through a        *)
(* function, a custom step, a condition and two cards (d5 to d8). Commands *)
(* push D from the base program, jump to q from R, and stack R on D.       *)
(* Version v2 has one diagram S that loops and calls itself for ever, for  *)
(* the two overflow limits, and prepared frames; the stack prepared for v3 *)
(* is empty.                                                               *)
(***************************************************************************)
EXTENDS Runtime, TLC

CONSTANTS v1, v2, v3, R, D, S, E,
          r0, q, r2, r3, r4, d0, d, d1, d2, d3, d4, s0, s1, s2, s3, s4,
          e0, d5, d6, d7, d8,
          go, help, back, again

MCVersions == {v1, v2, v3}
MCDiagrams == {R, D, S, E}
MCEvents == {go, help, back, again}
MCIntents == {help, back, again}
MCRepeatIntents == {again}

MCVersionOf == (R :> v1) @@ (D :> v1) @@ (S :> v2) @@ (E :> v3)
MCRoot == (v1 :> R) @@ (v2 :> S) @@ (v3 :> E)
MCContext ==
  (v1 :> NULL) @@
  (v2 :> <<[diagram |-> S, node |-> s1, known |-> FALSE],
           [diagram |-> S, node |-> UNDEF, known |-> TRUE]>>) @@
  (v3 :> << >>)
MCStartNode == (R :> r0) @@ (D :> d0) @@ (S :> s0) @@ (E :> e0)

\* home, kind, next, else, target
Rows ==
  (r0 :> <<R, "start", q, NULL, NULL>>) @@
  (q  :> <<R, "interaction", NULL, r3, NULL>>) @@
  (r2 :> <<R, "flow", q, NULL, D>>) @@
  (r3 :> <<R, "goTo", NULL, r4, NULL>>) @@
  (r4 :> <<R, "end", NULL, NULL, NULL>>) @@
  (d0 :> <<D, "step", d, NULL, NULL>>) @@
  (d  :> <<D, "interaction", NULL, d2, NULL>>) @@
  (d1 :> <<D, "end", NULL, NULL, NULL>>) @@
  (d2 :> <<D, "gotoNode", q, NULL, R>>) @@
  (d3 :> <<D, "reset", NULL, NULL, NULL>>) @@
  (d4 :> <<D, "function", d5, d3, NULL>>) @@
  (d5 :> <<D, "custom", d6, NULL, NULL>>) @@
  (d6 :> <<D, "condition", d7, d1, NULL>>) @@
  (d7 :> <<D, "passingCard", d8, NULL, NULL>>) @@
  (d8 :> <<D, "card", NULL, d1, NULL>>) @@
  (s0 :> <<S, "start", s1, NULL, NULL>>) @@
  (s1 :> <<S, "branch", s2, s3, NULL>>) @@
  (s2 :> <<S, "branch", s1, s4, NULL>>) @@
  (s3 :> <<S, "flow", NULL, NULL, S>>) @@
  (s4 :> <<S, "unknown", NULL, NULL, NULL>>) @@
  (e0 :> <<E, "start", NULL, NULL, NULL>>)

MCNodes == DOMAIN Rows
MCHome == [n \in MCNodes |-> Rows[n][1]]
MCKind == [n \in MCNodes |-> Rows[n][2]]
MCNextId == [n \in MCNodes |-> Rows[n][3]]
MCElseId == [n \in MCNodes |-> Rows[n][4]]
MCTarget == [n \in MCNodes |-> Rows[n][5]]
MCChoice ==
  [n \in MCNodes |-> [e \in MCEvents |->
     CASE n = q /\ e = go -> r2
       [] n = d /\ e = go -> d4
       [] n = d5 /\ e = go -> d1
       [] OTHER -> NoChoice]]
MCNodeScoped == [n \in MCNodes |-> FALSE]
MCCommands ==
  (v1 :> <<[event |-> help, type |-> "push", diagram |-> D, next |-> NULL]>>) @@
  (v2 :> << >>) @@
  (v3 :> << >>) @@
  (E :> << >>) @@
  (R :> <<[event |-> back, type |-> "jump", diagram |-> NULL, next |-> q]>>) @@
  (D :> <<[event |-> back, type |-> "jump", diagram |-> R, next |-> r2]>>) @@
  (S :> <<[event |-> back, type |-> "push", diagram |-> NULL, next |-> NULL]>>)

=============================================================================
