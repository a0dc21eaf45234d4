---------------------------- MODULE MCStepStorage ----------------------------
(***************************************************************************)
(* Two versions of one diagram.  In the first a function leads to a random *)
(* step between two streams; the second has another function in the place  *)
(* of the first stream, and a path of the random step leads nowhere.       *)
(***************************************************************************)
EXTENDS StepStorage, TLC

CONSTANTS v1, v2, begin, f, g, mix, radio, news, menu, check, hook, old, dead, any, yes, no

MCNodes == {begin, f, g, mix, radio, news, menu, check, hook, old, dead, any}
MCKind ==
  (begin :> "start") @@ (f :> "function") @@ (g :> "function") @@ (mix :> "shuffle") @@ (radio :> "stream")
  @@ (news :> "stream") @@ (menu :> "listen") @@ (check :> "ifv2") @@ (hook :> "v1")
  @@ (old :> "if") @@ (dead :> "shuffle") @@ (any :> "random")

MCPaths == {"next", "pause", "previous", Default, yes, no}
Ports(given) == [p \in MCPaths |-> IF p \in DOMAIN given THEN given[p] ELSE NULL]

MCPort1 ==
  (begin :> Ports("next" :> f))
  @@ (f :> Ports((yes :> mix) @@ (no :> menu)))
  @@ (g :> Ports((yes :> check) @@ (Default :> menu)))
  @@ (mix :> Ports(("next" :> radio) @@ (yes :> radio) @@ ("pause" :> news)))
  @@ (radio :> Ports(("next" :> mix) @@ ("pause" :> check)))
  @@ (news :> Ports("previous" :> radio))
  @@ (menu :> Ports("next" :> any))
  @@ (check :> Ports((yes :> radio) @@ (no :> hook)))
  @@ (hook :> Ports(("next" :> old) @@ (yes :> f)))
  @@ (old :> Ports(("next" :> menu) @@ (yes :> dead)))
  @@ (dead :> Ports(<< >>))
  @@ (any :> Ports((yes :> mix) @@ (no :> f)))

\* The second version leads elsewhere from the random step and its streams.
MCPort2 ==
  (mix :> Ports(("next" :> g) @@ ("pause" :> news)))
  @@ (news :> Ports("pause" :> check))
  @@ (check :> Ports((yes :> f) @@ (no :> hook)))
  @@ (hook :> Ports(("next" :> old) @@ (yes :> g)))
  @@ (any :> Ports((yes :> mix) @@ (no :> g)))
  @@ MCPort1
MCPort == (v1 :> MCPort1) @@ (v2 :> MCPort2)

\* Of the paths of mix two lead alike in the first version, and one nowhere in
\* the second.
MCOuts == [v \in {v1, v2} |-> [n \in MCNodes |->
  CASE n = mix -> {"next", "pause", IF v = v1 THEN yes ELSE no}
    [] n = any -> {yes, no}
    [] OTHER -> {}]]

MCHolds == (v1 :> MCNodes \ {g}) @@ (v2 :> MCNodes \ {radio})
MCStart == (v1 :> begin) @@ (v2 :> begin)
MCPathCodes == [v \in {v1, v2} |-> [n \in MCNodes |->
  IF n = f THEN {yes, no} ELSE IF n = g THEN {yes} ELSE {}]]
MCListens == {[r \in Requests |-> IF r.is = "text" THEN yes ELSE no]}
=============================================================================
