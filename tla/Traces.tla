------------------------------- MODULE Traces -------------------------------
(***************************************************************************)
(* The traces a turn answers with, and what the handlers after the runtime *)
(* do to a list of them.  A trace has its kind; said, the pieces of speech *)
(* it carries, each a number; whether an audio source in it would have been*)
(* found (parsed) and whether it may hold SSML; and the round it was made  *)
(* in.                                                                     *)
(***************************************************************************)
EXTENDS Naturals, SequencesExt

Pieces == {"start", "more", "last"}   \* of a completion that is streamed

Kinds == {"speech", "debug", "goto"} \cup Pieces

Trace(k, said, r) == [kind |-> k, said |-> said, parsed |-> FALSE, ssml |-> TRUE, round |-> r]

\* Any trace, also one of no turn.
AnyTrace ==
  [kind : Kinds, said : Seq(Nat), parsed : BOOLEAN, ssml : BOOLEAN, round : Nat]

IsGoTo(t) == t.kind = "goto"

\* What follows goes on from a start, and nothing comes to its end first.
InOrder(kinds) ==
  \A i \in DOMAIN kinds :
    /\ kinds[i] = "more" => i > 1 /\ kinds[i - 1] \in {"start", "more"}
    /\ i = 1 => kinds[i] # "last"

\* The elements of a sequence that are in a set, in their order.
Only(s, S) == FlattenSeq([i \in DOMAIN s |-> IF s[i] \in S THEN <<s[i]>> ELSE <<>>])

\* The traces of some kinds, and those of a list.
Of(kinds) == {t \in AnyTrace : t.kind \in kinds}

OfKinds(traces, kinds) == Only(traces, Of(kinds))

\* The first trace is kept as it is.  A piece that follows no start is
\* dropped; one that does is taken up in it, and the last one makes it the
\* speech it is a part of.
MergeOne(acc, t) ==
  LET follows == Last(acc).kind = "start" IN
  CASE acc = <<>> \/ t.kind \notin {"more", "last"} -> Append(acc, t)
    [] acc # <<>> /\ t.kind = "more" ->
         IF follows THEN [acc EXCEPT ![Len(acc)].said = @ \o t.said] ELSE acc
    [] acc # <<>> /\ t.kind = "last" ->
         IF follows THEN [acc EXCEPT ![Len(acc)].kind = "speech"] ELSE acc

Merge(traces) ==
  LET merged[i \in 0..Len(traces)] ==
        IF i = 0 THEN <<>> ELSE MergeOne(merged[i - 1], traces[i])
  IN merged[Len(traces)]

Mapped(op(_), traces) == [i \in DOMAIN traces |-> op(traces[i])]

\* Speech that is an audio tag gets the tag's source; the rest is a message.
Parsed(t) == IF t.kind = "speech" /\ t.ssml THEN [t EXCEPT !.parsed = TRUE] ELSE t

\* Speech loses its SSML, an audio tag with it.
Stripped(t) == IF t.kind = "speech" THEN [t EXCEPT !.ssml = FALSE] ELSE t

\* The service makes one or more traces of a speech (one, if it fails).
Voiced(traces, split) ==
  FlattenSeq(Mapped(LAMBDA t : IF t.kind = "speech" /\ split
                                 THEN <<t, [t EXCEPT !.said = <<>>]>>
                                 ELSE <<t>>, traces))

\* The pieces of speech in a list of traces, in the order they are heard.
Said(traces) == FlattenSeq(Mapped(LAMBDA t : t.said, traces))
=============================================================================
