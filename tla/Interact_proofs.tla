--------------------------- MODULE Interact_proofs ---------------------------
(***************************************************************************)
(* Proofs about Interact, AiResponse and Predictor, for any outputs of a   *)
(* runtime and any intents.                                                *)
(*                                                                         *)
(* Traces are sequences, and what the steps make of them is defined along  *)
(* them (joined, filtered, merged).  So the first sections prove, by       *)
(* induction over the length, what these operators make of a sequence with *)
(* one more element, and from that what they keep.  RequestInv then says   *)
(* of a request which form the traces have at each handler and what of     *)
(* what was made is where; TurnInv says it of a turn of completions.       *)
(***************************************************************************)
EXTENDS Interact, AiResponse, Predictor, TLAPS, WellFoundedInduction, SequenceTheorems,
        FiniteSetTheorems

-----------------------------------------------------------------------------
\* Induction over the length of a sequence, stated with sets; what Merge and
\* FlattenSeq of a sequence with one more element are.

\* Induction over the naturals, with a set for the property.
LEMMA NatSet ==
  ASSUME NEW T, 0 \in T, \A n \in Nat : n \in T => n + 1 \in T
  PROVE  Nat \subseteq T
<1> DEFINE R == OpToRel(<, Nat)
           Bad == Nat \ T
<1>1. SUFFICES ASSUME Bad # {} PROVE FALSE
  OBVIOUS
<1>2. IsWellFoundedOn(R, Nat)
  BY NatLessThanWellFounded
<1>3. PICK x \in Bad : \A y \in Bad : <<y, x>> \notin R
  <2> HIDE DEF R, Bad
  <2>1. Bad \subseteq Nat
   BY DEF Bad
  <2> QED BY <1>1, <1>2, <2>1, WFMin
<1>4. \A y \in Nat : y < x => y \in T
  <2>1. \A y \in Nat : y < x => <<y, x>> \in R
    BY <1>3 DEF OpToRel
  <2> QED BY <1>3, <2>1
<1> HIDE DEF R
<1>5. x # 0
  BY <1>3
<1>6. x - 1 \in Nat /\ x - 1 < x
  BY <1>3, <1>5
<1> QED BY <1>3, <1>4, <1>6

\* Induction over sequences: a set with the empty sequence, closed under
\* Append.
LEMMA SeqSet ==
  ASSUME NEW S, NEW T, << >> \in T,
         \A s \in Seq(S), e \in S : s \in T => Append(s, e) \in T
  PROVE  Seq(S) \subseteq T
<1> DEFINE N == {n \in Nat : \A s \in Seq(S) : Len(s) = n => s \in T}
<1>1. 0 \in N
  BY EmptySeq
<1>2. ASSUME NEW n \in Nat, n \in N PROVE n + 1 \in N
  <2> SUFFICES ASSUME NEW s \in Seq(S), Len(s) = n + 1 PROVE s \in T
    OBVIOUS
  <2>1. PICK t \in Seq(S), e \in S : s = Append(t, e)
    BY SequenceEmptyOrAppend, EmptySeq
  <2>2. Len(t) = n
    BY <2>1, AppendProperties, LenProperties
  <2> QED BY <1>2, <2>1, <2>2
<1> HIDE DEF N
<1>3. Nat \subseteq N
  BY <1>1, <1>2, NatSet
<1> QED BY <1>3, LenProperties DEF N

\* f is a run of the merge of the traces s. What a recursive function yields
\* does not depend on its choice.
Merges(f, s) == f = [i \in 0..Len(s) |-> IF i = 0 THEN <<>> ELSE MergeOne(f[i - 1], s[i])]

\* Merge yields what any run over its argument ends with.
LEMMA MergeIs ==
  ASSUME NEW E, NEW s \in Seq(E), NEW f, Merges(f, s)
  PROVE  Merge(s) = f[Len(s)]
<1> DEFINE g == CHOOSE g : Merges(g, s)
<1>1. Merges(g, s)
  OBVIOUS
<1>2. Merge(s) = g[Len(s)]
  BY DEF Merge, Merges
<1> HIDE DEF g
<1> DEFINE N == {n \in Nat : n <= Len(s) => g[n] = f[n]}
<1>a. Len(s) \in Nat
  BY LenProperties
<1>3. 0 \in N
  BY <1>1, <1>a DEF Merges
<1>4. ASSUME NEW n \in Nat, n \in N PROVE n + 1 \in N
  <2> SUFFICES ASSUME n + 1 <= Len(s) PROVE g[n + 1] = f[n + 1]
    OBVIOUS
  <2>1. n + 1 \in 0..Len(s) /\ n + 1 # 0 /\ (n + 1) - 1 = n /\ g[n] = f[n]
    BY <1>4, <1>a
  <2>2. g[n + 1] = MergeOne(g[n], s[n + 1])
    BY <1>1, <2>1 DEF Merges
  <2>3. f[n + 1] = MergeOne(f[n], s[n + 1])
    BY <2>1 DEF Merges
  <2> QED BY <2>1, <2>2, <2>3
<1> HIDE DEF N
<1>5. Len(s) \in N
  BY <1>3, <1>4, <1>a, NatSet
<1> QED BY <1>2, <1>5 DEF N

\* A run goes on by one more trace.
LEMMA MergesOn ==
  ASSUME NEW E, NEW s \in Seq(E), NEW e \in E, NEW f, Merges(f, s)
  PROVE  LET l == f[Len(s)]
             g == [i \in 0..Len(s) + 1 |-> IF i = Len(s) + 1
                                             THEN MergeOne(l, e) ELSE f[i]]
         IN Merges(g, Append(s, e))
<1> DEFINE l == f[Len(s)]
           g == [i \in 0..Len(s) + 1 |-> IF i = Len(s) + 1
                                           THEN MergeOne(l, e) ELSE f[i]]
           t == Append(s, e)
<1>1. Len(s) \in Nat /\ Len(t) = Len(s) + 1 /\ t[Len(s) + 1] = e
      /\ \A i \in 1..Len(s) : t[i] = s[i]
  BY LenProperties, AppendProperties
<1> DEFINE h == [i \in 0..Len(t) |-> IF i = 0 THEN <<>>
                           ELSE MergeOne(g[i - 1], t[i])]
<1>2. ASSUME NEW i \in 0..Len(s) + 1 PROVE g[i] = h[i]
  <2>1. CASE i = 0
    BY <1>1, <2>1 DEF Merges
  <2>2. CASE i \in 1..Len(s)
    <3>1. g[i] = f[i] /\ g[i - 1] = f[i - 1] /\ t[i] = s[i] /\ i \in 0..Len(s) /\ i # 0
      BY <1>1, <2>2
    <3>2. f[i] = MergeOne(f[i - 1], s[i])
      BY <3>1 DEF Merges
    <3>3. h[i] = MergeOne(g[i - 1], t[i])
      BY <3>1, <1>1
    <3> QED BY <3>1, <3>2, <3>3
  <2>3. CASE i = Len(s) + 1
    <3>1. g[i - 1] = l /\ t[i] = e /\ i # 0 /\ i - 1 = Len(s) /\ Len(s) \in 0..Len(s)+1
          /\ Len(s) # Len(s) + 1
      BY <1>1, <2>3
    <3>2. g[i] = MergeOne(l, e)
      BY <2>3
    <3>3. h[i] = MergeOne(g[i - 1], t[i])
      BY <3>1, <1>1
    <3> QED BY <3>1, <3>2, <3>3
  <2> QED BY <2>1, <2>2, <2>3, <1>1
<1>3. g = h
  BY <1>1, <1>2
<1> QED BY <1>3 DEF Merges

\* Every list of traces has a run.
LEMMA MergesRuns ==
  ASSUME NEW E
  PROVE  \A s \in Seq(E) : \E f : Merges(f, s)
<1> DEFINE T == {s \in Seq(E) : \E f : Merges(f, s)}
<1>1. <<>> \in T
  <2>1. Merges([i \in 0..0 |-> <<>>], <<>>)
    BY EmptySeq DEF Merges
  <2> QED BY <2>1, EmptySeq
<1>2. ASSUME NEW s \in Seq(E), NEW e \in E, s \in T PROVE Append(s, e) \in T
  <2>1. PICK f : Merges(f, s)
    BY <1>2
  <2> DEFINE l == f[Len(s)]
             g == [i \in 0..Len(s) + 1 |-> IF i = Len(s) + 1
                                             THEN MergeOne(l, e) ELSE f[i]]
  <2>2. Merges(g, Append(s, e))
    BY <2>1, MergesOn
  <2> QED BY <2>2, AppendProperties
<1> HIDE DEF T
<1>3. Seq(E) \subseteq T
  BY <1>1, <1>2, SeqSet
<1> QED BY <1>3 DEF T

\* Nothing is merged into nothing.
LEMMA MergeEmpty == Merge(<<>>) = <<>>
<1>1. Merges([i \in 0..0 |-> <<>>], <<>>)
  BY EmptySeq DEF Merges
<1>2. <<>> \in Seq({}) /\ Len(<<>>) = 0
  BY EmptySeq
<1> QED BY <1>1, <1>2, MergeIs

\* The next trace is taken up in what is merged before it.
LEMMA MergeAppend ==
  ASSUME NEW E, NEW s \in Seq(E), NEW e \in E
  PROVE  Merge(Append(s, e)) = MergeOne(Merge(s), e)
<1>1. PICK f : Merges(f, s)
  BY MergesRuns
<1> DEFINE l == f[Len(s)]
           g == [i \in 0..Len(s) + 1 |-> IF i = Len(s) + 1
                                           THEN MergeOne(l, e) ELSE f[i]]
<1>2. Merges(g, Append(s, e))
  BY <1>1, MergesOn
<1>3. Append(s, e) \in Seq(E) /\ Len(Append(s, e)) = Len(s) + 1 /\ Len(s) \in Nat
  BY AppendProperties, LenProperties
<1>4. Merge(Append(s, e)) = g[Len(s) + 1]
  <2> HIDE DEF g
  <2> QED BY <1>2, <1>3, MergeIs
<1>5. Merge(s) = l
  BY <1>1, MergeIs
<1> QED BY <1>3, <1>4, <1>5

\* f is a run that joins the sequences s.
Joins(f, s) == f = [i \in 1..Len(s) |-> IF i = 1 THEN s[i] ELSE f[i - 1] \o s[i]]

\* FlattenSeq yields what any run over its argument ends with.
LEMMA FlattenIs ==
  ASSUME NEW E, NEW s \in Seq(E), s # <<>>, NEW f, Joins(f, s)
  PROVE  FlattenSeq(s) = f[Len(s)]
<1> DEFINE g == CHOOSE g : Joins(g, s)
<1>1. Joins(g, s)
  OBVIOUS
<1>a. Len(s) \in Nat \ {0}
  BY EmptySeq
<1>2. FlattenSeq(s) = g[Len(s)]
  BY <1>a DEF FlattenSeq, Joins
<1> HIDE DEF g
<1> DEFINE N == {n \in Nat : n \in 1..Len(s) => g[n] = f[n]}
<1>3. 0 \in N
  OBVIOUS
<1>4. ASSUME NEW n \in Nat, n \in N PROVE n + 1 \in N
  <2> SUFFICES ASSUME n + 1 \in 1..Len(s) PROVE g[n + 1] = f[n + 1]
    OBVIOUS
  <2>1. CASE n = 0
    BY <1>1, <2>1 DEF Joins
  <2>2. CASE n # 0
    <3>1. n + 1 \in 1..Len(s) /\ n + 1 # 1 /\ (n + 1) - 1 = n /\ g[n] = f[n]
      BY <1>4, <1>a, <2>2
    <3>2. g[n + 1] = g[n] \o s[n + 1]
      BY <1>1, <3>1 DEF Joins
    <3>3. f[n + 1] = f[n] \o s[n + 1]
      BY <3>1 DEF Joins
    <3> QED BY <3>1, <3>2, <3>3
  <2> QED BY <2>1, <2>2
<1> HIDE DEF N
<1>5. Len(s) \in N
  BY <1>3, <1>4, <1>a, NatSet
<1> QED BY <1>2, <1>5, <1>a DEF N

\* What is joined so far when e comes after s.
Joined(f, s, e) == IF s = <<>> THEN e ELSE f[Len(s)] \o e

\* A run goes on by one more sequence.
LEMMA JoinsOn ==
  ASSUME NEW E, NEW s \in Seq(E), NEW e \in E, NEW f, Joins(f, s)
  PROVE  Joins([i \in 1..Len(s) + 1 |-> IF i = Len(s) + 1 THEN Joined(f, s, e) ELSE f[i]],
               Append(s, e))
<1> DEFINE l == Joined(f, s, e)
           g == [i \in 1..Len(s) + 1 |-> IF i = Len(s) + 1 THEN l ELSE f[i]]
           t == Append(s, e)
<1>1. Len(s) \in Nat /\ Len(t) = Len(s) + 1 /\ t[Len(s) + 1] = e
      /\ \A i \in 1..Len(s) : t[i] = s[i]
  BY LenProperties, AppendProperties
<1> DEFINE h == [i \in 1..Len(t) |-> IF i = 1 THEN t[i] ELSE g[i - 1] \o t[i]]
<1>2. ASSUME NEW i \in 1..Len(s) + 1 PROVE g[i] = h[i]
  <2>1. CASE i \in 1..Len(s) /\ i = 1
    BY <1>1, <2>1 DEF Joins
  <2>2. CASE i \in 1..Len(s) /\ i # 1
    <3>1. g[i] = f[i] /\ g[i - 1] = f[i - 1] /\ t[i] = s[i]
      BY <1>1, <2>2
    <3>2. f[i] = f[i - 1] \o s[i]
      BY <2>2 DEF Joins
    <3>3. h[i] = g[i - 1] \o t[i]
      BY <2>2, <1>1
    <3> QED BY <3>1, <3>2, <3>3
  <2>3. CASE i = Len(s) + 1 /\ s = <<>>
    <3>1. i = 1 /\ t[i] = e /\ g[i] = e
      BY <1>1, <2>3, EmptySeq DEF Joined
    <3> QED BY <1>1, <3>1
  <2>4. CASE i = Len(s) + 1 /\ s # <<>>
    <3>1. Len(s) \in 1..Len(s) /\ i # 1
      BY <1>1, <2>4, EmptySeq
    <3>2. g[i - 1] = f[Len(s)] /\ t[i] = e /\ i - 1 = Len(s)
      BY <1>1, <2>4, <3>1
    <3>3. g[i] = f[Len(s)] \o e
      BY <2>4 DEF Joined
    <3>4. h[i] = g[i - 1] \o t[i]
      BY <3>1, <1>1
    <3> QED BY <3>2, <3>3, <3>4
  <2> QED BY <2>1, <2>2, <2>3, <2>4, <1>1
<1>3. g = h
  BY <1>1, <1>2
<1> QED BY <1>3 DEF Joins

\* Every list of sequences has a run.
LEMMA JoinsRuns ==
  ASSUME NEW E
  PROVE  \A s \in Seq(E) : \E f : Joins(f, s)
<1> DEFINE T == {s \in Seq(E) : \E f : Joins(f, s)}
<1>1. <<>> \in T
  <2>1. Joins([i \in 1..0 |-> <<>>], <<>>)
    BY EmptySeq DEF Joins
  <2> QED BY <2>1, EmptySeq
<1>2. ASSUME NEW s \in Seq(E), NEW e \in E, s \in T PROVE Append(s, e) \in T
  <2>1. PICK f : Joins(f, s)
    BY <1>2
  <2> QED BY <2>1, JoinsOn, AppendProperties
<1> HIDE DEF T
<1>3. Seq(E) \subseteq T
  BY <1>1, <1>2, SeqSet
<1> QED BY <1>3 DEF T

\* Nothing is joined to nothing.
LEMMA FlattenEmpty == FlattenSeq(<<>>) = <<>>
BY EmptySeq DEF FlattenSeq

\* The next sequence comes after all that is joined before it.
LEMMA FlattenAppend ==
  ASSUME NEW E, NEW s \in Seq(Seq(E)), NEW e \in Seq(E)
  PROVE  FlattenSeq(s) \in Seq(E) /\ FlattenSeq(Append(s, e)) = FlattenSeq(s) \o e
<1> DEFINE T == {q \in Seq(Seq(E)) : FlattenSeq(q) \in Seq(E)}
<1>1. <<>> \in T
  BY FlattenEmpty, EmptySeq
<1>2. ASSUME NEW q \in Seq(Seq(E)), NEW d \in Seq(E), FlattenSeq(q) \in Seq(E)
      PROVE  FlattenSeq(Append(q, d)) = FlattenSeq(q) \o d
  <2>1. PICK f : Joins(f, q)
    BY JoinsRuns
  <2> DEFINE g == [i \in 1..Len(q) + 1 |-> IF i = Len(q) + 1 THEN Joined(f, q, d) ELSE f[i]]
  <2>2. Joins(g, Append(q, d))
    BY <2>1, JoinsOn
  <2>3. /\ Append(q, d) \in Seq(Seq(E)) /\ Append(q, d) # <<>>
        /\ Len(Append(q, d)) = Len(q) + 1 /\ Len(q) \in Nat
    <3>1. Len(q) \in Nat
      BY LenProperties
    <3> QED BY <3>1, AppendProperties
  <2>4. FlattenSeq(Append(q, d)) = g[Len(q) + 1]
    <3> HIDE DEF g
    <3> QED BY <2>2, <2>3, FlattenIs
  <2>5. g[Len(q) + 1] = Joined(f, q, d)
    BY <2>3
  <2>6. CASE q = <<>>
    BY <2>4, <2>5, <2>6, FlattenEmpty, ConcatEmptySeq DEF Joined
  <2>7. CASE q # <<>>
    BY <2>1, <2>4, <2>5, <2>7, FlattenIs DEF Joined
  <2> QED BY <2>6, <2>7
<1>3. ASSUME NEW q \in Seq(Seq(E)), NEW d \in Seq(E), q \in T PROVE Append(q, d) \in T
  BY <1>2, <1>3, ConcatProperties, AppendProperties
<1> HIDE DEF T
<1>4. Seq(Seq(E)) \subseteq T
  BY <1>1, <1>3, SeqSet
<1> QED BY <1>2, <1>4 DEF T

-----------------------------------------------------------------------------
\* What a function makes of each element of a sequence, joined: Only.

\* Appending after a concatenation.
LEMMA ConcatAppend ==
  ASSUME NEW E, NEW s \in Seq(E), NEW t \in Seq(E), NEW e \in E
  PROVE  s \o Append(t, e) = Append(s \o t, e)
<1>1. Append(t, e) = t \o <<e>> /\ Append(s \o t, e) = (s \o t) \o <<e>>
  BY AppendIsConcat, ConcatProperties
<1>2. <<e>> \in Seq(E)
  OBVIOUS
<1> QED BY <1>1, <1>2, ConcatAssociative

\* F makes a sequence of elements of V of every element of E.
Yields(F, E, V) == F \in [E -> Seq(V)]

\* What F makes of each element of s, joined.
Each(F, s) == [i \in DOMAIN s |-> F[s[i]]]
Spread(F, s) == FlattenSeq(Each(F, s))

\* Concatenation is associative.
Regroups(V) == \A a, b, c \in Seq(V) : (a \o b) \o c = a \o (b \o c)

LEMMA Reassociate == ASSUME NEW V PROVE Regroups(V)
BY ConcatAssociative DEF Regroups

\* F of every element of a sequence with one more element.
LEMMA EachAppend ==
  ASSUME NEW E, NEW V, NEW F, Yields(F, E, V), NEW s \in Seq(E), NEW e \in E
  PROVE  Each(F, s) \in Seq(Seq(V)) /\ Each(F, Append(s, e)) = Append(Each(F, s), F[e])
<1> DEFINE m == [i \in DOMAIN s |-> F[s[i]]]
           t == Append(s, e)
<1>1. /\ Len(s) \in Nat /\ DOMAIN s = 1..Len(s) /\ s \in [1..Len(s) -> E]
      /\ t \in Seq(E) /\ Len(t) = Len(s) + 1 /\ DOMAIN t = 1..Len(s) + 1
      /\ \A i \in 1..Len(s) : t[i] = s[i]
      /\ t[Len(s) + 1] = e
  <2>1. Len(s) \in Nat /\ DOMAIN s = 1..Len(s) /\ s \in [1..Len(s) -> E]
    BY LenProperties
  <2>2. t \in Seq(E) /\ Len(t) = Len(s) + 1 /\ (\A i \in 1..Len(s) : t[i] = s[i])
        /\ t[Len(s) + 1] = e
    BY AppendProperties
  <2>3. DOMAIN t = 1..Len(s) + 1
    BY <2>2, LenProperties
  <2> QED BY <2>1, <2>2, <2>3
<1> HIDE DEF t
<1>2. m \in Seq(Seq(V)) /\ Len(m) = Len(s) /\ \A i \in 1..Len(s) : m[i] = F[s[i]]
  <2>1. m \in [1..Len(s) -> Seq(V)]
    BY <1>1 DEF Yields
  <2>2. m \in Seq(Seq(V))
    BY <2>1, <1>1
  <2>3. DOMAIN m = 1..Len(m) /\ Len(m) \in Nat
    BY <2>2, LenProperties
  <2>4. Len(m) = Len(s)
    BY <2>3, <1>1
  <2> QED BY <2>2, <2>4, <1>1
<1>3. [i \in DOMAIN t |-> F[t[i]]] = Append(m, F[e])
  <2> DEFINE n == [i \in DOMAIN t |-> F[t[i]]]
             a == Append(m, F[e])
  <2>1. F[e] \in Seq(V)
    BY DEF Yields
  <2> HIDE DEF m
  <2>2. a \in Seq(Seq(V)) /\ Len(a) = Len(s) + 1 /\ (\A i \in 1..Len(s) : a[i] = F[s[i]])
        /\ a[Len(s) + 1] = F[e]
    BY <1>2, <2>1, AppendProperties
  <2>3. DOMAIN a = 1..Len(s) + 1 /\ a = [i \in 1..Len(s) + 1 |-> a[i]]
    BY <2>2, LenProperties
  <2> HIDE DEF a
  <2>4. ASSUME NEW i \in 1..Len(s) + 1 PROVE a[i] = F[t[i]]
    <3>1. i \in 1..Len(s) \/ i = Len(s) + 1
      BY <1>1
    <3> QED BY <1>1, <2>2, <3>1
  <2>5. n = [i \in 1..Len(s) + 1 |-> F[t[i]]]
    BY <1>1
  <2>6. [i \in 1..Len(s) + 1 |-> a[i]] = [i \in 1..Len(s) + 1 |-> F[t[i]]]
    BY <2>4
  <2>7. n = a
    BY <2>3, <2>5, <2>6
  <2> QED BY <2>7 DEF a
<1> QED BY <1>2, <1>3 DEF t, Each

\* Spread goes along a sequence and respects Append and concatenation.
LEMMA SpreadEmpty == ASSUME NEW F PROVE Spread(F, <<>>) = <<>>
<1>1. [i \in DOMAIN <<>> |-> F[<<>>[i]]] = <<>>
  BY EmptySeq
<1> QED BY <1>1, FlattenEmpty DEF Spread, Each

LEMMA SpreadAppend ==
  ASSUME NEW E, NEW V, NEW F, Yields(F, E, V), NEW s \in Seq(E), NEW e \in E
  PROVE  Spread(F, s) \in Seq(V) /\ Spread(F, Append(s, e)) = Spread(F, s) \o F[e]
<1>1. F[e] \in Seq(V)
  BY DEF Yields
<1>2. Each(F, s) \in Seq(Seq(V)) /\ Each(F, Append(s, e)) = Append(Each(F, s), F[e])
  BY EachAppend
<1> QED BY <1>1, <1>2, FlattenAppend DEF Spread

LEMMA SpreadType ==
  ASSUME NEW E, NEW V, NEW F, Yields(F, E, V), NEW s \in Seq(E)
  PROVE  Spread(F, s) \in Seq(V)
<1>1. CASE s = <<>>
  BY <1>1, SpreadEmpty, EmptySeq
<1>2. CASE s # <<>>
  <2>1. PICK e \in E : TRUE
    BY <1>2, SequenceEmptyOrAppend
  <2> QED BY <2>1, SpreadAppend
<1> QED BY <1>1, <1>2

LEMMA SpreadConcat ==
  ASSUME NEW E, NEW V, NEW F, Yields(F, E, V), NEW s \in Seq(E), NEW t \in Seq(E)
  PROVE  Spread(F, s \o t) = Spread(F, s) \o Spread(F, t)
<1> DEFINE T == {u \in Seq(E) : Spread(F, s \o u) = Spread(F, s) \o Spread(F, u)}
<1>1. <<>> \in T
  <2>1. Spread(F, s) \in Seq(V) /\ s \o <<>> = s /\ Spread(F, <<>>) = <<>>
    BY SpreadEmpty, SpreadType, ConcatEmptySeq
  <2> QED BY <2>1, ConcatEmptySeq, EmptySeq
<1>2. ASSUME NEW u \in Seq(E), NEW e \in E, u \in T PROVE Append(u, e) \in T
  <2>1. s \o u \in Seq(E) /\ Append(u, e) \in Seq(E) /\ s \o Append(u, e) = Append(s \o u, e)
    BY ConcatProperties, AppendProperties, ConcatAppend
  <2>a. \A q \in Seq(E) : Spread(F, Append(q, e)) = Spread(F, q) \o F[e]
    BY SpreadAppend
  <2>2. Spread(F, Append(s \o u, e)) = Spread(F, s \o u) \o F[e]
    BY <2>1, <2>a
  <2>3. Spread(F, Append(u, e)) = Spread(F, u) \o F[e]
    BY SpreadAppend
  <2>4. Spread(F, s) \in Seq(V) /\ Spread(F, u) \in Seq(V) /\ F[e] \in Seq(V)
    BY SpreadType DEF Yields
  <2>b. Regroups(V)
    BY Reassociate
  <2>5. (Spread(F, s) \o Spread(F, u)) \o F[e] = Spread(F, s) \o (Spread(F, u) \o F[e])
    BY <2>4, <2>b DEF Regroups
  <2> QED BY <1>2, <2>1, <2>2, <2>3, <2>5
<1> HIDE DEF T
<1>3. Seq(E) \subseteq T
  BY <1>1, <1>2, SeqSet
<1> QED BY <1>3 DEF T

\* The elements of a sequence in a set.
Pick(E, S) == [e \in E |-> IF e \in S THEN <<e>> ELSE <<>>]

\* Only is a Spread, and inherits what holds of it.
LEMMA OnlyIsSpread ==
  ASSUME NEW E, NEW S, NEW s \in Seq(E)
  PROVE  Only(s, S) = Spread(Pick(E, S), s)
<1>1. \A i \in DOMAIN s : s[i] \in E
  BY LenProperties
<1> QED BY <1>1 DEF Only, Spread, Each, Pick

LEMMA OnlyYields ==
  ASSUME NEW E, NEW S
  PROVE  Yields(Pick(E, S), E, E \cap S)
<1>1. ASSUME NEW e \in E PROVE (IF e \in S THEN <<e>> ELSE <<>>) \in Seq(E \cap S)
  <2>1. CASE e \in S
    BY <2>1
  <2>2. CASE e \notin S
    BY <2>2, EmptySeq
  <2> QED BY <2>1, <2>2
<1> QED BY <1>1 DEF Yields, Pick

LEMMA OnlyType ==
  ASSUME NEW E, NEW S, NEW s \in Seq(E)
  PROVE  Only(s, S) \in Seq(E \cap S)
<1>1. Spread(Pick(E, S), s) \in Seq(E \cap S)
  BY OnlyYields, SpreadType
<1> QED BY <1>1, OnlyIsSpread

\* Only goes along a sequence, too.
LEMMA OnlyEmpty == ASSUME NEW S PROVE Only(<<>>, S) = <<>>
<1>1. [i \in DOMAIN <<>> |-> IF <<>>[i] \in S THEN << <<>>[i] >> ELSE <<>>] = <<>>
  BY EmptySeq
<1> QED BY <1>1, FlattenEmpty DEF Only

LEMMA OnlyConcat ==
  ASSUME NEW E, NEW S, NEW s \in Seq(E), NEW t \in Seq(E)
  PROVE  Only(s \o t, S) = Only(s, S) \o Only(t, S)
<1>0. Yields(Pick(E, S), E, E \cap S)
  BY OnlyYields
<1>1. s \o t \in Seq(E)
  BY ConcatProperties
<1>2. Spread(Pick(E, S), s \o t) = Spread(Pick(E, S), s) \o Spread(Pick(E, S), t)
  BY <1>0, SpreadConcat
<1>3. \A u \in Seq(E) : Only(u, S) = Spread(Pick(E, S), u)
  BY OnlyIsSpread
<1> QED BY <1>1, <1>2, <1>3

LEMMA OnlyAppend ==
  ASSUME NEW E, NEW S, NEW s \in Seq(E), NEW e \in E
  PROVE  Only(Append(s, e), S) = IF e \in S THEN Append(Only(s, S), e) ELSE Only(s, S)
<1>0. Yields(Pick(E, S), E, E \cap S)
  BY OnlyYields
<1>1. Append(s, e) \in Seq(E)
  BY AppendProperties
<1>2. Spread(Pick(E, S), Append(s, e)) = Spread(Pick(E, S), s) \o Pick(E, S)[e]
  BY <1>0, SpreadAppend
<1>3. \A u \in Seq(E) : Only(u, S) = Spread(Pick(E, S), u)
  BY OnlyIsSpread
<1>4. Only(Append(s, e), S) = Only(s, S) \o Pick(E, S)[e]
  BY <1>1, <1>2, <1>3
<1>5. Only(s, S) \in Seq(E \cap S)
  BY OnlyType
<1>6. Only(s, S) \o <<>> = Only(s, S)
  BY <1>5, ConcatEmptySeq
<1>7. e \in S => Append(Only(s, S), e) = Only(s, S) \o <<e>>
  BY <1>5, AppendIsConcat
<1> QED BY <1>4, <1>6, <1>7 DEF Pick

\* All or nothing of a sequence.
LEMMA OnlyAll ==
  ASSUME NEW S, NEW s \in Seq(S)
  PROVE  Only(s, S) = s
<1> DEFINE T == {u \in Seq(S) : Only(u, S) = u}
<1>1. <<>> \in T
  BY OnlyEmpty, EmptySeq
<1>2. ASSUME NEW u \in Seq(S), NEW e \in S, u \in T PROVE Append(u, e) \in T
  BY <1>2, OnlyAppend, AppendProperties
<1> HIDE DEF T
<1>3. Seq(S) \subseteq T
  BY <1>1, <1>2, SeqSet
<1> QED BY <1>3 DEF T

LEMMA OnlyNone ==
  ASSUME NEW E, NEW S, E \cap S = {}, NEW s \in Seq(E)
  PROVE  Only(s, S) = <<>>
<1>1. Only(s, S) \in Seq({})
  BY OnlyType
<1> QED BY <1>1, SequenceEmptyOrAppend

\* What is in two sets alike is chosen alike.
LEMMA OnlyAlike ==
  ASSUME NEW E, NEW S, NEW T, E \cap S = E \cap T, NEW s \in Seq(E)
  PROVE  Only(s, S) = Only(s, T)
<1>1. \A i \in DOMAIN s : s[i] \in E
  BY LenProperties
<1>2. \A i \in DOMAIN s : s[i] \in S <=> s[i] \in T
  BY <1>1
<1> QED BY <1>2 DEF Only

-----------------------------------------------------------------------------
\* What traces say together, and whether one of them is of some kind.

SaidOf == [t \in AnyTrace |-> t.said]

\* Said is the Spread of what each trace says.
LEMMA SaidYields == Yields(SaidOf, AnyTrace, Nat)
BY DEF Yields, SaidOf, AnyTrace

LEMMA SaidIsSpread ==
  ASSUME NEW s \in Seq(AnyTrace)
  PROVE  Said(s) = Spread(SaidOf, s)
<1>1. \A i \in DOMAIN s : s[i] \in AnyTrace
  BY LenProperties
<1> QED BY <1>1 DEF Said, Mapped, Spread, Each, SaidOf

LEMMA SaidEmpty == Said(<<>>) = <<>>
<1>1. <<>> \in Seq(AnyTrace)
  BY EmptySeq
<1> QED BY <1>1, SaidIsSpread, SpreadEmpty

LEMMA SaidType ==
  ASSUME NEW s \in Seq(AnyTrace)
  PROVE  Said(s) \in Seq(Nat)
BY SaidYields, SaidIsSpread, SpreadType

LEMMA SaidAppend ==
  ASSUME NEW s \in Seq(AnyTrace), NEW t \in AnyTrace
  PROVE  Said(Append(s, t)) = Said(s) \o t.said
<1>1. Append(s, t) \in Seq(AnyTrace)
  BY AppendProperties
<1>2. Spread(SaidOf, Append(s, t)) = Spread(SaidOf, s) \o SaidOf[t]
  BY SaidYields, SpreadAppend
<1>3. SaidOf[t] = t.said
  BY DEF SaidOf
<1> QED BY <1>1, <1>2, <1>3, SaidIsSpread

LEMMA SaidConcat ==
  ASSUME NEW s \in Seq(AnyTrace), NEW t \in Seq(AnyTrace)
  PROVE  Said(s \o t) = Said(s) \o Said(t)
<1>1. s \o t \in Seq(AnyTrace)
  BY ConcatProperties
<1>2. Spread(SaidOf, s \o t) = Spread(SaidOf, s) \o Spread(SaidOf, t)
  BY SaidYields, SpreadConcat
<1>3. \A u \in Seq(AnyTrace) : Said(u) = Spread(SaidOf, u)
  BY SaidIsSpread
<1> QED BY <1>1, <1>2, <1>3

\* Some element of s is in K.
Has(s, K) == \E i \in DOMAIN s : s[i] \in K

\* What a longer list has is had by one of its parts.
LEMMA HasEmpty == ASSUME NEW K PROVE ~Has(<<>>, K)
BY EmptySeq DEF Has

LEMMA HasAppend ==
  ASSUME NEW E, NEW K, NEW s \in Seq(E), NEW e \in E
  PROVE  Has(Append(s, e), K) <=> Has(s, K) \/ e \in K
<1>1. Append(s, e) \in Seq(E) /\ Len(Append(s, e)) = Len(s) + 1
      /\ (\A i \in 1..Len(s) : Append(s, e)[i] = s[i]) /\ Append(s, e)[Len(s) + 1] = e
  BY AppendProperties
<1>2. DOMAIN Append(s, e) = 1..Len(s) + 1 /\ DOMAIN s = 1..Len(s) /\ Len(s) \in Nat
  BY <1>1, LenProperties
<1>3. \A i \in 1..Len(s) + 1 : i \in 1..Len(s) \/ i = Len(s) + 1
  BY <1>2
<1>4. \A i \in 1..Len(s) : i \in 1..Len(s) + 1
  BY <1>2
<1>5. Len(s) + 1 \in 1..Len(s) + 1
  BY <1>2
<1> QED BY <1>1, <1>2, <1>3, <1>4, <1>5 DEF Has

LEMMA HasConcat ==
  ASSUME NEW E, NEW K, NEW s \in Seq(E), NEW t \in Seq(E)
  PROVE  Has(s \o t, K) <=> Has(s, K) \/ Has(t, K)
<1> DEFINE T == {u \in Seq(E) : Has(s \o u, K) <=> Has(s, K) \/ Has(u, K)}
<1>1. <<>> \in T
  BY HasEmpty, ConcatEmptySeq, EmptySeq
<1>2. ASSUME NEW u \in Seq(E), NEW e \in E, u \in T PROVE Append(u, e) \in T
  <2>1. s \o u \in Seq(E) /\ Append(u, e) \in Seq(E) /\ s \o Append(u, e) = Append(s \o u, e)
    BY ConcatProperties, AppendProperties, ConcatAppend
  <2>2. Has(Append(s \o u, e), K) <=> Has(s \o u, K) \/ e \in K
    BY <2>1, HasAppend
  <2>3. Has(Append(u, e), K) <=> Has(u, K) \/ e \in K
    BY HasAppend
  <2>4. Has(s \o u, K) <=> Has(s, K) \/ Has(u, K)
    BY <1>2
  <2> QED BY <2>1, <2>2, <2>3, <2>4
<1> HIDE DEF T
<1>3. Seq(E) \subseteq T
  BY <1>1, <1>2, SeqSet
<1> QED BY <1>3 DEF T

\* A list has none of K if it is a list of others.
LEMMA HasNone ==
  ASSUME NEW E, NEW K, NEW s \in Seq(E)
  PROVE  ~Has(s, K) <=> s \in Seq(E \ K)
<1>1. DOMAIN s = 1..Len(s) /\ Len(s) \in Nat /\ s \in [1..Len(s) -> E]
  BY LenProperties
<1>2. ASSUME ~Has(s, K) PROVE s \in Seq(E \ K)
  <2>1. s \in [1..Len(s) -> E \ K]
    BY <1>1, <1>2 DEF Has
  <2> QED BY <1>1, <2>1
<1>3. ASSUME s \in Seq(E \ K) PROVE ~Has(s, K)
  <2>1. s \in [1..Len(s) -> E \ K]
    BY <1>3, LenProperties
  <2> QED BY <1>1, <2>1 DEF Has
<1> QED BY <1>2, <1>3

\* What is left has what was there and was to be left.
LEMMA OnlyHas ==
  ASSUME NEW E, NEW S, NEW K, NEW s \in Seq(E)
  PROVE  Has(Only(s, S), K) <=> Has(s, S \cap K)
<1> DEFINE T == {u \in Seq(E) : Has(Only(u, S), K) <=> Has(u, S \cap K)}
<1>1. <<>> \in T
  BY HasEmpty, OnlyEmpty, EmptySeq
<1>2. ASSUME NEW u \in Seq(E), NEW e \in E, u \in T PROVE Append(u, e) \in T
  <2>1. Append(u, e) \in Seq(E)
    BY AppendProperties
  <2>2. Only(u, S) \in Seq(E \cap S)
    BY OnlyType
  <2>3. Only(Append(u, e), S) = IF e \in S THEN Append(Only(u, S), e) ELSE Only(u, S)
    BY OnlyAppend
  <2>4. Has(Append(u, e), S \cap K) <=> Has(u, S \cap K) \/ e \in S \cap K
    BY HasAppend
  <2>5. e \in S => (Has(Append(Only(u, S), e), K) <=> Has(Only(u, S), K) \/ e \in K)
    BY <2>2, HasAppend
  <2> QED BY <1>2, <2>1, <2>3, <2>4, <2>5
<1> HIDE DEF T
<1>3. Seq(E) \subseteq T
  BY <1>1, <1>2, SeqSet
<1> QED BY <1>3 DEF T

-----------------------------------------------------------------------------
\* Traces of a turn, replaced or dropped, and what they say then.

\* Only speech and the pieces of a completion say something.
TurnTrace == {t \in AnyTrace : t.kind \in {"debug", "goto", "last"} => t.said = <<>>}

GoToTrace == Of({"goto"})

\* What is dropped from a list of traces says nothing.
LEMMA SaidOnly ==
  ASSUME NEW S, NEW s \in Seq(TurnTrace), \A t \in TurnTrace \ S : t.said = <<>>
  PROVE  Only(s, S) \in Seq(TurnTrace) /\ Said(Only(s, S)) = Said(s)
<1> DEFINE T == {u \in Seq(TurnTrace) : Said(Only(u, S)) = Said(u)}
<1>0. TurnTrace \subseteq AnyTrace /\ Seq(TurnTrace) \subseteq Seq(AnyTrace)
  BY SeqMonotonic DEF TurnTrace
<1>a. \A u \in Seq(TurnTrace) : Only(u, S) \in Seq(TurnTrace)
  <2> SUFFICES ASSUME NEW u \in Seq(TurnTrace) PROVE Only(u, S) \in Seq(TurnTrace)
    OBVIOUS
  <2>1. Only(u, S) \in Seq(TurnTrace \cap S)
    BY OnlyType
  <2> QED BY <2>1, SeqMonotonic
<1>1. <<>> \in T
  BY OnlyEmpty, EmptySeq
<1>2. ASSUME NEW u \in Seq(TurnTrace), NEW e \in TurnTrace, u \in T PROVE Append(u, e) \in T
  <2>1. Append(u, e) \in Seq(TurnTrace)
    BY AppendProperties
  <2>2. Only(Append(u, e), S) = IF e \in S THEN Append(Only(u, S), e) ELSE Only(u, S)
    BY OnlyAppend
  <2>3. Said(Append(u, e)) = Said(u) \o e.said
    BY <1>0, SaidAppend
  <2>4. Only(u, S) \in Seq(AnyTrace) /\ e \in AnyTrace
    BY <1>0, <1>a
  <2>5. Said(Append(Only(u, S), e)) = Said(Only(u, S)) \o e.said
    BY <2>4, SaidAppend
  <2>6. Said(u) \o <<>> = Said(u)
    BY <1>0, SaidType, ConcatEmptySeq
  <2>7. e \notin S => e.said = <<>>
    OBVIOUS
  <2> QED BY <1>2, <2>1, <2>2, <2>3, <2>5, <2>6, <2>7
<1> HIDE DEF T
<1>3. Seq(TurnTrace) \subseteq T
  BY <1>1, <1>2, SeqSet
<1> QED BY <1>3, <1>a DEF T

\* Traces that say the same, one by one, say the same together.
LEMMA SaidAlike ==
  ASSUME NEW s, NEW m, DOMAIN m = DOMAIN s, \A i \in DOMAIN s : m[i].said = s[i].said
  PROVE  Said(m) = Said(s)
<1>1. [i \in DOMAIN m |-> m[i].said] = [i \in DOMAIN s |-> s[i].said]
  OBVIOUS
<1> QED BY <1>1 DEF Said, Mapped

Silenced(t) == [t EXCEPT !.said = <<>>]

\* What the voice service makes of a trace.
Voices(split) ==
  [t \in AnyTrace |-> IF t.kind = "speech" /\ split THEN <<t, Silenced(t)>> ELSE <<t>>]

\* The voice service makes speech of speech: what is said and the go-to traces
\* are kept.
LEMMA VoicedIsSpread ==
  ASSUME NEW split, NEW s \in Seq(AnyTrace)
  PROVE  Voiced(s, split) = Spread(Voices(split), s)
<1>1. \A i \in DOMAIN s : s[i] \in AnyTrace
  BY LenProperties
<1> QED BY <1>1 DEF Voiced, Mapped, Spread, Each, Voices, Silenced

LEMMA VoicedKeeps ==
  ASSUME NEW split, NEW E \in SUBSET AnyTrace, NEW s \in Seq(E),
         \A t \in E : t.kind = "speech" => Silenced(t) \in E
  PROVE  /\ Voiced(s, split) \in Seq(E)
         /\ Said(Voiced(s, split)) = Said(s)
         /\ Has(s, GoToTrace) => Has(Voiced(s, split), GoToTrace)
<1> DEFINE F == Voices(split)
           T == {u \in Seq(E) : /\ Spread(F, u) \in Seq(E)
                                /\ Said(Spread(F, u)) = Said(u)
                                /\ Has(u, GoToTrace) => Has(Spread(F, u), GoToTrace)}
<1>0. Seq(E) \subseteq Seq(AnyTrace)
  BY SeqMonotonic
<1>a. ASSUME NEW t \in AnyTrace
      PROVE  /\ F[t] \in Seq(AnyTrace)
             /\ t \in E => F[t] \in Seq(E)
             /\ Said(F[t]) = t.said
             /\ t \in GoToTrace => Has(F[t], GoToTrace)
  <2>1. Silenced(t) \in AnyTrace /\ Silenced(t).said = <<>>
    BY EmptySeq DEF AnyTrace, Silenced
  <2>2. Said(<<>>) = <<>> /\ <<>> \in Seq(AnyTrace)
    BY SaidEmpty, EmptySeq
  <2>3. t.said \in Seq(Nat)
    BY DEF AnyTrace
  <2>4. <<t>> = Append(<<>>, t) /\ <<t, Silenced(t)>> = Append(<<t>>, Silenced(t))
        /\ <<t>> \in Seq(AnyTrace)
    OBVIOUS
  <2>5. Said(<<t>>) = t.said
    <3>1. Said(Append(<<>>, t)) = Said(<<>>) \o t.said
      BY <2>2, SaidAppend
    <3>2. <<>> \o t.said = t.said
      BY <2>3, ConcatEmptySeq
    <3> QED BY <2>2, <2>4, <3>1, <3>2
  <2>6. Said(<<t, Silenced(t)>>) = t.said
    <3>1. Said(Append(<<t>>, Silenced(t))) = Said(<<t>>) \o Silenced(t).said
      BY <2>1, <2>4, SaidAppend
    <3> QED BY <2>1, <2>3, <2>4, <2>5, <3>1, ConcatEmptySeq
  <2>7. F[t] = IF t.kind = "speech" /\ split THEN <<t, Silenced(t)>> ELSE <<t>>
    BY DEF Voices
  <2>8. t \in GoToTrace => F[t] = <<t>>
    BY <2>7 DEF GoToTrace, Of
  <2> QED BY <2>1, <2>5, <2>6, <2>7, <2>8 DEF Has
<1>b. Yields(F, AnyTrace, AnyTrace)
  BY <1>a DEF Yields, Voices
<1> HIDE DEF F
<1>1. <<>> \in T
  BY SpreadEmpty, SaidEmpty, HasEmpty, EmptySeq
<1>2. ASSUME NEW u \in Seq(E), NEW e \in E, u \in T PROVE Append(u, e) \in T
  <2>1. Append(u, e) \in Seq(E) /\ u \in Seq(AnyTrace) /\ e \in AnyTrace
    BY <1>0, AppendProperties
  <2>2. Spread(F, Append(u, e)) = Spread(F, u) \o F[e]
    BY <1>b, <2>1, SpreadAppend
  <2>3. Spread(F, u) \in Seq(E) /\ F[e] \in Seq(E)
    BY <1>2, <1>a, <2>1
  <2>4. Spread(F, u) \o F[e] \in Seq(E)
    BY <2>3, ConcatProperties
  <2>5. Said(Spread(F, u) \o F[e]) = Said(Spread(F, u)) \o Said(F[e])
    BY <1>0, <2>3, SaidConcat
  <2>6. Said(Append(u, e)) = Said(u) \o e.said
    BY <2>1, SaidAppend
  <2>7. Said(Spread(F, u)) = Said(u) /\ Said(F[e]) = e.said
    BY <1>2, <1>a, <2>1
  <2>8. Has(Append(u, e), GoToTrace) <=> Has(u, GoToTrace) \/ e \in GoToTrace
    BY HasAppend
  <2>9. Has(Spread(F, u) \o F[e], GoToTrace) <=> Has(Spread(F, u), GoToTrace) \/ Has(F[e], GoToTrace)
    BY <2>3, HasConcat
  <2>10. (Has(u, GoToTrace) => Has(Spread(F, u), GoToTrace))
         /\ (e \in GoToTrace => Has(F[e], GoToTrace))
    BY <1>2, <1>a, <2>1
  <2>11. Said(Spread(F, Append(u, e))) = Said(Append(u, e))
    BY <2>2, <2>5, <2>6, <2>7
  <2>12. Has(Append(u, e), GoToTrace) => Has(Spread(F, Append(u, e)), GoToTrace)
    BY <2>2, <2>8, <2>9, <2>10
  <2> QED BY <2>1, <2>2, <2>4, <2>11, <2>12
<1> HIDE DEF T
<1>3. Seq(E) \subseteq T
  BY <1>1, <1>2, SeqSet
<1>4. Voiced(s, split) = Spread(F, s)
  BY <1>0, VoicedIsSpread DEF F
<1> QED BY <1>3, <1>4 DEF T

-----------------------------------------------------------------------------
\* The cases of the merge, and the order of the kinds of traces.

\* The last of a list, and that of a list whose last is replaced.
LEMMA LastAppend ==
  ASSUME NEW E, NEW s \in Seq(E), NEW e \in E
  PROVE  Last(Append(s, e)) = e /\ Append(s, e) # <<>>
<1>1. Append(s, e) \in Seq(E) /\ Len(Append(s, e)) = Len(s) + 1 /\ Append(s, e)[Len(s) + 1] = e
  BY AppendProperties
<1>2. Len(s) \in Nat
  BY LenProperties
<1> QED BY <1>1, <1>2, EmptySeq DEF Last

LEMMA ReplaceLast ==
  ASSUME NEW E, NEW s \in Seq(E), NEW l \in E, NEW m \in E
  PROVE  [Append(s, l) EXCEPT ![Len(Append(s, l))] = m] = Append(s, m)
<1> DEFINE a == Append(s, l)
           b == Append(s, m)
           c == [a EXCEPT ![Len(a)] = m]
<1>1. /\ a \in Seq(E) /\ Len(a) = Len(s) + 1 /\ \A i \in 1..Len(s) : a[i] = s[i]
      /\ b \in Seq(E) /\ Len(b) = Len(s) + 1 /\ (\A i \in 1..Len(s) : b[i] = s[i])
      /\ b[Len(s) + 1] = m
      /\ Len(s) \in Nat
  BY AppendProperties, LenProperties
<1>2. DOMAIN a = 1..Len(s) + 1 /\ b = [i \in 1..Len(s) + 1 |-> b[i]]
  BY <1>1, LenProperties
<1>3. c = [i \in 1..Len(s) + 1 |-> IF i = Len(s) + 1 THEN m ELSE a[i]]
  <2> HIDE DEF a
  <2> QED BY <1>1, <1>2
<1>4. \A i \in 1..Len(s) + 1 : b[i] = IF i = Len(s) + 1 THEN m ELSE a[i]
  <2> HIDE DEF a, b
  <2>1. \A i \in 1..Len(s) + 1 : i \in 1..Len(s) \/ i = Len(s) + 1
    BY <1>1
  <2> QED BY <1>1, <2>1
<1> HIDE DEF a, b
<1>5. c = b
  BY <1>2, <1>3, <1>4
<1> QED BY <1>5 DEF a, b

\* The cases of MergeOne: any other trace is appended, a piece that follows no
\* start is dropped, one that does is taken up in it.
LEMMA MergeKept ==
  ASSUME NEW s, NEW t, s = <<>> \/ t.kind \notin {"more", "last"}
  PROVE  MergeOne(s, t) = Append(s, t)
BY DEF MergeOne

LEMMA MergeDropped ==
  ASSUME NEW s, NEW t, s # <<>>, t.kind \in {"more", "last"}, Last(s).kind # "start"
  PROVE  MergeOne(s, t) = s
BY DEF MergeOne

LEMMA MergeMore ==
  ASSUME NEW s \in Seq(AnyTrace), NEW l \in AnyTrace, l.kind = "start", NEW t \in AnyTrace,
         t.kind = "more"
  PROVE  /\ [l EXCEPT !.said = l.said \o t.said] \in AnyTrace
         /\ MergeOne(Append(s, l), t) = Append(s, [l EXCEPT !.said = l.said \o t.said])
<1> DEFINE a == Append(s, l)
           m == [l EXCEPT !.said = l.said \o t.said]
<1>1. Last(a) = l /\ a # <<>> /\ a[Len(a)] = l
  BY LastAppend DEF Last
<1>2. m \in AnyTrace
  <2>1. l.said \o t.said \in Seq(Nat)
    BY ConcatProperties DEF AnyTrace
  <2> QED BY <2>1 DEF AnyTrace
<1> HIDE DEF a
<1>3. MergeOne(a, t) = [a EXCEPT ![Len(a)] = [a[Len(a)] EXCEPT !.said = a[Len(a)].said \o t.said]]
  BY <1>1 DEF MergeOne
<1>4. MergeOne(a, t) = [a EXCEPT ![Len(a)] = m]
  BY <1>1, <1>3
<1> HIDE DEF m
<1>5. [a EXCEPT ![Len(a)] = m] = Append(s, m)
  BY <1>2, ReplaceLast DEF a
<1> QED BY <1>2, <1>4, <1>5 DEF a, m

LEMMA MergeLast ==
  ASSUME NEW s \in Seq(AnyTrace), NEW l \in AnyTrace, l.kind = "start", NEW t \in AnyTrace,
         t.kind = "last"
  PROVE  /\ [l EXCEPT !.kind = "speech"] \in AnyTrace
         /\ MergeOne(Append(s, l), t) = Append(s, [l EXCEPT !.kind = "speech"])
<1> DEFINE a == Append(s, l)
           m == [l EXCEPT !.kind = "speech"]
<1>1. Last(a) = l /\ a # <<>> /\ a[Len(a)] = l
  BY LastAppend DEF Last
<1>2. m \in AnyTrace
  BY DEF AnyTrace, Kinds
<1> HIDE DEF a
<1>3. MergeOne(a, t) = [a EXCEPT ![Len(a)] = [a[Len(a)] EXCEPT !.kind = "speech"]]
  BY <1>1 DEF MergeOne
<1>4. MergeOne(a, t) = [a EXCEPT ![Len(a)] = m]
  BY <1>1, <1>3
<1> HIDE DEF m
<1>5. [a EXCEPT ![Len(a)] = m] = Append(s, m)
  BY <1>2, ReplaceLast DEF a
<1> QED BY <1>2, <1>4, <1>5 DEF a, m

\* The kinds of traces are in order.
KindsOf(s) == [i \in DOMAIN s |-> s[i].kind]

\* A list is in order if it was before its last trace, and that one goes on
\* from what it follows.
LEMMA OrderedAppend ==
  ASSUME NEW s \in Seq(AnyTrace), NEW e \in AnyTrace
  PROVE  InOrder(KindsOf(Append(s, e))) <=>
           /\ InOrder(KindsOf(s))
           /\ e.kind = "more" => s # <<>> /\ Last(s).kind \in {"start", "more"}
           /\ s = <<>> => e.kind # "last"
<1> DEFINE a == Append(s, e)
<1>1. /\ a \in Seq(AnyTrace) /\ Len(a) = Len(s) + 1 /\ (\A i \in 1..Len(s) : a[i] = s[i])
      /\ a[Len(s) + 1] = e
      /\ Len(s) \in Nat /\ DOMAIN s = 1..Len(s) /\ DOMAIN a = 1..Len(s) + 1
  <2>1. /\ a \in Seq(AnyTrace) /\ Len(a) = Len(s) + 1 /\ (\A i \in 1..Len(s) : a[i] = s[i])
        /\ a[Len(s) + 1] = e
    BY AppendProperties
  <2> QED BY <2>1, LenProperties
<1>2. s = <<>> <=> Len(s) = 0
  BY EmptySeq
<1> HIDE DEF a
<1>3. /\ DOMAIN KindsOf(a) = 1..Len(s) + 1 /\ DOMAIN KindsOf(s) = 1..Len(s)
      /\ \A i \in 1..Len(s) : KindsOf(a)[i] = s[i].kind /\ KindsOf(s)[i] = s[i].kind
      /\ KindsOf(a)[Len(s) + 1] = e.kind
  BY <1>1 DEF KindsOf
<1>4. ASSUME InOrder(KindsOf(a))
      PROVE  /\ InOrder(KindsOf(s))
             /\ e.kind = "more" => s # <<>> /\ Last(s).kind \in {"start", "more"}
             /\ s = <<>> => e.kind # "last"
  <2>1. InOrder(KindsOf(s))
    <3> SUFFICES ASSUME NEW i \in 1..Len(s)
                 PROVE  /\ KindsOf(s)[i] = "more" => i > 1 /\ KindsOf(s)[i - 1] \in {"start", "more"}
                        /\ i = 1 => KindsOf(s)[i] # "last"
      BY <1>3 DEF InOrder
    <3>1. i \in 1..Len(s) + 1 /\ (i > 1 => i - 1 \in 1..Len(s))
      BY <1>1
    <3> QED BY <1>3, <1>4, <3>1 DEF InOrder
  <2>2. ASSUME e.kind = "more" PROVE s # <<>> /\ Last(s).kind \in {"start", "more"}
    <3>1. Len(s) + 1 \in 1..Len(s) + 1 /\ (Len(s) + 1) - 1 = Len(s)
      BY <1>1
    <3>2. Len(s) + 1 > 1 /\ KindsOf(a)[Len(s)] \in {"start", "more"}
      BY <1>3, <1>4, <2>2, <3>1 DEF InOrder
    <3>3. Len(s) \in 1..Len(s)
      BY <1>1, <3>2
    <3> QED BY <1>2, <1>3, <3>2, <3>3 DEF Last
  <2>3. ASSUME s = <<>> PROVE e.kind # "last"
    <3>1. Len(s) + 1 = 1 /\ 1 \in 1..Len(s) + 1
      BY <1>2, <2>3
    <3> QED BY <1>3, <1>4, <3>1 DEF InOrder
  <2> QED BY <2>1, <2>2, <2>3
<1>5. ASSUME InOrder(KindsOf(s)),
             e.kind = "more" => s # <<>> /\ Last(s).kind \in {"start", "more"},
             s = <<>> => e.kind # "last"
      PROVE  InOrder(KindsOf(a))
  <2> SUFFICES ASSUME NEW i \in 1..Len(s) + 1
               PROVE  /\ KindsOf(a)[i] = "more" => i > 1 /\ KindsOf(a)[i - 1] \in {"start", "more"}
                      /\ i = 1 => KindsOf(a)[i] # "last"
    BY <1>3 DEF InOrder
  <2>1. CASE i \in 1..Len(s)
    <3>1. i > 1 => i - 1 \in 1..Len(s)
      BY <1>1, <2>1
    <3> QED BY <1>3, <1>5, <2>1, <3>1 DEF InOrder
  <2>2. CASE i = Len(s) + 1
    <3>1. Len(s) # 0 => i > 1 /\ i - 1 = Len(s) /\ Len(s) \in 1..Len(s) /\ i # 1
      BY <1>1, <2>2
    <3> QED BY <1>2, <1>3, <1>5, <2>2, <3>1 DEF Last
  <2> QED BY <1>1, <2>1, <2>2
<1> QED BY <1>4, <1>5 DEF a

-----------------------------------------------------------------------------
\* Merging keeps what is said.

\* Concatenation of what is said.
LEMMA ReassociateSaid == \A a, b, c \in Seq(Nat) : (a \o b) \o c = a \o (b \o c)
<1>1. Regroups(Nat)
  BY Reassociate
<1> QED BY <1>1 DEF Regroups

\* Traces before the speak handler, and once they are merged.
Fresh == {t \in TurnTrace : t.ssml}
Whole == {t \in Fresh : t.kind \notin {"more", "last"}}

\* s is merged so far into m.
MergedSo(s, m) ==
  /\ m \in Seq(Whole) /\ Said(m) = Said(s)
  /\ s # <<>> => m # <<>>
  /\ s # <<>> /\ Last(s).kind \in {"start", "more"} => Last(m).kind = "start"
  /\ Has(s, GoToTrace) => Has(m, GoToTrace)

\* The forms of traces of a turn nest.
LEMMA TracesNest ==
  /\ Whole \subseteq Fresh /\ Fresh \subseteq TurnTrace /\ TurnTrace \subseteq AnyTrace
  /\ Seq(Whole) \subseteq Seq(Fresh) /\ Seq(Fresh) \subseteq Seq(TurnTrace)
  /\ Seq(TurnTrace) \subseteq Seq(AnyTrace)
<1>1. Whole \subseteq Fresh /\ Fresh \subseteq TurnTrace /\ TurnTrace \subseteq AnyTrace
  BY DEF Whole, Fresh, TurnTrace
<1>2. Seq(Whole) \subseteq Seq(Fresh)
  BY <1>1, SeqMonotonic
<1>3. Seq(Fresh) \subseteq Seq(TurnTrace)
  BY <1>1, SeqMonotonic
<1>4. Seq(TurnTrace) \subseteq Seq(AnyTrace)
  BY <1>1, SeqMonotonic
<1> QED BY <1>1, <1>2, <1>3, <1>4

\* Merging one more trace: what was said and the go-to traces stay.
LEMMA MergeStep ==
  ASSUME NEW s \in Seq(Fresh), NEW t \in Fresh, NEW m, MergedSo(s, m), s = <<>> => m = <<>>,
         t.kind = "more" => s # <<>> /\ Last(s).kind \in {"start", "more"},
         s = <<>> => t.kind # "last"
  PROVE  MergedSo(Append(s, t), MergeOne(m, t))
<1>0. /\ s \in Seq(AnyTrace) /\ t \in AnyTrace /\ m \in Seq(AnyTrace) /\ m \in Seq(Whole)
      /\ t \in TurnTrace
  BY TracesNest DEF MergedSo
<1>1. Last(Append(s, t)) = t /\ Append(s, t) # <<>>
  BY LastAppend
<1>2. Said(Append(s, t)) = Said(s) \o t.said /\ Said(s) = Said(m)
  BY <1>0, SaidAppend DEF MergedSo
<1>3. Has(Append(s, t), GoToTrace) <=> Has(s, GoToTrace) \/ t \in GoToTrace
  BY HasAppend
<1>4. CASE t.kind \notin {"more", "last"}
  <2>1. MergeOne(m, t) = Append(m, t)
    BY <1>4, MergeKept
  <2>2. t \in Whole
    BY <1>4 DEF Whole
  <2>3. Append(m, t) \in Seq(Whole) /\ Last(Append(m, t)) = t /\ Append(m, t) # <<>>
    BY <1>0, <2>2, LastAppend, AppendProperties
  <2>4. Said(Append(m, t)) = Said(m) \o t.said
    BY <1>0, SaidAppend
  <2>5. Has(Append(m, t), GoToTrace) <=> Has(m, GoToTrace) \/ t \in GoToTrace
    BY <1>0, HasAppend
  <2> QED BY <1>1, <1>2, <1>3, <1>4, <2>1, <2>3, <2>4, <2>5 DEF MergedSo
<1>5. CASE t.kind \in {"more", "last"}
  <2>1. s # <<>> /\ m # <<>>
    BY <1>5 DEF MergedSo
  <2>2. PICK f \in Seq(Whole), l \in Whole : m = Append(f, l)
    BY <1>0, <2>1, SequenceEmptyOrAppend
  <2>3. Last(m) = l
    BY <2>2, LastAppend
  <2>4. t \notin GoToTrace
    BY <1>5 DEF GoToTrace, Of
  <2>5. f \in Seq(AnyTrace) /\ l \in AnyTrace
    BY <2>2, TracesNest
  <2>6. Said(m) = Said(f) \o l.said
        /\ (Has(m, GoToTrace) <=> Has(f, GoToTrace) \/ l \in GoToTrace)
    <3>1. Has(Append(f, l), GoToTrace) <=> Has(f, GoToTrace) \/ l \in GoToTrace
      BY HasAppend
    <3> QED BY <2>2, <2>5, <3>1, SaidAppend
  <2>7. CASE t.kind = "more"
    <3>1. l.kind = "start"
      BY <2>3, <2>7 DEF MergedSo
    <3> DEFINE n == [l EXCEPT !.said = l.said \o t.said]
    <3>2. n \in AnyTrace /\ MergeOne(m, t) = Append(f, n)
      BY <1>0, <2>2, <2>5, <2>7, <3>1, MergeMore
    <3>3. n.kind = "start" /\ n.said = l.said \o t.said /\ n \in Whole
      BY <2>5, <3>1, <3>2 DEF Whole, Fresh, TurnTrace, AnyTrace
    <3> HIDE DEF n
    <3>4. Append(f, n) \in Seq(Whole) /\ Append(f, n) # <<>> /\ Last(Append(f, n)) = n
      BY <3>3, LastAppend, AppendProperties
    <3>5. Said(Append(f, n)) = Said(f) \o (l.said \o t.said)
      BY <2>5, <3>2, <3>3, SaidAppend
    <3>6. Said(f) \o (l.said \o t.said) = (Said(f) \o l.said) \o t.said
      <4>1. Said(f) \in Seq(Nat)
        BY <2>5, SaidType
      <4>2. l.said \in Seq(Nat) /\ t.said \in Seq(Nat)
        BY <1>0, <2>5 DEF AnyTrace
      <4>3. \A a, b, c \in Seq(Nat) : (a \o b) \o c = a \o (b \o c)
        BY ReassociateSaid
      <4> QED BY <4>1, <4>2, <4>3
    <3>7. l \notin GoToTrace
      BY <3>1 DEF GoToTrace, Of
    <3>8. Has(Append(f, n), GoToTrace) <=> Has(f, GoToTrace) \/ n \in GoToTrace
      BY <3>3, HasAppend
    <3> QED BY <1>1, <1>2, <1>3, <2>4, <2>6, <3>2, <3>3, <3>4, <3>5, <3>6, <3>7, <3>8
       DEF MergedSo
  <2>8. CASE t.kind = "last"
    <3>1. t.said = <<>> /\ Said(m) \o <<>> = Said(m)
      BY <1>0, <2>8, SaidType, ConcatEmptySeq DEF TurnTrace
    <3>2. CASE l.kind = "start"
      <4> DEFINE n == [l EXCEPT !.kind = "speech"]
      <4>2. n \in AnyTrace /\ MergeOne(m, t) = Append(f, n)
        BY <1>0, <2>2, <2>5, <2>8, <3>2, MergeLast
      <4>3. n.kind = "speech" /\ n.said = l.said /\ n \in Whole
        BY <2>5, <4>2 DEF Whole, Fresh, TurnTrace, AnyTrace
      <4> HIDE DEF n
      <4>4. Append(f, n) \in Seq(Whole) /\ Append(f, n) # <<>>
        BY <4>3, LastAppend, AppendProperties
      <4>5. Said(Append(f, n)) = Said(f) \o l.said
        BY <2>5, <4>2, <4>3, SaidAppend
      <4>7. l \notin GoToTrace
        BY <3>2 DEF GoToTrace, Of
      <4>8. Has(Append(f, n), GoToTrace) <=> Has(f, GoToTrace) \/ n \in GoToTrace
        BY <4>3, HasAppend
      <4> QED BY <1>1, <1>2, <1>3, <2>4, <2>6, <2>8, <3>1, <4>2, <4>3, <4>4, <4>5, <4>7,
         <4>8 DEF MergedSo
    <3>3. CASE l.kind # "start"
      <4>1. MergeOne(m, t) = m
        BY <1>5, <2>1, <2>3, <3>3, MergeDropped
      <4> QED BY <1>0, <1>1, <1>2, <1>3, <2>1, <2>4, <2>8, <3>1, <4>1 DEF MergedSo
    <3> QED BY <3>2, <3>3
  <2> QED BY <1>5, <2>7, <2>8
<1> QED BY <1>4, <1>5

\* MergeCompletion.handle on traces that are in order loses neither what is
\* said nor a go-to trace, and leaves no piece of a completion.
LEMMA MergeKeeps ==
  ASSUME NEW s \in Seq(Fresh), InOrder(KindsOf(s))
  PROVE  MergedSo(s, Merge(s))
<1> DEFINE T == {u \in Seq(Fresh) : InOrder(KindsOf(u)) => MergedSo(u, Merge(u))}
<1>1. <<>> \in T
  <2>1. Said(<<>>) = <<>> /\ <<>> \in Seq(Whole) /\ <<>> \in Seq(Fresh) /\ ~Has(<<>>, GoToTrace)
    BY SaidEmpty, EmptySeq, HasEmpty
  <2> QED BY <2>1, MergeEmpty DEF MergedSo
<1>2. ASSUME NEW u \in Seq(Fresh), NEW e \in Fresh, u \in T PROVE Append(u, e) \in T
  <2>1. Append(u, e) \in Seq(Fresh) /\ u \in Seq(AnyTrace) /\ e \in AnyTrace
    BY TracesNest, AppendProperties
  <2>2. Merge(Append(u, e)) = MergeOne(Merge(u), e)
    BY MergeAppend
  <2>3. ASSUME InOrder(KindsOf(Append(u, e))) PROVE MergedSo(Append(u, e), Merge(Append(u, e)))
    <3>1. /\ InOrder(KindsOf(u))
          /\ e.kind = "more" => u # <<>> /\ Last(u).kind \in {"start", "more"}
          /\ u = <<>> => e.kind # "last"
      BY <2>1, <2>3, OrderedAppend
    <3>2. MergedSo(u, Merge(u)) /\ (u = <<>> => Merge(u) = <<>>)
      BY <1>2, <3>1, MergeEmpty
    <3> QED BY <2>2, <3>1, <3>2, MergeStep
  <2> QED BY <2>1, <2>3
<1> HIDE DEF T
<1>3. Seq(Fresh) \subseteq T
  BY <1>1, <1>2, SeqSet
<1> QED BY <1>3 DEF T

-----------------------------------------------------------------------------
\* The handlers of a request and the order they are gone through.

\* Pipes of a request, one handler or pipe after the other.
LEMMA TwoAndOne ==
  ASSUME NEW a, NEW b, NEW c
  PROVE  <<a, b>> \o <<c>> = <<a, b, c>> /\ <<a, b>> \o <<>> = <<a, b>>
<1> DEFINE S == {a, b, c}
           s == <<a, b>>
           t == <<a, b, c>>
<1>1. s \in Seq(S) /\ c \in S /\ t \in Seq(S) /\ <<c>> \in Seq(S)
  OBVIOUS
<1>2. Len(s) = 2 /\ s[1] = a /\ s[2] = b /\ Len(t) = 3 /\ t[1] = a /\ t[2] = b /\ t[3] = c
      /\ Len(<<c>>) = 1
  OBVIOUS
<1>3. <<c>>[1] = c
  OBVIOUS
<1> DEFINE d == <<c>>
<1>d. d \in Seq(S) /\ Len(d) = 1 /\ d[1] = c
  BY <1>1, <1>2, <1>3
<1> HIDE DEF S, s, t, d
<1>4. s \o d = t
  <2>p. /\ s \o d \in Seq(S) /\ Len(s \o d) = Len(s) + Len(d)
        /\ \A i \in 1..Len(s) + Len(d) : (s \o d)[i] = IF i <= Len(s) THEN s[i] ELSE d[i - Len(s)]
    BY <1>1, <1>d, ConcatProperties
  <2>1. s \o d \in Seq(S) /\ Len(s \o d) = 3 /\ (s \o d)[1] = a /\ (s \o d)[2] = b
        /\ (s \o d)[3] = c
    BY <1>2, <1>d, <2>p
  <2>2. \A i \in 1..3 : (s \o d)[i] = t[i]
    BY <1>2, <2>1
  <2>3. Len(s \o d) = Len(t)
    BY <1>2, <2>1
  <2> QED BY <1>1, <1>2, <2>1, <2>2, <2>3, SeqEqual
<1>5. s \o <<>> = s
  BY <1>1, ConcatEmptySeq
<1> QED BY <1>4, <1>5 DEF s, t, d

LEMMA ThreeAndOne ==
  ASSUME NEW a, NEW b, NEW c, NEW d
  PROVE  <<a, b, c>> \o <<d>> = <<a, b, c, d>>
<1> DEFINE S == {a, b, c, d}
           s == <<a, b, c>>
           t == <<a, b, c, d>>
           u == <<d>>
<1>1. s \in Seq(S) /\ t \in Seq(S) /\ u \in Seq(S)
  OBVIOUS
<1>2. Len(s) = 3 /\ s[1] = a /\ s[2] = b /\ s[3] = c /\ Len(u) = 1 /\ u[1] = d
  OBVIOUS
<1>3. Len(t) = 4 /\ t[1] = a /\ t[2] = b /\ t[3] = c /\ t[4] = d
  OBVIOUS
<1> HIDE DEF S, s, t, u
<1>4. s \o u = t
  <2>1. /\ s \o u \in Seq(S) /\ Len(s \o u) = 4
        /\ \A i \in 1..4 : (s \o u)[i] = IF i <= 3 THEN s[i] ELSE u[i - 3]
    <3>1. /\ s \o u \in Seq(S) /\ Len(s \o u) = Len(s) + Len(u)
          /\ \A i \in 1..Len(s) + Len(u) : (s \o u)[i] = IF i <= Len(s) THEN s[i] ELSE u[i - Len(s)]
      BY <1>1, ConcatProperties
    <3>2. Len(s) + Len(u) = 4
      BY <1>2
    <3> QED BY <1>2, <3>1, <3>2
  <2>2. \A i \in 1..4 : t[i] = IF i <= 3 THEN s[i] ELSE u[i - 3]
    <3>1. \A i \in 1..4 : i = 1 \/ i = 2 \/ i = 3 \/ i = 4
      OBVIOUS
    <3> QED BY <1>2, <1>3, <3>1
  <2>3. \A i \in 1..4 : (s \o u)[i] = t[i]
    BY <2>1, <2>2
  <2> QED BY <1>1, <1>3, <2>1, <2>3, SeqEqual
<1> QED BY <1>4 DEF s, t, u

\* Where the request is: the handler its context is at, or else its phase.
Where == IF phase = "pipes" THEN Pipes[at[1]][at[2]] ELSE phase

FirstPipe ==
  IF api = "streaming" THEN <<"asr", "nlu", "aiAssist", "dialog", "runtime">>
                       ELSE <<"asr", "nlu", "aiAssist", "dialog", "runtime", "mergeCompletion">>

\* The pipes that are gone through, as Interact.interact builds them.
LEMMA PipesAre ==
  /\ config.tts => Pipes = <<FirstPipe, <<"analytics">>, <<"tts">>, <<"speak", "filter">>>>
  /\ ~config.tts => Pipes = <<FirstPipe, <<"analytics">>, <<"speak", "filter">>>>
<1> DEFINE a == <<"analytics">>
           v == <<"tts">>
           s == <<"speak", "filter">>
<1>0. Pipes = (<<FirstPipe, a>> \o (IF config.tts THEN <<v>> ELSE <<>>)) \o <<s>>
  BY DEF Pipes, FirstPipe
<1> HIDE DEF a, v, s
<1>1. ASSUME config.tts
      PROVE  Pipes = <<FirstPipe, a, v, s>>
  <2>1. Pipes = (<<FirstPipe, a>> \o <<v>>) \o <<s>>
    BY <1>0, <1>1
  <2>2. <<FirstPipe, a>> \o <<v>> = <<FirstPipe, a, v>>
    BY TwoAndOne
  <2> QED BY <2>1, <2>2, ThreeAndOne
<1>2. ASSUME ~config.tts
      PROVE  Pipes = <<FirstPipe, a, s>>
  <2>1. Pipes = (<<FirstPipe, a>> \o <<>>) \o <<s>>
    BY <1>0, <1>2
  <2> QED BY <2>1, TwoAndOne
<1> QED BY <1>1, <1>2 DEF a, v, s

\* The context is at a handler of a pipe.
AtHandler ==
  \/ at[1] = 1 /\ at[2] \in 1..(IF api = "streaming" THEN 5 ELSE 6)
  \/ at[1] = 2 /\ at[2] = 1
  \/ at[1] = 3 /\ at[2] \in 1..(IF config.tts THEN 1 ELSE 2)
  \/ config.tts /\ at[1] = 4 /\ at[2] \in 1..2

\* The handlers of every pipe.
LEMMA HandlersAre ==
  ASSUME config.tts \in BOOLEAN
  PROVE  /\ Len(Pipes) = IF config.tts THEN 4 ELSE 3
         /\ Len(Pipes[1]) = IF api = "streaming" THEN 5 ELSE 6
         /\ Len(Pipes[2]) = 1 /\ Len(Pipes[3]) = IF config.tts THEN 1 ELSE 2
         /\ config.tts => Len(Pipes[4]) = 2
         /\ Pipes[1][1] = "asr" /\ Pipes[1][2] = "nlu" /\ Pipes[1][3] = "aiAssist"
         /\ Pipes[1][4] = "dialog" /\ Pipes[1][5] = "runtime"
         /\ api # "streaming" => Pipes[1][6] = "mergeCompletion"
         /\ Pipes[2][1] = "analytics"
         /\ config.tts => Pipes[3][1] = "tts" /\ Pipes[4][1] = "speak" /\ Pipes[4][2] = "filter"
         /\ ~config.tts => Pipes[3][1] = "speak" /\ Pipes[3][2] = "filter"
<1>1. CASE config.tts
  <2>1. Pipes = <<FirstPipe, <<"analytics">>, <<"tts">>, <<"speak", "filter">>>>
    BY <1>1, PipesAre
  <2> QED BY <1>1, <2>1 DEF FirstPipe
<1>2. CASE ~config.tts
  <2>1. Pipes = <<FirstPipe, <<"analytics">>, <<"speak", "filter">>>>
    BY <1>2, PipesAre
  <2> QED BY <1>2, <2>1 DEF FirstPipe
<1> QED BY <1>1, <1>2

\* Where a handler leaves the request, whether it ends its pipe or not.
LEMMA AdvanceGoes ==
  ASSUME NEW ends \in BOOLEAN, phase = "pipes", AtHandler, config.tts \in BOOLEAN,
         Advance(ends), UNCHANGED <<api, config>>
  PROVE  /\ phase' \in {"pipes", "over"} /\ (phase' = "pipes" => AtHandler')
         /\ Where = "asr" /\ ~ends => Where' = "nlu"
         /\ Where = "nlu" /\ ~ends => Where' = "aiAssist"
         /\ Where = "aiAssist" /\ ~ends => Where' = "dialog"
         /\ Where = "dialog" => Where' = IF ends THEN "analytics" ELSE "runtime"
         /\ Where = "runtime" /\ ~ends =>
              Where' = IF api = "streaming" THEN "analytics" ELSE "mergeCompletion"
         /\ Where = "mergeCompletion" => Where' = "analytics"
         /\ Where = "analytics" => Where' = IF config.tts THEN "tts" ELSE "speak"
         /\ Where = "tts" => Where' = "speak"
         /\ Where = "speak" /\ ~ends => Where' = "filter"
         /\ Where = "filter" => Where' = "over"
<1>1. Pipes' = Pipes
  BY DEF Pipes
<1>2. /\ Len(Pipes) = IF config.tts THEN 4 ELSE 3
      /\ Len(Pipes[1]) = IF api = "streaming" THEN 5 ELSE 6
      /\ Len(Pipes[2]) = 1 /\ Len(Pipes[3]) = IF config.tts THEN 1 ELSE 2
      /\ config.tts => Len(Pipes[4]) = 2
      /\ Pipes[1][1] = "asr" /\ Pipes[1][2] = "nlu" /\ Pipes[1][3] = "aiAssist"
      /\ Pipes[1][4] = "dialog" /\ Pipes[1][5] = "runtime"
      /\ api # "streaming" => Pipes[1][6] = "mergeCompletion"
      /\ Pipes[2][1] = "analytics"
      /\ config.tts => Pipes[3][1] = "tts" /\ Pipes[4][1] = "speak" /\ Pipes[4][2] = "filter"
      /\ ~config.tts => Pipes[3][1] = "speak" /\ Pipes[3][2] = "filter"
  BY HandlersAre
<1> DEFINE p == at[1]
           h == at[2]
           P == Pipes
<1>3. /\ Where = P[p][h]
      /\ \/ ~ends /\ h < Len(P[p]) /\ phase' = "pipes" /\ at'[1] = p /\ at'[2] = h + 1
         \/ (ends \/ ~(h < Len(P[p]))) /\ p < Len(P) /\ phase' = "pipes" /\ at'[1] = p + 1 /\ at'[2] = 1
         \/ (ends \/ ~(h < Len(P[p]))) /\ ~(p < Len(P)) /\ phase' = "over"
      /\ Where' = IF phase' = "pipes" THEN P[at'[1]][at'[2]] ELSE phase'
  BY <1>1 DEF Where, Advance
<1> HIDE DEF P
<1>4. CASE p = 1 /\ h \in 1..(IF api = "streaming" THEN 5 ELSE 6)
  <2>0. /\ h \in {1, 2, 3, 4, 5} \/ (api # "streaming" /\ h = 6)
        /\ p < Len(P) /\ Len(P[1]) = IF api = "streaming" THEN 5 ELSE 6
    BY <1>2, <1>4 DEF P
  <2>1. CASE ~ends /\ h < Len(P[p])
    <3>1. phase' = "pipes" /\ at'[1] = 1 /\ at'[2] = h + 1 /\ AtHandler' /\ Where = P[1][h]
          /\ Where' = P[1][h + 1]
      BY <1>3, <1>4, <2>0, <2>1 DEF AtHandler
    <3>2. h # 6
      BY <1>4, <2>0, <2>1
    <3>3. CASE h = 1
      BY <1>2, <2>1, <3>1, <3>3 DEF P
    <3>4. CASE h = 2
      BY <1>2, <2>1, <3>1, <3>4 DEF P
    <3>5. CASE h = 3
      BY <1>2, <2>1, <3>1, <3>5 DEF P
    <3>6. CASE h = 4
      BY <1>2, <2>1, <3>1, <3>6 DEF P
    <3>7. CASE h = 5
      BY <1>2, <1>4, <2>0, <2>1, <3>1, <3>7 DEF P
    <3> QED BY <2>0, <3>2, <3>3, <3>4, <3>5, <3>6, <3>7
  <2>2. CASE ~(~ends /\ h < Len(P[p]))
    <3>1. phase' = "pipes" /\ at'[1] = 2 /\ at'[2] = 1 /\ AtHandler' /\ Where = P[1][h]
          /\ Where' = P[2][1]
      BY <1>3, <1>4, <2>0, <2>2 DEF AtHandler
    <3>2. ends \/ h = 6 \/ (h = 5 /\ api = "streaming")
      BY <1>4, <2>0, <2>2
    <3>3. Where' = "analytics"
      BY <1>2, <3>1 DEF P
    <3>4. Where \in {"asr", "nlu", "aiAssist", "dialog", "runtime", "mergeCompletion"}
      BY <1>2, <2>0, <3>1 DEF P
    <3>5. h = 6 => Where = "mergeCompletion"
      BY <1>2, <2>0, <3>1 DEF P
    <3>6. h = 5 => Where = "runtime"
      BY <1>2, <3>1 DEF P
    <3> QED BY <3>1, <3>2, <3>3, <3>4, <3>5, <3>6
  <2> QED BY <2>1, <2>2
<1>5. CASE p = 2 /\ h = 1
  BY <1>2, <1>3, <1>5 DEF P, AtHandler
<1>6. CASE p = 3 /\ h \in 1..(IF config.tts THEN 1 ELSE 2)
  BY <1>2, <1>3, <1>6 DEF P, AtHandler
<1>7. CASE config.tts /\ p = 4 /\ h \in 1..2
  BY <1>2, <1>3, <1>7 DEF P, AtHandler
<1> QED BY <1>4, <1>5, <1>6, <1>7 DEF AtHandler

-----------------------------------------------------------------------------
\* Types of a request, and where each of its steps takes it.

\* The traces of this round and of the rounds before it.
Now == {t \in Fresh : t.round = round}
Past == {t \in Fresh : t.round < round}
GoToNow == {t \in GoToTrace : t.round = round}

\* A handler makes traces of this round, of the kinds it means to make.
LEMMA MakeMakes ==
  ASSUME NEW kinds \in Seq(Kinds), made \in Seq(AnyTrace), round \in Nat
  PROVE  Make(kinds) \in Seq(Now) /\ KindsOf(Make(kinds)) = kinds
<1>1. Len(Said(made)) \in Nat
  BY SaidType, LenProperties
<1>2. DOMAIN kinds = 1..Len(kinds) /\ Len(kinds) \in Nat /\ \A i \in 1..Len(kinds) : kinds[i] \in Kinds
  BY LenProperties
<1> DEFINE talks == {"speech", "start", "more"}
           count(i) == Len(Said(made)) + Cardinality({j \in 1..i : kinds[j] \in talks})
           new(i) == Trace(kinds[i], IF kinds[i] \in talks THEN <<count(i)>> ELSE <<>>, round)
<1>3. Make(kinds) = [i \in 1..Len(kinds) |-> new(i)]
  BY <1>2 DEF Make
<1>4. ASSUME NEW i \in 1..Len(kinds) PROVE new(i) \in Now /\ new(i).kind = kinds[i]
  <2>1. count(i) \in Nat
    <3>1. IsFiniteSet(1..i)
      BY <1>2, FS_Interval
    <3>2. {j \in 1..i : kinds[j] \in talks} \subseteq 1..i
      OBVIOUS
    <3>3. IsFiniteSet({j \in 1..i : kinds[j] \in talks})
      BY <3>1, <3>2, FS_Subset
    <3>4. Cardinality({j \in 1..i : kinds[j] \in talks}) \in Nat
      BY <3>3, FS_CardinalityType
    <3> QED BY <1>1, <3>4
  <2> HIDE DEF count
  <2>2. (IF kinds[i] \in talks THEN <<count(i)>> ELSE <<>>) \in Seq(Nat)
    BY <2>1, EmptySeq
  <2>3. kinds[i] \in Kinds
    BY <1>2
  <2> QED BY <2>2, <2>3 DEF Trace, AnyTrace, Now, Fresh, TurnTrace
<1> HIDE DEF new
<1>5. Make(kinds) \in [1..Len(kinds) -> Now]
  BY <1>3, <1>4
<1>6. Make(kinds) \in Seq(Now) /\ DOMAIN Make(kinds) = 1..Len(kinds)
  BY <1>2, <1>5
<1>7. KindsOf(Make(kinds)) = [i \in 1..Len(kinds) |-> kinds[i]]
  BY <1>3, <1>4 DEF KindsOf
<1>8. kinds = [i \in 1..Len(kinds) |-> kinds[i]]
  BY <1>2, LenProperties
<1> QED BY <1>6, <1>7, <1>8

\* The handlers before and after the runtime, and all that come in a round.
Early == {"asr", "nlu", "aiAssist", "dialog", "runtime"}
Late == {"analytics", "tts", "speak"}
InRound == Early \cup {"mergeCompletion"} \cup Late \cup {"filter", "over"}

\* Types of a request; what was made has not been searched for speech yet.
InteractType ==
  /\ api \in {"once", "delegated", "streaming"}
  /\ config \in [tts : BOOLEAN, excludeTypes : {{"debug"}, {"goto"}}, stripSSML : BOOLEAN]
  /\ phase \in {"init", "pipes", "over", "done", "failed"}
  /\ phase = "pipes" => AtHandler
  /\ round \in Rounds
  /\ request \in [kind : RequestKinds, from : Nat]
  /\ made \in Seq(Fresh) /\ emitted \in Seq(AnyTrace)
  /\ ran \subseteq 1..round

\* Where each step of the request takes it.
Steps ==
  /\ Prepare => Where = "init" /\ Where' = "asr"
  /\ PassOn => Where \in Early /\ Where' \in Early
  /\ \A debugs \in BOOLEAN : Nlu(debugs) => Where = "nlu" /\ Where' = "aiAssist"
  /\ \A prompts \in BOOLEAN : Ask(prompts) => Where = "dialog" /\ Where' = "analytics"
  /\ Resolve => Where = "dialog" /\ Where' = "runtime"
  /\ \A result \in Outputs \cup {<<>>} : Run(result) =>
       Where = "runtime" /\ Where' = IF api = "streaming" THEN "analytics" ELSE "mergeCompletion"
  /\ MergeCompletion => Where = "mergeCompletion" /\ Where' = "analytics"
  /\ Track => Where = "analytics" /\ Where' \in {"tts", "speak"}
  /\ \A split \in BOOLEAN : Tts(split) => Where = "tts" /\ Where' = "speak"
  /\ Speak => Where = "speak" /\ Where' = "filter"
  /\ Filter => Where = "filter" /\ Where' = "over"
  /\ Fail => Where' = "failed"
  /\ AnswerOnce \/ Finish => Where = "over" /\ Where' = "done"
  /\ Delegate => Where = "over" /\ Where' = IF round < MAX_DELEGATION_TURNS THEN "init" ELSE "done"

\* A handler of the pipe is followed by the next, or the pipe by the next
\* pipe.
LEMMA HandlerGoes ==
  ASSUME InteractType, NEW h, At(h), NEW ends \in BOOLEAN, Advance(ends), UNCHANGED fixed
  PROVE  /\ Where = h
         /\ phase' \in {"pipes", "over"} /\ (phase' = "pipes" => AtHandler')
         /\ Where = "asr" /\ ~ends => Where' = "nlu"
         /\ Where = "nlu" /\ ~ends => Where' = "aiAssist"
         /\ Where = "aiAssist" /\ ~ends => Where' = "dialog"
         /\ Where = "dialog" => Where' = IF ends THEN "analytics" ELSE "runtime"
         /\ Where = "runtime" /\ ~ends =>
              Where' = IF api = "streaming" THEN "analytics" ELSE "mergeCompletion"
         /\ Where = "mergeCompletion" => Where' = "analytics"
         /\ Where = "analytics" => Where' = IF config.tts THEN "tts" ELSE "speak"
         /\ Where = "tts" => Where' = "speak"
         /\ Where = "speak" /\ ~ends => Where' = "filter"
         /\ Where = "filter" => Where' = "over"
<1>1. phase = "pipes" /\ Where = h /\ AtHandler /\ config.tts \in BOOLEAN
      /\ UNCHANGED <<api, config>>
  BY DEF At, Where, InteractType, fixed
<1> QED BY <1>1, AdvanceGoes

\* Every step takes the request where Steps says.
LEMMA StepsGo ==
  ASSUME InteractType, Next
  PROVE  /\ Steps
         /\ phase' \in {"init", "pipes", "over", "done", "failed"}
         /\ phase' = "pipes" => AtHandler'
<1> DEFINE Phased == phase' \in {"init", "pipes", "over", "done", "failed"} /\ (phase' = "pipes" => AtHandler')
<1>1. Prepare => Phased /\ Where = "init" /\ Where' = "asr"
  <2> SUFFICES ASSUME Prepare PROVE Phased /\ Where = "init" /\ Where' = "asr"
    OBVIOUS
  <2>1. phase = "init" /\ phase' = "pipes" /\ at' = <<1, 1>> /\ UNCHANGED <<api, config>>
    BY DEF Prepare, fixed
  <2>2. Pipes' = Pipes
    BY <2>1 DEF Pipes
  <2>3. Pipes[1][1] = "asr"
    BY HandlersAre DEF InteractType
  <2>4. at'[1] = 1 /\ at'[2] = 1
    BY <2>1
  <2> QED BY <2>1, <2>2, <2>3, <2>4 DEF Where, AtHandler
<1>2. PassOn => Phased /\ Where \in Early /\ Where' \in Early
  <2> SUFFICES ASSUME PassOn PROVE Phased /\ Where \in Early /\ Where' \in Early
    OBVIOUS
  <2>1. (At("asr") \/ At("aiAssist")) /\ Advance(FALSE) /\ UNCHANGED fixed
    BY DEF PassOn
  <2> QED BY <2>1, HandlerGoes DEF Early
<1>3. ASSUME NEW debugs \in BOOLEAN PROVE Nlu(debugs) => Phased /\ Where = "nlu" /\ Where' = "aiAssist"
  <2>1. Nlu(debugs) => At("nlu") /\ Advance(FALSE) /\ UNCHANGED fixed
    BY DEF Nlu
  <2> QED BY <2>1, HandlerGoes
<1>4. ASSUME NEW prompts \in BOOLEAN PROVE Ask(prompts) => Phased /\ Where = "dialog" /\ Where' = "analytics"
  <2>1. Ask(prompts) => At("dialog") /\ Advance(TRUE) /\ UNCHANGED fixed
    BY DEF Ask
  <2> QED BY <2>1, HandlerGoes
<1>5. Resolve => Phased /\ Where = "dialog" /\ Where' = "runtime"
  <2>1. Resolve => At("dialog") /\ Advance(FALSE) /\ UNCHANGED fixed
    BY DEF Resolve
  <2> QED BY <2>1, HandlerGoes
<1>6. ASSUME NEW result \in Outputs \cup {<<>>}
      PROVE  Run(result) => /\ Phased /\ Where = "runtime"
                            /\ Where' = IF api = "streaming" THEN "analytics" ELSE "mergeCompletion"
  <2>1. Run(result) => At("runtime") /\ Advance(FALSE) /\ UNCHANGED fixed
    BY DEF Run
  <2> QED BY <2>1, HandlerGoes
<1>7. MergeCompletion => Phased /\ Where = "mergeCompletion" /\ Where' = "analytics"
  <2>1. MergeCompletion => At("mergeCompletion") /\ Advance(FALSE) /\ UNCHANGED fixed
    BY DEF MergeCompletion
  <2> QED BY <2>1, HandlerGoes
<1>8. Track => Phased /\ Where = "analytics" /\ Where' \in {"tts", "speak"}
  <2>1. Track => At("analytics") /\ Advance(FALSE) /\ UNCHANGED fixed
    BY DEF Track
  <2> QED BY <2>1, HandlerGoes
<1>9. ASSUME NEW split \in BOOLEAN PROVE Tts(split) => Phased /\ Where = "tts" /\ Where' = "speak"
  <2>1. Tts(split) => At("tts") /\ Advance(FALSE) /\ UNCHANGED fixed
    BY DEF Tts
  <2> QED BY <2>1, HandlerGoes
<1>10. Speak => Phased /\ Where = "speak" /\ Where' = "filter"
  <2>1. Speak => At("speak") /\ Advance(FALSE) /\ UNCHANGED fixed
    BY DEF Speak
  <2> QED BY <2>1, HandlerGoes
<1>11. Filter => Phased /\ Where = "filter" /\ Where' = "over"
  <2>1. Filter => At("filter") /\ Advance(FALSE) /\ UNCHANGED fixed
    BY DEF Filter
  <2> QED BY <2>1, HandlerGoes
<1>12. Fail => Phased /\ Where' = "failed"
  BY DEF Fail, Where
<1>13. AnswerOnce \/ Finish => Phased /\ Where = "over" /\ Where' = "done"
  BY DEF AnswerOnce, Finish, Where
<1>14. Delegate => /\ Phased /\ Where = "over"
                   /\ Where' = IF round < MAX_DELEGATION_TURNS THEN "init" ELSE "done"
  BY DEF Delegate, Where
<1>15. Steps
  BY <1>1, <1>2, <1>3, <1>4, <1>5, <1>6, <1>7, <1>8, <1>9, <1>10, <1>11, <1>12, <1>13,
     <1>14 DEF Steps
<1>16. Phased
  BY <1>1, <1>2, <1>3, <1>4, <1>5, <1>6, <1>7, <1>8, <1>9, <1>10, <1>11, <1>12, <1>13,
     <1>14 DEF Next
<1> QED BY <1>15, <1>16

-----------------------------------------------------------------------------
\* The form of the traces at each handler.

\* Traces once they are merged (unless they are streamed), once they are
\* searched for speech, and in the answer.
Ready == {t \in Fresh : api # "streaming" => t.kind \notin {"more", "last"}}
Spoken == {t \in TurnTrace : /\ t.kind = "speech" => t.parsed
                             /\ api # "streaming" => t.kind \notin {"more", "last"}}
Final == {t \in Spoken : t.kind = "speech" /\ config.stripSSML => ~t.ssml}
Debugs == {t \in Fresh : t.kind = "debug"}

\* A trace is in the form the handler it is at expects.
Finished ==
  /\ answer \in Seq(Final)
  /\ Where \in Early => trace \in Seq(Debugs)
  /\ Where = "mergeCompletion" => trace \in Seq(Fresh) /\ InOrder(KindsOf(trace))
  /\ Where \in Late => trace \in Seq(Ready)
  /\ Where = "filter" => trace \in Seq(Spoken)
  /\ Where = "over" => trace \in Seq(Final)

\* The forms of traces nest.
LEMMA FormsNest ==
  /\ Seq(Debugs) \subseteq Seq(Ready) /\ Seq(Debugs) \subseteq Seq(Fresh)
  /\ Seq(Whole) \subseteq Seq(Ready)
  /\ Seq(Ready) \subseteq Seq(Fresh) /\ Seq(Final) \subseteq Seq(Spoken)
  /\ Seq(Spoken) \subseteq Seq(TurnTrace)
  /\ Seq(Now) \subseteq Seq(Fresh)
<1>1. Debugs \subseteq Ready /\ Debugs \subseteq Fresh /\ Whole \subseteq Ready
      /\ Ready \subseteq Fresh
      /\ Final \subseteq Spoken /\ Spoken \subseteq TurnTrace /\ Now \subseteq Fresh
  BY DEF Debugs, Ready, Whole, Fresh, Final, Spoken, Now
<1>2. Seq(Debugs) \subseteq Seq(Ready) /\ Seq(Debugs) \subseteq Seq(Fresh)
  BY <1>1, SeqMonotonic
<1>3. Seq(Whole) \subseteq Seq(Ready) /\ Seq(Ready) \subseteq Seq(Fresh)
  BY <1>1, SeqMonotonic
<1>4. Seq(Final) \subseteq Seq(Spoken) /\ Seq(Spoken) \subseteq Seq(TurnTrace)
      /\ Seq(Now) \subseteq Seq(Fresh)
  BY <1>1, SeqMonotonic
<1> QED BY <1>2, <1>3, <1>4

\* In a round there are traces at hand.
LEMMA TraceType ==
  ASSUME Finished, Where \in InRound
  PROVE  trace \in Seq(TurnTrace) /\ trace \in Seq(AnyTrace)
<1>1. trace \in Seq(TurnTrace)
  BY FormsNest, TracesNest DEF Finished, InRound, Early, Late
<1> QED BY <1>1, TracesNest

\* Traces that are replaced one by one.
LEMMA AlikeKeeps ==
  ASSUME NEW E, NEW s \in Seq(AnyTrace), NEW m, m = [i \in DOMAIN s |-> m[i]],
         \A i \in DOMAIN s : /\ m[i] \in E /\ m[i].said = s[i].said
                             /\ s[i] \in GoToTrace => m[i] \in GoToTrace
  PROVE  /\ m \in Seq(E) /\ Said(m) = Said(s)
         /\ Has(s, GoToTrace) => Has(m, GoToTrace)
<1>1. DOMAIN s = 1..Len(s) /\ Len(s) \in Nat
  BY LenProperties
<1>2. DOMAIN m = DOMAIN s
  OBVIOUS
<1>3. m \in [1..Len(s) -> E]
  BY <1>1, <1>2
<1>4. m \in Seq(E)
  BY <1>1, <1>3
<1>5. Said(m) = Said(s)
  BY <1>2, SaidAlike
<1> QED BY <1>2, <1>4, <1>5 DEF Has

\* Speak.handle: what is said and the go-to traces stay.
LEMMA SpeakKeeps ==
  ASSUME NEW s \in Seq(Ready)
  PROVE  /\ Mapped(Parsed, s) \in Seq(Spoken) /\ Said(Mapped(Parsed, s)) = Said(s)
         /\ Has(s, GoToTrace) => Has(Mapped(Parsed, s), GoToTrace)
<1> DEFINE m == [i \in DOMAIN s |-> Parsed(s[i])]
<1>1. Mapped(Parsed, s) = m
  BY DEF Mapped
<1>2. s \in Seq(AnyTrace) /\ \A i \in DOMAIN s : s[i] \in Ready
  BY FormsNest, TracesNest, LenProperties
<1>3. ASSUME NEW t \in Ready
      PROVE  Parsed(t) \in Spoken /\ Parsed(t).said = t.said
             /\ (t \in GoToTrace => Parsed(t) \in GoToTrace)
  BY DEF Parsed, Ready, Spoken, Fresh, TurnTrace, AnyTrace, GoToTrace, Of
<1>4. m = [i \in DOMAIN s |-> m[i]]
  OBVIOUS
<1>5. \A i \in DOMAIN s : /\ m[i] \in Spoken /\ m[i].said = s[i].said
                          /\ s[i] \in GoToTrace => m[i] \in GoToTrace
  BY <1>2, <1>3
<1> HIDE DEF m
<1>6. /\ m \in Seq(Spoken) /\ Said(m) = Said(s)
      /\ Has(s, GoToTrace) => Has(m, GoToTrace)
  BY <1>2, <1>4, <1>5, AlikeKeeps
<1> QED BY <1>1, <1>6

\* The filter of SSML: what is said and the go-to traces stay.
LEMMA StripKeeps ==
  ASSUME NEW s \in Seq(Spoken), config.stripSSML
  PROVE  /\ Mapped(Stripped, s) \in Seq(Final) /\ Said(Mapped(Stripped, s)) = Said(s)
         /\ Has(s, GoToTrace) => Has(Mapped(Stripped, s), GoToTrace)
<1> DEFINE m == [i \in DOMAIN s |-> Stripped(s[i])]
<1>1. Mapped(Stripped, s) = m
  BY DEF Mapped
<1>2. s \in Seq(AnyTrace) /\ \A i \in DOMAIN s : s[i] \in Spoken
  BY FormsNest, TracesNest, LenProperties
<1>3. ASSUME NEW t \in Spoken
      PROVE  Stripped(t) \in Final /\ Stripped(t).said = t.said
             /\ (t \in GoToTrace => Stripped(t) \in GoToTrace)
  BY DEF Stripped, Spoken, Final, TurnTrace, AnyTrace, GoToTrace, Of
<1>4. m = [i \in DOMAIN s |-> m[i]]
  OBVIOUS
<1>5. \A i \in DOMAIN s : /\ m[i] \in Final /\ m[i].said = s[i].said
                          /\ s[i] \in GoToTrace => m[i] \in GoToTrace
  BY <1>2, <1>3
<1> HIDE DEF m
<1>6. /\ m \in Seq(Final) /\ Said(m) = Said(s)
      /\ Has(s, GoToTrace) => Has(m, GoToTrace)
  BY <1>2, <1>4, <1>5, AlikeKeeps
<1> QED BY <1>1, <1>6

\* What the filter leaves.
Filtered ==
  LET kept == OfKinds(trace, Kinds \ config.excludeTypes)
  IN IF config.stripSSML THEN Mapped(Stripped, kept) ELSE kept

\* Filter.handle: what is left is in the form of the answer, says what was
\* said before, and has the go-to traces unless they are excluded.
LEMMA FilterKeeps ==
  ASSUME InteractType, trace \in Seq(Spoken)
  PROVE  /\ Filtered \in Seq(Final) /\ Said(Filtered) = Said(trace)
         /\ "goto" \notin config.excludeTypes /\ Has(trace, GoToTrace) => Has(Filtered, GoToTrace)
<1> DEFINE S == Of(Kinds \ config.excludeTypes)
           kept == Only(trace, S)
<1>1. config.excludeTypes \in {{"debug"}, {"goto"}} /\ config.stripSSML \in BOOLEAN
  BY DEF InteractType
<1>2. kept \in Seq(Spoken)
  <2>1. kept \in Seq(Spoken \cap S)
    BY OnlyType
  <2> QED BY <2>1, SeqMonotonic
<1>3. Said(kept) = Said(trace)
  <2>1. \A t \in TurnTrace \ S : t.said = <<>>
    BY <1>1 DEF Of, TurnTrace, AnyTrace, Kinds
  <2>2. trace \in Seq(TurnTrace)
    BY FormsNest
  <2> QED BY <2>1, <2>2, SaidOnly
<1>4. ASSUME "goto" \notin config.excludeTypes, Has(trace, GoToTrace) PROVE Has(kept, GoToTrace)
  <2>1. S \cap GoToTrace = GoToTrace
    BY <1>4 DEF Of, GoToTrace, Kinds
  <2>2. Has(kept, GoToTrace) <=> Has(trace, S \cap GoToTrace)
    BY OnlyHas
  <2> QED BY <1>4, <2>1, <2>2
<1>5. Filtered = IF config.stripSSML THEN Mapped(Stripped, kept) ELSE kept
  BY DEF Filtered, OfKinds
<1> HIDE DEF kept
<1>6. CASE config.stripSSML
  BY <1>2, <1>3, <1>4, <1>5, <1>6, StripKeeps
<1>7. CASE ~config.stripSSML
  <2>1. Spoken \subseteq Final
    BY <1>7 DEF Final
  <2>2. kept \in Seq(Final)
    BY <1>2, <2>1, SeqMonotonic
  <2> QED BY <1>3, <1>4, <1>5, <1>7, <2>2
<1> QED BY <1>6, <1>7

-----------------------------------------------------------------------------
\* What each step of a request comes to.

\* What a round leaves alone, and the histories.
told == <<fixed, round, answer>>
heard == <<made, emitted, ran>>

\* What the steps of a request come to: a round is started, traces are added,
\* or replaced, or the request fails; the other steps deliver a round.
Started ==
  /\ Where = "init" /\ Where' = "asr" /\ trace' = <<>>
  /\ UNCHANGED <<told, heard, request>>

Grown ==
  /\ Where \in Early /\ Where' \in InRound
  /\ \E new \in Seq(Now) :
       /\ trace' = trace \o new /\ made' = made \o new
       /\ \/ UNCHANGED <<emitted, ran>>
          \/ /\ Where' \notin Early
             /\ emitted' = emitted \o trace \o new /\ ran' = ran \cup {round}
  /\ request' \in [kind : RequestKinds, from : {request.from}]
  /\ UNCHANGED told

Reworked ==
  /\ Where \in InRound /\ Where' \in InRound
  /\ Said(trace') = Said(trace)
  /\ "goto" \notin config.excludeTypes /\ Has(trace, GoToTrace) => Has(trace', GoToTrace)
  /\ Where' \in Early => Where \in Early /\ UNCHANGED trace
  /\ UNCHANGED <<told, heard, request>>

Failed ==
  /\ Where # "done" /\ Where' = "failed"
  /\ UNCHANGED <<told, heard, request, trace>>

\* What is requested changes its kind but never, within a round, the round it
\* comes from.
LEMMA RequestsStay ==
  ASSUME InteractType
  PROVE  /\ request \in [kind : RequestKinds, from : {request.from}]
         /\ [request EXCEPT !.kind = "intent"] \in [kind : RequestKinds, from : {request.from}]
<1>1. request \in [kind : RequestKinds, from : Nat]
  BY DEF InteractType
<1> QED BY <1>1 DEF RequestKinds

\* Make makes traces of the kinds it is given.
LEMMA MadeOfKinds ==
  ASSUME InteractType, NEW K, NEW kinds \in Seq(Kinds), \A i \in DOMAIN kinds : kinds[i] \in K
  PROVE  Make(kinds) \in Seq({t \in Now : t.kind \in K})
<1>1. Make(kinds) \in Seq(Now) /\ KindsOf(Make(kinds)) = kinds
  <2>1. made \in Seq(AnyTrace) /\ round \in Nat
    BY InteractAssumption, TracesNest DEF InteractType, Rounds
  <2> QED BY <2>1, MakeMakes
<1> DEFINE m == Make(kinds)
<1> HIDE DEF m
<1>2. m \in [1..Len(m) -> Now] /\ DOMAIN m = 1..Len(m) /\ Len(m) \in Nat /\ KindsOf(m) = kinds
  BY <1>1, LenProperties DEF m
<1>3. \A i \in 1..Len(m) : m[i].kind \in K
  BY <1>2 DEF KindsOf
<1>4. m \in [1..Len(m) -> {t \in Now : t.kind \in K}]
  BY <1>2, <1>3
<1> QED BY <1>2, <1>4 DEF m

\* At most one trace of a kind.
LEMMA OneKind ==
  ASSUME NEW k \in Kinds, NEW b
  PROVE  /\ (IF b THEN <<k>> ELSE <<>>) \in Seq(Kinds)
         /\ \A i \in DOMAIN (IF b THEN <<k>> ELSE <<>>) : (IF b THEN <<k>> ELSE <<>>)[i] \in {k}
<1>1. CASE b
  <2>1. <<k>> \in Seq(Kinds) /\ \A i \in DOMAIN <<k>> : <<k>>[i] \in {k}
    OBVIOUS
  <2> QED BY <1>1, <2>1
<1>2. CASE ~b
  <2>1. <<>> \in Seq(Kinds) /\ \A i \in DOMAIN <<>> : <<>>[i] \in {k}
    BY EmptySeq
  <2> QED BY <1>2, <2>1
<1> QED BY <1>1, <1>2

\* Every step comes to one of these.
LEMMA StepsAre ==
  ASSUME InteractType, Finished, Next
  PROVE  \/ Started \/ Grown \/ Reworked \/ Failed
         \/ AnswerOnce \/ Delegate \/ Finish
<1> USE DEF fixed, history, told, heard
<1>0. Steps
  BY StepsGo
<1>1. CASE Prepare
  BY <1>0, <1>1 DEF Prepare, Started, Steps
<1>2. CASE PassOn \/ Resolve \/ Track
  <2>1. Where \in InRound /\ Where' \in InRound /\ (Where' \in Early => Where \in Early)
    BY <1>0, <1>2 DEF Steps, InRound, Early, Late
  <2> QED BY <1>2, <2>1 DEF PassOn, Resolve, Track, Reworked
<1>3. CASE \E debugs \in BOOLEAN : Nlu(debugs)
  <2>1. PICK debugs \in BOOLEAN : Nlu(debugs)
    BY <1>3
  <2> DEFINE new == Make(IF debugs THEN <<"debug">> ELSE <<>>)
  <2>2. new \in Seq(Now)
    <3>1. (IF debugs THEN <<"debug">> ELSE <<>>) \in Seq(Kinds)
      BY OneKind DEF Kinds
    <3>2. made \in Seq(AnyTrace) /\ round \in Nat
      BY InteractAssumption, TracesNest DEF InteractType, Rounds
    <3> QED BY <3>1, <3>2, MakeMakes
  <2>3. /\ trace' = trace \o new /\ made' = made \o new
        /\ UNCHANGED <<told, emitted, ran>>
        /\ request' = [request EXCEPT !.kind = "intent"] \/ request' = request
    BY <2>1 DEF Nlu
  <2>4. Where \in Early /\ Where' \in InRound
    BY <1>0, <2>1 DEF Steps, InRound, Early
  <2> HIDE DEF new
  <2> QED BY <2>2, <2>3, <2>4, RequestsStay DEF Grown
<1>4. CASE \E prompts \in BOOLEAN : Ask(prompts)
  <2>1. PICK prompts \in BOOLEAN : Ask(prompts)
    BY <1>4
  <2> DEFINE new == Make(IF prompts THEN <<"speech">> ELSE <<>>)
  <2>2. new \in Seq(Now)
    <3>1. (IF prompts THEN <<"speech">> ELSE <<>>) \in Seq(Kinds)
      BY OneKind DEF Kinds
    <3>2. made \in Seq(AnyTrace) /\ round \in Nat
      BY InteractAssumption, TracesNest DEF InteractType, Rounds
    <3> QED BY <3>1, <3>2, MakeMakes
  <2>3. /\ trace' = trace \o new /\ made' = made \o new
        /\ UNCHANGED <<told, emitted, ran, request>>
    BY <2>1 DEF Ask
  <2>4. Where \in Early /\ Where' \in InRound
    BY <1>0, <2>1 DEF Steps, InRound, Early, Late
  <2> HIDE DEF new
  <2> QED BY <2>2, <2>3, <2>4, RequestsStay DEF Grown
<1>5. CASE \E result \in Outputs \cup {<<>>} : Run(result)
  <2>1. PICK result \in Outputs \cup {<<>>} : Run(result)
    BY <1>5
  <2> DEFINE new == Make(result)
  <2>2. new \in Seq(Now)
    <3>1. result \in Seq(Kinds)
      BY InteractAssumption, EmptySeq
    <3>2. made \in Seq(AnyTrace) /\ round \in Nat
      BY InteractAssumption, TracesNest DEF InteractType, Rounds
    <3> QED BY <3>1, <3>2, MakeMakes
  <2>3. /\ trace' = trace \o new /\ made' = made \o new
        /\ emitted' = emitted \o trace \o new /\ ran' = ran \cup {round}
        /\ UNCHANGED <<told, request>>
    BY <2>1 DEF Run
  <2>4. Where \in Early /\ Where' \in InRound /\ Where' \notin Early
    BY <1>0, <2>1 DEF Steps, InRound, Early, Late
  <2> HIDE DEF new
  <2> QED BY <2>2, <2>3, <2>4, RequestsStay DEF Grown
<1>6. CASE MergeCompletion
  <2>1. Where = "mergeCompletion" /\ Where' = "analytics"
    BY <1>0, <1>6 DEF Steps
  <2>2. trace \in Seq(Fresh) /\ InOrder(KindsOf(trace))
    BY <2>1 DEF Finished
  <2>3. MergedSo(trace, Merge(trace))
    BY <2>2, MergeKeeps
  <2> QED BY <1>6, <2>1, <2>3 DEF MergeCompletion, MergedSo, Reworked, InRound, Late, Early
<1>7. CASE \E split \in BOOLEAN : Tts(split)
  <2>1. PICK split \in BOOLEAN : Tts(split)
    BY <1>7
  <2>2. Where = "tts" /\ Where' = "speak"
    BY <1>0, <2>1 DEF Steps
  <2>3. trace \in Seq(TurnTrace)
    BY <2>2, TraceType DEF InRound, Late
  <2>4. /\ Said(Voiced(trace, split)) = Said(trace)
        /\ Has(trace, GoToTrace) => Has(Voiced(trace, split), GoToTrace)
    <3>1. TurnTrace \in SUBSET AnyTrace
      BY TracesNest
    <3>2. \A t \in TurnTrace : t.kind = "speech" => Silenced(t) \in TurnTrace
      BY EmptySeq DEF TurnTrace, AnyTrace, Silenced
    <3> QED BY <2>3, <3>1, <3>2, VoicedKeeps
  <2> QED BY <2>1, <2>2, <2>4 DEF Tts, Reworked, InRound, Late, Early
<1>8. CASE Speak
  <2>1. Where = "speak" /\ Where' = "filter"
    BY <1>0, <1>8 DEF Steps
  <2>2. trace \in Seq(Ready)
    BY <2>1 DEF Finished, Late
  <2> QED BY <1>8, <2>1, <2>2, SpeakKeeps DEF Speak, Reworked, InRound, Late, Early
<1>9. CASE Filter
  <2>1. Where = "filter" /\ Where' = "over"
    BY <1>0, <1>9 DEF Steps
  <2>2. trace \in Seq(Spoken)
    BY <2>1 DEF Finished
  <2>3. trace' = Filtered
    BY <1>9 DEF Filter, Filtered
  <2> QED BY <1>9, <2>1, <2>2, <2>3, FilterKeeps DEF Filter, Reworked, InRound, Early
<1>10. CASE Fail
  <2>1. Where \in {"init", "nlu", "dialog", "runtime"}
    BY <1>10 DEF Fail, At, Where
  <2> QED BY <1>0, <1>10, <2>1 DEF Fail, Failed, Steps
<1> QED BY <1>1, <1>2, <1>3, <1>4, <1>5, <1>6, <1>7, <1>8, <1>9, <1>10 DEF Next

-----------------------------------------------------------------------------
\* The form of the traces is kept.

\* Debug traces may come before others.
LEMMA DebugsInOrder ==
  ASSUME NEW s \in Seq(Debugs), NEW u \in Seq(AnyTrace), InOrder(KindsOf(u))
  PROVE  InOrder(KindsOf(s \o u))
<1>1. s \in Seq(AnyTrace)
  BY FormsNest, TracesNest
<1> DEFINE c == s \o u
<1>2. /\ c \in Seq(AnyTrace) /\ Len(c) = Len(s) + Len(u) /\ Len(s) \in Nat /\ Len(u) \in Nat
      /\ \A i \in 1..Len(s) + Len(u) : c[i] = IF i <= Len(s) THEN s[i] ELSE u[i - Len(s)]
  BY <1>1, ConcatProperties, LenProperties
<1> HIDE DEF c
<1>3. DOMAIN KindsOf(c) = 1..Len(s) + Len(u) /\ DOMAIN KindsOf(u) = 1..Len(u)
  BY <1>2, LenProperties DEF KindsOf
<1>4. \A i \in 1..Len(s) : s[i].kind = "debug"
  <2>1. \A i \in 1..Len(s) : s[i] \in Debugs
    BY LenProperties
  <2> QED BY <2>1 DEF Debugs
<1>5. SUFFICES ASSUME NEW i \in 1..Len(s) + Len(u)
               PROVE  /\ KindsOf(c)[i] = "more" => i > 1 /\ KindsOf(c)[i - 1] \in {"start", "more"}
                      /\ i = 1 => KindsOf(c)[i] # "last"
  BY <1>3 DEF InOrder, c
<1>6. CASE i <= Len(s)
  <2>1. i \in 1..Len(s) /\ c[i] = s[i] /\ KindsOf(c)[i] = c[i].kind
    BY <1>2, <1>3, <1>6 DEF KindsOf
  <2> QED BY <1>4, <2>1
<1>7. CASE ~(i <= Len(s))
  <2> DEFINE j == i - Len(s)
  <2>1. j \in 1..Len(u) /\ c[i] = u[j]
    BY <1>2, <1>7
  <2>2. KindsOf(c)[i] = u[j].kind /\ KindsOf(u)[j] = u[j].kind
    BY <1>3, <2>1 DEF KindsOf
  <2>3. /\ u[j].kind = "more" => j > 1 /\ KindsOf(u)[j - 1] \in {"start", "more"}
        /\ j = 1 => u[j].kind # "last"
    BY <1>3, <2>1, <2>2 DEF InOrder
  <2>4. i = 1 => j = 1
    BY <1>2, <1>7
  <2>5. ASSUME j > 1 PROVE i > 1 /\ KindsOf(c)[i - 1] = KindsOf(u)[j - 1]
    <3>1. i - 1 \in 1..Len(s) + Len(u) /\ ~(i - 1 <= Len(s)) /\ (i - 1) - Len(s) = j - 1
          /\ j - 1 \in 1..Len(u) /\ i > 1
      BY <1>2, <2>1, <2>5
    <3>2. c[i - 1] = u[j - 1]
      BY <1>2, <3>1
    <3> QED BY <1>3, <3>1, <3>2 DEF KindsOf
  <2> HIDE DEF j
  <2> QED BY <2>2, <2>3, <2>4, <2>5
<1> QED BY <1>6, <1>7

\* Every step leaves the traces in the form the next handler expects.
LEMMA FinishedKeeps ==
  ASSUME InteractType, Finished, Next
  PROVE  Finished'
<1>0. Steps
  BY StepsGo
<1>a. UNCHANGED <<api, config>>
  BY DEF Next, Prepare, PassOn, Nlu, Ask, Resolve, Run, MergeCompletion, Track, Tts, Speak,
     Filter,
         Fail, AnswerOnce, Delegate, Finish, fixed
<1>b. Ready' = Ready /\ Spoken' = Spoken /\ Final' = Final
  BY <1>a DEF Ready, Spoken, Final
<1> DEFINE Goal == /\ answer' \in Seq(Final)
                   /\ Where' \in Early => trace' \in Seq(Debugs)
                   /\ Where' = "mergeCompletion" => trace' \in Seq(Fresh) /\ InOrder(KindsOf(trace'))
                   /\ Where' \in Late => trace' \in Seq(Ready)
                   /\ Where' = "filter" => trace' \in Seq(Spoken)
                   /\ Where' = "over" => trace' \in Seq(Final)
<1>c. SUFFICES Goal
  <2>1. KindsOf(trace)' = KindsOf(trace')
    BY DEF KindsOf
  <2> QED BY <1>b, <2>1 DEF Finished
<1>d. answer \in Seq(Final)
  BY DEF Finished
<1>1. CASE Prepare
  <2>1. Where' = "asr" /\ trace' = <<>> /\ UNCHANGED answer
    BY <1>0, <1>1 DEF Prepare, Steps
  <2> QED BY <1>d, <2>1, EmptySeq DEF Early, Late
<1>2. CASE PassOn \/ Resolve
  <2>1. Where \in Early /\ Where' \in Early /\ UNCHANGED <<trace, answer>>
    BY <1>0, <1>2 DEF PassOn, Resolve, Steps, Early
  <2> QED BY <1>d, <2>1 DEF Finished, Early, Late
<1>3. CASE Track
  <2>1. Where \in Late /\ Where' \in Late /\ UNCHANGED <<trace, answer>>
    BY <1>0, <1>3 DEF Track, Steps, Late
  <2> QED BY <1>d, <2>1 DEF Finished, Early, Late
<1>4. CASE \E debugs \in BOOLEAN : Nlu(debugs)
  <2>1. PICK debugs \in BOOLEAN : Nlu(debugs)
    BY <1>4
  <2> DEFINE kinds == IF debugs THEN <<"debug">> ELSE <<>>
             new == Make(kinds)
  <2>2. kinds \in Seq(Kinds) /\ \A i \in DOMAIN kinds : kinds[i] \in {"debug"}
    BY OneKind DEF Kinds
  <2>3. trace' = trace \o new /\ UNCHANGED answer
    BY <2>1 DEF Nlu
  <2>4. new \in Seq(Debugs)
    <3> HIDE DEF kinds
    <3>1. new \in Seq({t \in Now : t.kind \in {"debug"}})
      BY <2>2, MadeOfKinds
    <3>2. {t \in Now : t.kind \in {"debug"}} \subseteq Debugs
      BY DEF Now, Debugs
    <3> QED BY <3>1, <3>2, SeqMonotonic
  <2> HIDE DEF new
  <2>5. Where = "nlu" /\ Where' = "aiAssist"
    BY <1>0, <2>1 DEF Steps
  <2>6. trace \in Seq(Debugs)
    BY <2>5 DEF Finished, Early
  <2>7. trace' \in Seq(Debugs)
    BY <2>3, <2>4, <2>6, ConcatProperties
  <2> QED BY <1>d, <2>3, <2>5, <2>7 DEF Early, Late
<1>5. CASE \E prompts \in BOOLEAN : Ask(prompts)
  <2>1. PICK prompts \in BOOLEAN : Ask(prompts)
    BY <1>5
  <2> DEFINE kinds == IF prompts THEN <<"speech">> ELSE <<>>
             new == Make(kinds)
  <2>2. kinds \in Seq(Kinds) /\ \A i \in DOMAIN kinds : kinds[i] \in {"speech"}
    BY OneKind DEF Kinds
  <2>3. trace' = trace \o new /\ UNCHANGED answer
    BY <2>1 DEF Ask
  <2>4. new \in Seq(Ready)
    <3> HIDE DEF kinds
    <3>1. new \in Seq({t \in Now : t.kind \in {"speech"}})
      BY <2>2, MadeOfKinds
    <3>2. {t \in Now : t.kind \in {"speech"}} \subseteq Ready
      BY DEF Now, Ready
    <3> QED BY <3>1, <3>2, SeqMonotonic
  <2> HIDE DEF new
  <2>5. Where = "dialog" /\ Where' = "analytics"
    BY <1>0, <2>1 DEF Steps
  <2>6. trace \in Seq(Ready)
    BY <2>5, FormsNest DEF Finished, Early
  <2>7. trace' \in Seq(Ready)
    BY <2>3, <2>4, <2>6, ConcatProperties
  <2> QED BY <1>d, <2>3, <2>5, <2>7 DEF Early, Late
<1>6. CASE \E result \in Outputs \cup {<<>>} : Run(result)
  <2>1. PICK result \in Outputs \cup {<<>>} : Run(result)
    BY <1>6
  <2> DEFINE new == Make(result)
  <2>2. result \in Seq(Kinds) /\ InOrder(result)
    <3>1. InOrder(<<>>)
      BY EmptySeq DEF InOrder
    <3> QED BY <3>1, InteractAssumption, EmptySeq
  <2>3. trace' = trace \o new /\ UNCHANGED answer
    BY <2>1 DEF Run
  <2>4. new \in Seq(Fresh) /\ new \in Seq(AnyTrace) /\ InOrder(KindsOf(new))
    <3>1. made \in Seq(AnyTrace) /\ round \in Nat
      BY InteractAssumption, TracesNest DEF InteractType, Rounds
    <3>2. new \in Seq(Now) /\ KindsOf(new) = result
      BY <2>2, <3>1, MakeMakes
    <3> QED BY <2>2, <3>2, FormsNest, TracesNest
  <2> HIDE DEF new
  <2>5. Where = "runtime" /\ Where' = IF api = "streaming" THEN "analytics" ELSE "mergeCompletion"
    BY <1>0, <2>1 DEF Steps
  <2>6. trace \in Seq(Debugs) /\ trace \in Seq(Fresh)
    BY <2>5, FormsNest DEF Finished, Early
  <2>7. trace' \in Seq(Fresh)
    BY <2>3, <2>4, <2>6, ConcatProperties
  <2>8. InOrder(KindsOf(trace'))
    BY <2>3, <2>4, <2>6, DebugsInOrder
  <2>9. api = "streaming" => trace' \in Seq(Ready)
    <3>1. api = "streaming" => Ready = Fresh
      BY DEF Ready
    <3> QED BY <2>7, <3>1
  <2> QED BY <1>d, <2>3, <2>5, <2>7, <2>8, <2>9 DEF Early, Late
<1>7. CASE MergeCompletion
  <2>1. Where = "mergeCompletion" /\ Where' = "analytics" /\ trace' = Merge(trace)
        /\ UNCHANGED answer
    BY <1>0, <1>7 DEF Steps, MergeCompletion
  <2>2. MergedSo(trace, Merge(trace))
    BY <2>1, MergeKeeps DEF Finished
  <2>3. trace' \in Seq(Ready)
    BY <2>1, <2>2, FormsNest DEF MergedSo
  <2> QED BY <1>d, <2>1, <2>3 DEF Early, Late
<1>8. CASE \E split \in BOOLEAN : Tts(split)
  <2>1. PICK split \in BOOLEAN : Tts(split)
    BY <1>8
  <2>2. Where = "tts" /\ Where' = "speak" /\ trace' = Voiced(trace, split) /\ UNCHANGED answer
    BY <1>0, <2>1 DEF Steps, Tts
  <2>3. trace' \in Seq(Ready)
    <3>1. trace \in Seq(Ready)
      BY <2>2 DEF Finished, Late
    <3>2. Ready \in SUBSET AnyTrace
      BY DEF Ready, Fresh, TurnTrace
    <3>3. \A t \in Ready : t.kind = "speech" => Silenced(t) \in Ready
      BY EmptySeq DEF Ready, Fresh, TurnTrace, AnyTrace, Silenced
    <3> QED BY <2>2, <3>1, <3>2, <3>3, VoicedKeeps
  <2> QED BY <1>d, <2>2, <2>3 DEF Early, Late
<1>9. CASE Speak
  <2>1. Where = "speak" /\ Where' = "filter" /\ trace' = Mapped(Parsed, trace) /\ UNCHANGED answer
    BY <1>0, <1>9 DEF Steps, Speak
  <2>2. trace \in Seq(Ready)
    BY <2>1 DEF Finished, Late
  <2> QED BY <1>d, <2>1, <2>2, SpeakKeeps DEF Early, Late
<1>10. CASE Filter
  <2>1. Where = "filter" /\ Where' = "over" /\ trace' = Filtered /\ UNCHANGED answer
    BY <1>0, <1>10 DEF Steps, Filter, Filtered
  <2>2. trace \in Seq(Spoken)
    BY <2>1 DEF Finished
  <2> QED BY <1>d, <2>1, <2>2, FilterKeeps DEF Early, Late
<1>11. CASE Fail
  BY <1>0, <1>11, <1>d DEF Fail, Steps, Early, Late
<1>12. CASE AnswerOnce \/ Delegate \/ Finish
  <2>1. Where = "over" /\ Where' \in {"init", "done"}
    BY <1>0, <1>12 DEF Steps
  <2>2. trace \in Seq(Final)
    BY <2>1 DEF Finished
  <2> DEFINE kept == Only(trace, Of(Kinds \ {"goto"}))
  <2>3. kept \in Seq(Final)
    <3>1. kept \in Seq(Final \cap Of(Kinds \ {"goto"}))
      BY <2>2, OnlyType
    <3> QED BY <3>1, SeqMonotonic
  <2>4. answer' \in {trace, answer \o kept, answer \o trace}
    BY <1>12 DEF AnswerOnce, Delegate, Finish, OfKinds
  <2> HIDE DEF kept
  <2>5. answer' \in Seq(Final)
    BY <1>d, <2>2, <2>3, <2>4, ConcatProperties
  <2> QED BY <2>1, <2>5 DEF Early, Late
<1> QED BY <1>1, <1>2, <1>3, <1>4, <1>5, <1>6, <1>7, <1>8, <1>9, <1>10, <1>11, <1>12 DEF Next

-----------------------------------------------------------------------------
\* The inductive invariant of a request; nothing that was said gets lost.

\* What was said is in the answer so far or in the traces of the round.
Told ==
  /\ Where \in InRound => Said(answer) \o Said(trace) = Said(made)
  /\ Where \in {"init", "done"} => Said(answer) = Said(made)
  /\ api = "once" /\ Where # "done" => answer = <<>>

\* Traces made are of this round or an earlier one; until the runtime runs
\* those of this round are the traces at hand.
Upto == {t \in Fresh : t.round <= round}
InRan == {t \in AnyTrace : t.round \in ran}

Counted ==
  /\ made \in Seq(Upto)
  /\ Where # "failed" => emitted = Only(made, InRan)
  /\ Where = "init" => made \in Seq(Past) /\ round \notin ran
  /\ Where \in Early =>
       /\ round \notin ran /\ trace \in Seq(Now)
       /\ \E old \in Seq(Past) : made = old \o trace

\* A request goes on to the next round if a trace of this one asks for it.
Delegated ==
  /\ Where \notin {"done", "failed"} => request.from = round - 1
  /\ api # "once" => answer \in Seq(AnyTrace \ GoToTrace)
  /\ api # "once" /\ Where = "done" =>
       /\ request.from \in {round - 1, round}
       /\ request.from = round => round = MAX_DELEGATION_TURNS
  /\ "goto" \notin config.excludeTypes /\ Has(made, GoToNow) =>
       /\ Where \in InRound => Has(trace, GoToTrace)
       /\ api # "once" /\ Where = "done" => request.from = round

\* The inductive invariant of a request. The promises about the answer are
\* about traces that the handlers rework; so it says at each handler which
\* form they have (Finished), that nothing said is lost on the way (Told),
\* that what was streamed is what was made in the rounds the runtime ran in
\* (Counted), and that a go-to trace at hand is passed on (Delegated).
RequestInv == InteractType /\ Finished /\ Told /\ Counted /\ Delegated

\* The types of a request are kept.
LEMMA InteractTypeKeeps ==
  ASSUME InteractType, Finished, Next
  PROVE  InteractType'
<1> USE DEF fixed, history, told, heard
<1>0. /\ phase' \in {"init", "pipes", "over", "done", "failed"}
      /\ phase' = "pipes" => AtHandler'
  BY StepsGo
<1>1. /\ api \in {"once", "delegated", "streaming"}
      /\ config \in [tts : BOOLEAN, excludeTypes : {{"debug"}, {"goto"}}, stripSSML : BOOLEAN]
      /\ round \in 1..MAX_DELEGATION_TURNS /\ MAX_DELEGATION_TURNS \in Nat
      /\ request \in [kind : RequestKinds, from : Nat]
      /\ made \in Seq(Fresh) /\ emitted \in Seq(AnyTrace) /\ ran \subseteq 1..round
  BY InteractAssumption DEF InteractType, Rounds
<1> DEFINE Goal == /\ UNCHANGED <<api, config>>
                   /\ round' \in 1..MAX_DELEGATION_TURNS
                   /\ request' \in [kind : RequestKinds, from : Nat]
                   /\ made' \in Seq(Fresh) /\ emitted' \in Seq(AnyTrace)
                   /\ ran' \subseteq 1..round'
<1>2. SUFFICES Goal
  <2>1. api' = api /\ config' = config
    OBVIOUS
  <2> QED BY <1>0, <1>1, <2>1 DEF InteractType, Rounds
<1>3. \/ Started \/ Grown \/ Reworked \/ Failed
      \/ AnswerOnce \/ Delegate \/ Finish
  BY StepsAre
<1>4. CASE Started \/ Reworked \/ Failed
  BY <1>1, <1>4 DEF Started, Reworked, Failed
<1>5. CASE Grown
  <2>1. PICK new \in Seq(Now) :
          /\ trace' = trace \o new /\ made' = made \o new
          /\ \/ UNCHANGED <<emitted, ran>>
             \/ emitted' = emitted \o trace \o new /\ ran' = ran \cup {round}
    BY <1>5 DEF Grown
  <2>2. new \in Seq(Fresh) /\ new \in Seq(AnyTrace) /\ trace \in Seq(AnyTrace)
    <3>1. Where \in InRound
      BY <1>5 DEF Grown, InRound
    <3> QED BY <3>1, FormsNest, TracesNest, TraceType
  <2>3. made' \in Seq(Fresh)
    BY <1>1, <2>1, <2>2, ConcatProperties
  <2>4. (emitted \o trace) \o new \in Seq(AnyTrace)
    <3>1. emitted \o trace \in Seq(AnyTrace)
      BY <1>1, <2>2, ConcatProperties
    <3> QED BY <2>2, <3>1, ConcatProperties
  <2>5. UNCHANGED <<api, config, round>>
    BY <1>5 DEF Grown
  <2>6. request' \in [kind : RequestKinds, from : Nat]
    <3>1. request' \in [kind : RequestKinds, from : {request.from}] /\ request.from \in Nat
      BY <1>1, <1>5 DEF Grown
    <3> QED BY <3>1
  <2>7. ran' \subseteq 1..round'
    <3>1. round \in 1..round
      BY <1>1
    <3> QED BY <1>1, <2>1, <2>5, <3>1
  <2>8. emitted' \in Seq(AnyTrace)
    BY <1>1, <2>1, <2>4
  <2> QED BY <1>1, <2>3, <2>5, <2>6, <2>7, <2>8
<1>6. CASE AnswerOnce \/ Finish
  BY <1>1, <1>6 DEF AnswerOnce, Finish
<1>7. CASE Delegate
  <2>1. request' \in [kind : RequestKinds, from : Nat]
    BY <1>1, <1>7 DEF Delegate, RequestKinds
  <2>2. round' \in 1..MAX_DELEGATION_TURNS /\ round <= round'
    BY <1>1, <1>7 DEF Delegate
  <2>3. ran \subseteq 1..round'
    BY <1>1, <2>2
  <2> QED BY <1>1, <1>7, <2>1, <2>2, <2>3 DEF Delegate
<1> QED BY <1>3, <1>4, <1>5, <1>6, <1>7

\* Nothing that was said is lost by a step.
LEMMA ToldKeeps ==
  ASSUME InteractType, Finished, Told, Next
  PROVE  Told'
<1> USE DEF fixed, history, told, heard
<1>0. \/ Started \/ Grown \/ Reworked \/ Failed
      \/ AnswerOnce \/ Delegate \/ Finish
  BY StepsAre
<1>1. /\ made \in Seq(AnyTrace) /\ answer \in Seq(AnyTrace) /\ answer \in Seq(TurnTrace)
      /\ Said(answer) \in Seq(Nat) /\ Said(made) \in Seq(Nat)
  <2>1. made \in Seq(AnyTrace)
    BY TracesNest DEF InteractType
  <2>2. answer \in Seq(AnyTrace) /\ answer \in Seq(TurnTrace)
    BY TracesNest, FormsNest DEF Finished
  <2> QED BY <2>1, <2>2, SaidType
<1>2. Early \subseteq InRound /\ {"init", "done", "failed"} \cap InRound = {}
      /\ "over" \in InRound
  BY DEF InRound, Early, Late
<1> DEFINE Goal == /\ Where' \in InRound => Said(answer') \o Said(trace') = Said(made')
                   /\ Where' \in {"init", "done"} => Said(answer') = Said(made')
                   /\ api' = "once" /\ Where' # "done" => answer' = <<>>
<1>3. SUFFICES Goal
  <2>1. Said(answer)' = Said(answer') /\ Said(trace)' = Said(trace') /\ Said(made)' = Said(made')
    OBVIOUS
  <2> QED BY <2>1 DEF Told
<1>4. CASE Started
  <2>1. Where = "init" /\ Where' = "asr" /\ trace' = <<>> /\ UNCHANGED <<api, answer, made>>
    BY <1>4 DEF Started
  <2>2. Said(answer) \o <<>> = Said(answer) /\ Said(answer) = Said(made) /\ Said(<<>>) = <<>>
    BY <1>1, <2>1, SaidEmpty, ConcatEmptySeq DEF Told
  <2> QED BY <2>1, <2>2 DEF Told
<1>5. CASE Grown
  <2>1. PICK new \in Seq(Now) : trace' = trace \o new /\ made' = made \o new
    BY <1>5 DEF Grown
  <2>2. Where \in InRound /\ Where' \in InRound /\ Where # "done" /\ UNCHANGED <<api, answer>>
    BY <1>2, <1>5 DEF Grown
  <2>3. new \in Seq(AnyTrace) /\ trace \in Seq(AnyTrace)
    BY <2>2, FormsNest, TracesNest, TraceType
  <2>4. Said(trace') = Said(trace) \o Said(new) /\ Said(made') = Said(made) \o Said(new)
    BY <1>1, <2>1, <2>3, SaidConcat
  <2>5. Said(answer) \o (Said(trace) \o Said(new)) = (Said(answer) \o Said(trace)) \o Said(new)
    <3>1. Said(trace) \in Seq(Nat) /\ Said(new) \in Seq(Nat)
      BY <2>3, SaidType
    <3> QED BY <1>1, <3>1, ReassociateSaid
  <2> QED BY <1>2, <2>2, <2>4, <2>5 DEF Told
<1>6. CASE Reworked
  BY <1>2, <1>6 DEF Reworked, Told
<1>7. CASE Failed
  <2>1. Where' = "failed" /\ UNCHANGED <<api, answer>>
    BY <1>7 DEF Failed
  <2>2. api = "once" => answer = <<>>
    BY <1>7 DEF Told, Failed
  <2> QED BY <1>2, <2>1, <2>2 DEF Told
<1>8. CASE AnswerOnce
  <2>1. Where = "over" /\ Where' = "done"
    BY <1>8, StepsGo DEF Steps
  <2>2. api = "once" /\ answer' = trace /\ UNCHANGED made
    BY <1>8 DEF AnswerOnce
  <2>3. answer = <<>> /\ Said(answer) \o Said(trace) = Said(made)
    BY <1>2, <2>1, <2>2 DEF Told
  <2>4. Said(answer) = <<>> /\ <<>> \o Said(trace) = Said(trace)
    <3>1. Said(trace) \in Seq(Nat)
      BY <1>2, <2>1, TraceType, SaidType
    <3> QED BY <2>3, <3>1, SaidEmpty, ConcatEmptySeq
  <2> QED BY <1>2, <2>1, <2>2, <2>3, <2>4
<1>9. CASE Delegate \/ Finish
  <2>1. Where = "over" /\ Where' \in {"init", "done"} /\ api # "once" /\ UNCHANGED <<api, made>>
    BY <1>9, StepsGo DEF Steps, Delegate, Finish
  <2>2. trace \in Seq(TurnTrace) /\ trace \in Seq(AnyTrace)
        /\ Said(answer) \o Said(trace) = Said(made)
    BY <1>2, <2>1, TraceType DEF Told
  <2> DEFINE S == Of(Kinds \ {"goto"})
             kept == Only(trace, S)
  <2>3. kept \in Seq(AnyTrace) /\ Said(kept) = Said(trace)
    <3>1. \A t \in TurnTrace \ S : t.said = <<>>
      BY DEF Of, TurnTrace, AnyTrace
    <3>2. kept \in Seq(TurnTrace) /\ Said(kept) = Said(trace)
      BY <2>2, <3>1, SaidOnly
    <3> QED BY <3>2, TracesNest
  <2>4. answer' = answer \o kept \/ answer' = answer \o trace
    BY <1>9 DEF Delegate, Finish, OfKinds
  <2> HIDE DEF kept
  <2>5. Said(answer') = Said(answer) \o Said(trace)
    BY <1>1, <2>2, <2>3, <2>4, SaidConcat
  <2> QED BY <1>2, <2>1, <2>2, <2>5
<1> QED BY <1>0, <1>4, <1>5, <1>6, <1>7, <1>8, <1>9

-----------------------------------------------------------------------------
\* What was made, streamed and asked for, and the theorems of Interact.

\* Traces of a round the runtime did not run in are not streamed.
LEMMA NoneRan ==
  ASSUME NEW s \in Seq(Now), round \notin ran
  PROVE  Only(s, InRan) = <<>>
<1>1. Now \cap InRan = {}
  BY DEF Now, InRan
<1> QED BY <1>1, OnlyNone

\* When the runtime has run in a round, what is streamed grows by what the
\* round made before and by what the runtime makes.
LEMMA RunCounts ==
  ASSUME NEW old \in Seq(Past), NEW s \in Seq(Now), NEW u \in Seq(Now), round \in Nat,
         round \notin ran,
         ran' = ran \cup {round}, trace = s, made = old \o s,
         emitted = Only(made, InRan)
  PROVE  Only(made \o u, InRan') = emitted \o s \o u
<1> DEFINE After == {t \in AnyTrace : t.round \in ran \cup {round}}
<1>0. InRan' = After
  BY DEF InRan
<1>1. /\ old \in Seq(Fresh) /\ s \in Seq(Fresh) /\ u \in Seq(Fresh)
  <2>1. Past \subseteq Fresh /\ Now \subseteq Fresh
    BY DEF Past, Now
  <2> QED BY <2>1, SeqMonotonic
<1>2. Only(old, After) = Only(old, InRan)
  <2>1. Past \cap After = Past \cap InRan
    BY DEF Past, After, InRan, Fresh, TurnTrace, AnyTrace
  <2> HIDE DEF After
  <2> QED BY <2>1, OnlyAlike
<1>3. ASSUME NEW q \in Seq(Now) PROVE Only(q, After) = q
  <2>1. Now \subseteq After
    BY DEF Now, After, Fresh, TurnTrace
  <2> HIDE DEF After
  <2>2. q \in Seq(After)
    BY <2>1, SeqMonotonic
  <2> QED BY <2>2, OnlyAll
<1> HIDE DEF After
<1>4. \A a, b \in Seq(Fresh) : Only(a \o b, After) = Only(a, After) \o Only(b, After)
  BY OnlyConcat
<1>5. made \in Seq(Fresh) /\ Only(made, After) = Only(old, InRan) \o s
  <2>1. old \o s \in Seq(Fresh)
    BY <1>1, ConcatProperties
  <2>2. Only(old \o s, After) = Only(old, After) \o Only(s, After)
    BY <1>1, <1>4
  <2>3. Only(s, After) = s
    BY <1>3
  <2> QED BY <1>2, <2>1, <2>2, <2>3
<1>6. emitted = Only(old, InRan)
  <2>1. Only(old \o s, InRan) = Only(old, InRan) \o Only(s, InRan)
    BY <1>1, OnlyConcat
  <2>2. Only(s, InRan) = <<>>
    BY NoneRan
  <2>3. Only(old, InRan) \in Seq(Past \cap InRan)
    BY OnlyType
  <2>4. Only(old, InRan) \o <<>> = Only(old, InRan)
    BY <2>3, ConcatEmptySeq
  <2> QED BY <2>1, <2>2, <2>4
<1>7. Only(made \o u, After) = Only(made, After) \o u
  <2>1. Only(made \o u, After) = Only(made, After) \o Only(u, After)
    BY <1>1, <1>4, <1>5
  <2> QED BY <1>3, <2>1
<1> QED BY <1>0, <1>5, <1>6, <1>7

\* Whatever is streamed, and nothing else, is of rounds the runtime ran in.
LEMMA CountedKeeps ==
  ASSUME InteractType, Finished, Counted, Next
  PROVE  Counted'
<1> USE DEF fixed, history, told, heard
<1>0. \/ Started \/ Grown \/ Reworked \/ Failed
      \/ AnswerOnce \/ Delegate \/ Finish
  BY StepsAre
<1>1. Early \subseteq InRound /\ {"init", "done", "failed"} \cap InRound = {}
      /\ "over" \in InRound
      /\ "asr" \in InRound
  BY DEF InRound, Early, Late
<1>2. /\ made \in Seq(Upto) /\ made \in Seq(Fresh) /\ round \in Nat /\ ran \subseteq 1..round
  BY InteractAssumption DEF Counted, InteractType, Rounds
<1>3. ASSUME UNCHANGED <<round, made, ran>>
      PROVE  Upto' = Upto /\ Past' = Past /\ Now' = Now /\ InRan' = InRan
  BY <1>3 DEF Upto, Past, Now, InRan
<1>4. CASE Started
  <2>1. Where = "init" /\ Where' = "asr" /\ trace' = <<>>
        /\ UNCHANGED <<round, made, ran, emitted>>
    BY <1>4 DEF Started
  <2>2. /\ emitted = Only(made, InRan) /\ made \in Seq(Past) /\ round \notin ran
    BY <2>1 DEF Counted
  <2>3. made = made \o trace' /\ trace' \in Seq(Now)
    BY <2>1, <2>2, ConcatEmptySeq, EmptySeq
  <2> QED BY <1>2, <1>3, <2>1, <2>2, <2>3 DEF Counted
<1>5. CASE Grown
  <2>1. PICK new \in Seq(Now) :
          /\ trace' = trace \o new /\ made' = made \o new
          /\ \/ UNCHANGED <<emitted, ran>>
             \/ /\ Where' \notin Early
                /\ emitted' = emitted \o trace \o new /\ ran' = ran \cup {round}
    BY <1>5 DEF Grown
  <2>2. Where \in Early /\ Where \in InRound /\ Where' \in InRound /\ UNCHANGED round
    BY <1>1, <1>5 DEF Grown
  <2>3. PICK old \in Seq(Past) : made = old \o trace
    BY <2>2 DEF Counted
  <2>4. round \notin ran /\ trace \in Seq(Now) /\ emitted = Only(made, InRan)
    BY <1>1, <2>2 DEF Counted
  <2>5. Upto' = Upto /\ Past' = Past /\ Now' = Now
    BY <2>2 DEF Upto, Past, Now
  <2>6. made' \in Seq(Upto)
    <3>1. Now \subseteq Upto
      BY <1>2 DEF Now, Upto
    <3>2. new \in Seq(Upto)
      BY <3>1, SeqMonotonic
    <3> QED BY <1>2, <2>1, <3>2, ConcatProperties
  <2>7. old \o (trace \o new) = (old \o trace) \o new
    <3>1. Past \subseteq Fresh /\ Now \subseteq Fresh
      BY DEF Past, Now
    <3>2. old \in Seq(Fresh) /\ trace \in Seq(Fresh) /\ new \in Seq(Fresh)
      BY <2>4, <3>1, SeqMonotonic
    <3>3. Regroups(Fresh)
      BY Reassociate
    <3> QED BY <3>2, <3>3 DEF Regroups
  <2>8. trace \o new \in Seq(Now)
    BY <2>4, ConcatProperties
  <2>9. CASE UNCHANGED <<emitted, ran>>
    <3>1. InRan' = InRan
      BY <2>9 DEF InRan
    <3>2. Only(made \o new, InRan) = Only(made, InRan)
      <4>1. new \in Seq(Fresh)
        BY FormsNest
      <4>2. Only(made \o new, InRan) = Only(made, InRan) \o Only(new, InRan)
        BY <1>2, <4>1, OnlyConcat
      <4>3. Only(new, InRan) = <<>>
        BY <2>4, NoneRan
      <4>4. Only(made, InRan) \in Seq(Fresh \cap InRan)
        BY <1>2, OnlyType
      <4> QED BY <4>2, <4>3, <4>4, ConcatEmptySeq
    <3>3. made' = old \o trace'
      BY <2>1, <2>3, <2>7
    <3> QED BY <1>1, <2>1, <2>2, <2>4, <2>5, <2>6, <2>8, <2>9, <3>1, <3>2, <3>3 DEF Counted
  <2>10. CASE Where' \notin Early /\ emitted' = emitted \o trace \o new /\ ran' = ran \cup {round}
    <3>1. Only(made \o new, InRan') = emitted \o trace \o new
      BY <1>2, <2>3, <2>4, <2>10, RunCounts
    <3> QED BY <1>1, <2>1, <2>2, <2>5, <2>6, <2>10, <3>1 DEF Counted
  <2> QED BY <2>1, <2>9, <2>10
<1>6. CASE Reworked
  BY <1>1, <1>3, <1>6 DEF Reworked, Counted
<1>7. CASE Failed
  BY <1>1, <1>3, <1>7 DEF Failed, Counted
<1>8. CASE AnswerOnce \/ Finish
  <2>1. Where = "over" /\ Where' = "done" /\ UNCHANGED <<round, made, ran, emitted>>
    BY <1>8, StepsGo DEF Steps, AnswerOnce, Finish
  <2> QED BY <1>1, <1>3, <2>1 DEF Counted
<1>9. CASE Delegate
  <2>1. Where = "over" /\ Where' = IF round < MAX_DELEGATION_TURNS THEN "init" ELSE "done"
    BY <1>9, StepsGo DEF Steps
  <2>2. UNCHANGED <<made, ran, emitted>> /\ round' = IF round < MAX_DELEGATION_TURNS THEN round + 1 ELSE round
    BY <1>9 DEF Delegate
  <2>3. emitted = Only(made, InRan) /\ InRan' = InRan
    BY <1>1, <2>1, <2>2 DEF Counted, InRan
  <2>4. made \in Seq(Upto')
    <3>1. Upto \subseteq Upto'
      BY <1>2, <2>2 DEF Upto, Fresh, TurnTrace, AnyTrace
    <3> QED BY <1>2, <3>1, SeqMonotonic
  <2>5. Where' = "init" => made \in Seq(Past') /\ round' \notin ran
    <3> SUFFICES ASSUME Where' = "init" PROVE made \in Seq(Past') /\ round' \notin ran
      OBVIOUS
    <3>1. round' = round + 1
      BY <2>1, <2>2
    <3>2. Upto \subseteq Past'
      BY <1>2, <3>1 DEF Upto, Past, Fresh, TurnTrace, AnyTrace
    <3> QED BY <1>2, <3>1, <3>2, SeqMonotonic
  <2>6. Where' \notin Early
    BY <1>1, <2>1
  <2> QED BY <2>2, <2>3, <2>4, <2>5, <2>6 DEF Counted
<1> QED BY <1>0, <1>4, <1>5, <1>6, <1>7, <1>8, <1>9

\* The go-to traces of a round stay at hand until the next round is due.
LEMMA DelegatedKeeps ==
  ASSUME InteractType, Finished, Counted, Delegated, Next
  PROVE  Delegated'
<1> USE DEF fixed, history, told, heard
<1>0. \/ Started \/ Grown \/ Reworked \/ Failed
      \/ AnswerOnce \/ Delegate \/ Finish
  BY StepsAre
<1>1. Early \subseteq InRound /\ {"init", "done", "failed"} \cap InRound = {}
      /\ "over" \in InRound
      /\ "asr" \in InRound
  BY DEF InRound, Early, Late
<1>2. round \in Nat /\ made \in Seq(Fresh)
  BY InteractAssumption DEF InteractType, Rounds
<1>3. UNCHANGED round => GoToNow' = GoToNow
  BY DEF GoToNow
<1>b. \A s : Has(s, GoToNow) => Has(s, GoToTrace)
  BY DEF Has, GoToNow
<1>c. Has(made, GoToNow)' <=> Has(made', GoToNow')
  BY DEF Has
<1>d. Has(trace, GoToTrace)' <=> Has(trace', GoToTrace)
  BY DEF Has
<1>4. CASE Started
  <2>1. Where = "init" /\ Where' = "asr"
        /\ UNCHANGED <<api, config, round, request, made, answer>>
    BY <1>4 DEF Started
  <2>2. ~Has(made, GoToNow)
    <3>1. made \in Seq(Past)
      BY <2>1 DEF Counted
    <3>2. Past \subseteq Past \ GoToNow
      BY <1>2 DEF Past, GoToNow, Fresh, TurnTrace, AnyTrace
    <3>3. made \in Seq(Past \ GoToNow)
      BY <3>1, <3>2, SeqMonotonic
    <3> QED BY <3>1, <3>3, HasNone
  <2> QED BY <1>1, <1>3, <1>c, <2>1, <2>2 DEF Delegated
<1>5. CASE Grown
  <2>1. PICK new \in Seq(Now) : trace' = trace \o new /\ made' = made \o new
    BY <1>5 DEF Grown
  <2>2. /\ Where \in InRound /\ Where' \in InRound /\ UNCHANGED <<api, config, round, answer>>
        /\ request'.from = request.from
    BY <1>1, <1>5 DEF Grown
  <2>3. new \in Seq(Fresh) /\ new \in Seq(AnyTrace) /\ trace \in Seq(AnyTrace)
    BY <2>2, FormsNest, TracesNest, TraceType
  <2>4. Has(made', GoToNow) <=> Has(made, GoToNow) \/ Has(new, GoToNow)
    BY <1>2, <2>1, <2>3, HasConcat
  <2>5. Has(trace', GoToTrace) <=> Has(trace, GoToTrace) \/ Has(new, GoToTrace)
    BY <2>1, <2>3, HasConcat
  <2> QED BY <1>1, <1>3, <1>b, <1>c, <1>d, <2>2, <2>4, <2>5 DEF Delegated
<1>6. CASE Reworked
  BY <1>1, <1>3, <1>c, <1>d, <1>6 DEF Reworked, Delegated
<1>7. CASE Failed
  BY <1>1, <1>7 DEF Failed, Delegated
<1>8. CASE AnswerOnce
  <2>1. Where = "over" /\ Where' = "done" /\ api = "once" /\ UNCHANGED api
    BY <1>8, StepsGo DEF Steps, AnswerOnce
  <2> QED BY <1>1, <2>1 DEF Delegated
<1>9. CASE Delegate \/ Finish
  <2>0. Where = "over" /\ api # "once" /\ UNCHANGED <<api, config, made>>
    BY <1>9, StepsGo DEF Steps, Delegate, Finish
  <2>1. answer \in Seq(AnyTrace \ GoToTrace) /\ request.from = round - 1
        /\ trace \in Seq(AnyTrace)
    BY <1>1, <2>0, TraceType DEF Delegated
  <2>2. CASE Delegate
    <3> DEFINE S == Of(Kinds \ {"goto"})
               kept == Only(trace, S)
    <3>1. kept \in Seq(AnyTrace \ GoToTrace)
      <4>1. kept \in Seq(AnyTrace \cap S)
        BY <2>1, OnlyType
      <4>2. AnyTrace \cap S \subseteq AnyTrace \ GoToTrace
        BY DEF Of, GoToTrace
      <4> QED BY <4>1, <4>2, SeqMonotonic
    <3>2. answer' = answer \o kept
      BY <2>2 DEF Delegate, OfKinds
    <3> HIDE DEF kept
    <3>3. answer' \in Seq(AnyTrace \ GoToTrace)
      BY <2>1, <3>1, <3>2, ConcatProperties
    <3>4. request'.from = round
      BY <2>2 DEF Delegate
    <3>5. CASE round < MAX_DELEGATION_TURNS
      <4>1. Where' = "init" /\ round' = round + 1
        BY <2>2, <3>5, StepsGo DEF Steps, Delegate
      <4> QED BY <1>1, <1>2, <3>3, <3>4, <4>1 DEF Delegated
    <3>6. CASE ~(round < MAX_DELEGATION_TURNS)
      <4>1. Where' = "done" /\ round' = round
        BY <2>2, <3>6, StepsGo DEF Steps, Delegate
      <4>2. round = MAX_DELEGATION_TURNS
        BY <3>6, InteractAssumption DEF InteractType, Rounds
      <4> QED BY <1>1, <3>3, <3>4, <4>1, <4>2 DEF Delegated
    <3> QED BY <3>5, <3>6
  <2>3. CASE Finish
    <3>1. Where' = "done" /\ answer' = answer \o trace /\ UNCHANGED <<round, request>>
          /\ GoTos = <<>>
      BY <2>3, StepsGo DEF Steps, Finish
    <3>2. ~Has(trace, GoToTrace)
      <4>1. Only(trace, GoToTrace) = <<>>
        BY <3>1 DEF GoTos, OfKinds, GoToTrace
      <4>2. Has(Only(trace, GoToTrace), GoToTrace) <=> Has(trace, GoToTrace \cap GoToTrace)
        BY <2>1, OnlyHas
      <4>3. GoToTrace \cap GoToTrace = GoToTrace
        OBVIOUS
      <4> QED BY <4>1, <4>2, <4>3, HasEmpty
    <3>3. trace \in Seq(AnyTrace \ GoToTrace)
      BY <2>1, <3>2, HasNone
    <3>4. answer' \in Seq(AnyTrace \ GoToTrace)
      BY <2>1, <3>1, <3>3, ConcatProperties
    <3>5. "goto" \notin config.excludeTypes => ~Has(made, GoToNow)
      BY <1>1, <2>0, <3>2 DEF Delegated
    <3>6. round - 1 # round
      BY <1>2
    <3> QED BY <1>1, <1>3, <1>c, <2>0, <2>1, <3>1, <3>4, <3>5, <3>6 DEF Delegated
  <2> QED BY <1>9, <2>2, <2>3
<1> QED BY <1>0, <1>4, <1>5, <1>6, <1>7, <1>8, <1>9

\* A request starts with nothing made.
LEMMA RequestInit ==
  ASSUME Init
  PROVE  RequestInv
<1>1. /\ Where = "init" /\ round = 1 /\ made = <<>> /\ trace = <<>> /\ answer = <<>>
      /\ emitted = <<>> /\ ran = {}
      /\ request.from = 0 /\ phase = "init"
  BY DEF Init, Where
<1>2. 1 \in Rounds
  BY InteractAssumption DEF Rounds
<1>3. InteractType
  <2>1. request \in [kind : RequestKinds, from : Nat]
    BY DEF Init
  <2>2. /\ api \in {"once", "delegated", "streaming"}
        /\ config \in [tts : BOOLEAN, excludeTypes : {{"debug"}, {"goto"}}, stripSSML : BOOLEAN]
    BY DEF Init
  <2> QED BY <1>1, <1>2, <2>1, <2>2, EmptySeq DEF InteractType
<1>4. \A h \in InRound : h # "init"
  BY DEF InRound, Early, Late
<1>5. "init" \notin Early /\ "init" \notin Late
  BY DEF Early, Late
<1>6. Finished
  BY <1>1, <1>5, EmptySeq DEF Finished
<1>7. Told
  BY <1>1, <1>4 DEF Told
<1>8. Counted
  BY <1>1, <1>5, EmptySeq, OnlyEmpty DEF Counted
<1>9. Delegated
  <2>1. 0 = round - 1
    BY <1>1
  <2> QED BY <1>1, <1>4, <2>1, HasEmpty, EmptySeq DEF Delegated
<1> QED BY <1>3, <1>6, <1>7, <1>8, <1>9 DEF RequestInv

\* A step that changes nothing breaks nothing.
LEMMA RequestStays ==
  ASSUME RequestInv, UNCHANGED vars
  PROVE  RequestInv'
<1>1. UNCHANGED <<api, config, phase, round, at, request, trace, answer, emitted, made, ran>>
  BY DEF vars
<1>2. Where' = Where
  BY <1>1 DEF Where, Pipes
<1>3. InteractType'
  BY <1>1 DEF RequestInv, InteractType, AtHandler, Rounds
<1>4. Finished'
  BY <1>1, <1>2 DEF RequestInv, Finished, Ready, Spoken, Final, KindsOf
<1>5. Told'
  BY <1>1, <1>2 DEF RequestInv, Told
<1>6. Counted'
  BY <1>1, <1>2 DEF RequestInv, Counted, Upto, InRan, Past, Now
<1>7. Delegated'
  BY <1>1, <1>2 DEF RequestInv, Delegated, GoToNow, Has
<1> QED BY <1>3, <1>4, <1>5, <1>6, <1>7 DEF RequestInv

\* Every step of a request keeps the invariant.
LEMMA RequestKeeps ==
  ASSUME RequestInv, [Next]_vars
  PROVE  RequestInv'
<1>1. CASE Next
  BY <1>1, InteractTypeKeeps, FinishedKeeps, ToldKeeps, CountedKeeps, DelegatedKeeps
     DEF RequestInv
<1>2. CASE UNCHANGED vars
  BY <1>2, RequestStays
<1> QED BY <1>1, <1>2

\* The invariant of a request holds throughout, for any outputs of the runtime
\* in the order it makes them in.
THEOREM RequestInductive == Spec => []RequestInv
BY RequestInit, RequestKeeps, PTL DEF Spec

\* Once the request is answered, the answer says what the handlers and the
\* runtime said, in order: merging, voicing, parsing, stripping and filtering
\* lose no speech (interact and the handlers of its pipes).
THEOREM AnswersAll == Spec => []AnswerSaysAll
<1>1. RequestInv => AnswerSaysAll
  BY DEF RequestInv, Told, AnswerSaysAll, Where
<1> QED BY <1>1, RequestInductive, PTL

\* Every trace answered has gone through the pipes it should: speech was
\* parsed, no piece of a completion is left unless streamed, and no SSML if
\* the request strips it (interact and its pipes).
THEOREM AnswersFinished == Spec => []AnswerIsFinished
<1>1. ASSUME RequestInv PROVE AnswerIsFinished
  <2>1. answer \in Seq(Final)
    BY <1>1 DEF RequestInv, Finished
  <2>2. \A t \in ToSet(answer) : t \in Final
    BY <2>1, LenProperties DEF ToSet
  <2> QED BY <2>2 DEF AnswerIsFinished, Final, Spoken
<1> QED BY <1>1, RequestInductive, PTL

\* What the event handler of a streaming caller got is what was made in the
\* rounds the runtime ran in, no more, no less, in order (runtime.handle of
\* interact).
THEOREM StreamsAsRun == Spec => []StreamedAsRun
<1>1. ASSUME RequestInv PROVE StreamedAsRun
  <2> SUFFICES ASSUME phase # "failed" PROVE emitted = Only(made, InRan)
    BY DEF StreamedAsRun, InRan
  <2>1. Where # "failed"
    <3>1. CASE phase = "pipes"
      <4>1. AtHandler /\ config.tts \in BOOLEAN /\ Where = Pipes[at[1]][at[2]]
        BY <1>1, <3>1 DEF RequestInv, InteractType, Where
      <4> DEFINE a == at[1]
                 b == at[2]
                 P == Pipes
      <4>2. \/ a = 1 /\ b \in {1, 2, 3, 4, 5}
            \/ a = 1 /\ b = 6 /\ api # "streaming"
            \/ a = 2 /\ b = 1
            \/ a = 3 /\ b \in {1, 2} /\ ~config.tts
            \/ a = 3 /\ b = 1 /\ config.tts
            \/ a = 4 /\ b \in {1, 2} /\ config.tts
        BY <4>1 DEF AtHandler
      <4>3. /\ P[1][1] = "asr" /\ P[1][2] = "nlu" /\ P[1][3] = "aiAssist"
            /\ P[1][4] = "dialog" /\ P[1][5] = "runtime"
            /\ api # "streaming" => P[1][6] = "mergeCompletion"
            /\ P[2][1] = "analytics"
            /\ config.tts => P[3][1] = "tts" /\ P[4][1] = "speak" /\ P[4][2] = "filter"
            /\ ~config.tts => P[3][1] = "speak" /\ P[3][2] = "filter"
        BY <4>1, HandlersAre
      <4>4. Where = P[a][b]
        BY <4>1
      <4> HIDE DEF a, b, P
      <4> QED BY <4>2, <4>3, <4>4
    <3>2. CASE phase # "pipes"
      BY <3>2 DEF Where
    <3> QED BY <3>1, <3>2
  <2> QED BY <1>1, <2>1 DEF RequestInv, Counted
<1> QED BY <1>1, RequestInductive, PTL

\* A request that delegates is answered without go-to traces, and each was run
\* as a request of the next round unless the number of rounds is used up
\* (autoDelegate).
THEOREM GoToRuns == Spec => []GoToIsRun
<1>1. ASSUME RequestInv PROVE GoToIsRun
  <2> SUFFICES ASSUME phase = "done", api # "once" PROVE
        /\ \A t \in ToSet(answer) : ~IsGoTo(t)
        /\ request.from \in {round - 1, round}
        /\ request.from = round => round = MAX_DELEGATION_TURNS
        /\ "goto" \notin config.excludeTypes =>
             \A t \in ToSet(made) : IsGoTo(t) => request.from >= t.round
    BY DEF GoToIsRun
  <2>1. Where = "done" /\ round \in Nat
    BY <1>1, InteractAssumption DEF Where, RequestInv, InteractType, Rounds
  <2>2. answer \in Seq(AnyTrace \ GoToTrace) /\ made \in Seq(Upto)
    BY <1>1 DEF RequestInv, Delegated, Counted
  <2>3. request.from \in {round - 1, round}
        /\ (request.from = round => round = MAX_DELEGATION_TURNS)
    BY <1>1, <2>1 DEF RequestInv, Delegated
  <2>4. \A t \in ToSet(answer) : ~IsGoTo(t)
    <3>1. \A t \in ToSet(answer) : t \in AnyTrace \ GoToTrace
      BY <2>2, LenProperties DEF ToSet
    <3> QED BY <3>1 DEF GoToTrace, Of, IsGoTo
  <2>5. ASSUME "goto" \notin config.excludeTypes, NEW t \in ToSet(made), IsGoTo(t)
        PROVE  request.from >= t.round
    <3>1. t \in Upto
      BY <2>2, <2>5, LenProperties DEF ToSet
    <3>2. t.round \in Nat /\ t.round <= round /\ t \in GoToTrace
      BY <2>5, <3>1 DEF Upto, Fresh, TurnTrace, AnyTrace, GoToTrace, Of, IsGoTo
    <3>3. CASE t.round = round
      <4>1. Has(made, GoToNow)
        BY <2>5, <3>2, <3>3 DEF Has, GoToNow, ToSet
      <4>2. request.from = round
        BY <1>1, <2>1, <2>5, <4>1 DEF RequestInv, Delegated
      <4> QED BY <2>1, <3>3, <4>2
    <3>4. CASE t.round # round
      BY <2>1, <2>3, <3>2, <3>4
    <3> QED BY <3>3, <3>4
  <2> QED BY <2>3, <2>4, <2>5
<1> QED BY <1>1, RequestInductive, PTL

-----------------------------------------------------------------------------
\* AiResponse: what is spoken when a trace is merged after others.

\* What the speech among the traces m says.
Spoke(m) == Said(OfKinds(m, {"speech"}))
Says(q) == {t \in AnyTrace : t.kind = "speech" /\ t.said = q}
Numbered(n) == {t \in AnyTrace : t.said \in Seq(1..n)}

\* Pieces that are said by traces of given pieces are of those.
LEMMA SaidIn ==
  ASSUME NEW V \in SUBSET Nat, NEW s \in Seq({t \in AnyTrace : t.said \in Seq(V)})
  PROVE  Said(s) \in Seq(V)
<1> DEFINE E == {t \in AnyTrace : t.said \in Seq(V)}
           F == [t \in E |-> t.said]
<1>1. Yields(F, E, V)
  BY DEF Yields
<1>2. \A i \in DOMAIN s : s[i] \in E
  BY LenProperties
<1>3. Said(s) = Spread(F, s)
  BY <1>2 DEF Said, Mapped, Spread, Each
<1> HIDE DEF E, F
<1>4. Spread(F, s) \in Seq(V)
  BY <1>1, SpreadType DEF E
<1> QED BY <1>3, <1>4

\* What is spoken are pieces of the traces it is of.
LEMMA SpokeIn ==
  ASSUME NEW n \in Nat, NEW m \in Seq(Numbered(n))
  PROVE  Spoke(m) \in Seq(1..n)
<1>1. Only(m, Of({"speech"})) \in Seq(Numbered(n) \cap Of({"speech"}))
  BY OnlyType
<1>2. Only(m, Of({"speech"})) \in Seq(Numbered(n))
  BY <1>1, SeqMonotonic
<1>3. 1..n \in SUBSET Nat
  OBVIOUS
<1> QED BY <1>2, <1>3, SaidIn DEF Spoke, OfKinds, Numbered

LEMMA SpokeType ==
  ASSUME NEW m \in Seq(AnyTrace)
  PROVE  Spoke(m) \in Seq(Nat)
<1>1. Only(m, Of({"speech"})) \in Seq(AnyTrace \cap Of({"speech"}))
  BY OnlyType
<1>2. Only(m, Of({"speech"})) \in Seq(AnyTrace)
  BY <1>1, SeqMonotonic
<1> QED BY <1>2, SaidType DEF Spoke, OfKinds

\* What is spoken with one more trace.
LEMMA SpokeAppend ==
  ASSUME NEW m \in Seq(AnyTrace), NEW t \in AnyTrace
  PROVE  Spoke(Append(m, t)) = IF t.kind = "speech" THEN Spoke(m) \o t.said ELSE Spoke(m)
<1>1. Only(Append(m, t), Of({"speech"})) =
        IF t \in Of({"speech"}) THEN Append(Only(m, Of({"speech"})), t) ELSE Only(m, Of({"speech"}))
  BY OnlyAppend
<1>2. t \in Of({"speech"}) <=> t.kind = "speech"
  BY DEF Of
<1>3. Only(m, Of({"speech"})) \in Seq(AnyTrace)
  <2>1. Only(m, Of({"speech"})) \in Seq(AnyTrace \cap Of({"speech"}))
    BY OnlyType
  <2> QED BY <2>1, SeqMonotonic
<1>4. Said(Append(Only(m, Of({"speech"})), t)) = Said(Only(m, Of({"speech"}))) \o t.said
  BY <1>3, SaidAppend
<1> QED BY <1>1, <1>2, <1>4 DEF Spoke, OfKinds

\* What becomes of merged traces when one is added.
Keeps(m, w) ==
  /\ w \in Seq(AnyTrace) /\ w # <<>>
  /\ \A q \in Seq(Nat) : Has(m, Says(q)) => Has(w, Says(q))

\* A trace that is no piece comes after what is merged.
LEMMA AddTrace ==
  ASSUME NEW m \in Seq(AnyTrace), NEW t \in AnyTrace, t.kind \notin {"more", "last"}
  PROVE  /\ Keeps(m, MergeOne(m, t)) /\ MergeOne(m, t) = Append(m, t) /\ Last(MergeOne(m, t)) = t
         /\ t.kind # "speech" => Spoke(MergeOne(m, t)) = Spoke(m)
         /\ t.kind = "speech" => /\ Spoke(MergeOne(m, t)) = Spoke(m) \o t.said
                                 /\ Has(MergeOne(m, t), Says(t.said))
<1>1. MergeOne(m, t) = Append(m, t)
  BY MergeKept
<1>2. Append(m, t) \in Seq(AnyTrace) /\ Append(m, t) # <<>> /\ Last(Append(m, t)) = t
  BY LastAppend, AppendProperties
<1>3. \A K : Has(Append(m, t), K) <=> Has(m, K) \/ t \in K
  BY HasAppend
<1>4. t.kind = "speech" => t \in Says(t.said)
  BY DEF Says
<1> QED BY <1>1, <1>2, <1>3, <1>4, SpokeAppend DEF Keeps

\* The parts of a list of K are of K.
LEMMA AppendSplits ==
  ASSUME NEW E, NEW K, NEW f \in Seq(E), NEW l \in E, Append(f, l) \in Seq(K)
  PROVE  f \in Seq(K) /\ l \in K
<1>1. /\ Len(Append(f, l)) = Len(f) + 1 /\ Append(f, l)[Len(f) + 1] = l
      /\ \A i \in 1..Len(f) : Append(f, l)[i] = f[i]
  BY AppendProperties
<1>2. Len(f) \in Nat /\ f = [i \in 1..Len(f) |-> f[i]]
  BY LenProperties
<1>3. \A i \in 1..Len(f) + 1 : Append(f, l)[i] \in K
  BY <1>1, ElementOfSeq
<1>4. \A i \in 1..Len(f) : f[i] \in K
  BY <1>1, <1>2, <1>3
<1>5. l \in K
  BY <1>1, <1>2, <1>3
<1>6. f \in [1..Len(f) -> K]
  BY <1>2, <1>4
<1> QED BY <1>2, <1>5, <1>6

\* A piece is taken up in the start it follows.
LEMMA AddMore ==
  ASSUME NEW m \in Seq(AnyTrace), m # <<>>, Last(m).kind = "start", NEW t \in AnyTrace,
         t.kind = "more"
  PROVE  /\ Keeps(m, MergeOne(m, t)) /\ Spoke(MergeOne(m, t)) = Spoke(m)
         /\ Last(MergeOne(m, t)).kind = "start"
         /\ Last(MergeOne(m, t)).said = Last(m).said \o t.said
         /\ \A n \in Nat : m \in Seq(Numbered(n)) /\ t \in Numbered(n) => MergeOne(m, t) \in Seq(Numbered(n))
<1>1. PICK f \in Seq(AnyTrace), l \in AnyTrace : m = Append(f, l)
  BY SequenceEmptyOrAppend
<1>2. Last(m) = l /\ l.kind = "start"
  BY <1>1, LastAppend
<1> DEFINE w == [l EXCEPT !.said = l.said \o t.said]
<1>3. w \in AnyTrace /\ MergeOne(m, t) = Append(f, w)
  BY <1>1, <1>2, MergeMore
<1>4. w.kind = "start" /\ w.said = l.said \o t.said
  BY <1>2 DEF AnyTrace
<1> HIDE DEF w
<1>5. Append(f, w) \in Seq(AnyTrace) /\ Append(f, w) # <<>> /\ Last(Append(f, w)) = w
  BY <1>3, LastAppend, AppendProperties
<1>6. \A K : (Has(m, K) <=> Has(f, K) \/ l \in K) /\ (Has(Append(f, w), K) <=> Has(f, K) \/ w \in K)
  BY <1>1, <1>3, HasAppend
<1>7. \A q : l \notin Says(q)
  BY <1>2 DEF Says
<1>8. Spoke(m) = Spoke(f) /\ Spoke(Append(f, w)) = Spoke(f)
  BY <1>1, <1>2, <1>3, <1>4, SpokeAppend
<1>9. ASSUME NEW n \in Nat, m \in Seq(Numbered(n)), t \in Numbered(n) PROVE Append(f,
   w) \in Seq(Numbered(n))
  <2>1. f \in Seq(Numbered(n)) /\ l \in Numbered(n)
    BY <1>1, <1>9, AppendSplits
  <2>2. w \in Numbered(n)
    <3>1. l.said \in Seq(1..n) /\ t.said \in Seq(1..n)
      BY <1>9, <2>1 DEF Numbered
    <3> QED BY <1>3, <1>4, <3>1, ConcatProperties DEF Numbered
  <2> QED BY <2>1, <2>2, AppendProperties
<1>10. Keeps(m, Append(f, w))
  BY <1>5, <1>6, <1>7 DEF Keeps
<1> QED BY <1>2, <1>3, <1>4, <1>5, <1>8, <1>9, <1>10

\* The last piece makes the start it follows a speech.
LEMMA AddLast ==
  ASSUME NEW m \in Seq(AnyTrace), m # <<>>, Last(m).kind = "start", NEW t \in AnyTrace,
         t.kind = "last"
  PROVE  /\ Keeps(m, MergeOne(m, t)) /\ Spoke(MergeOne(m, t)) = Spoke(m) \o Last(m).said
         /\ Has(MergeOne(m, t), Says(Last(m).said))
         /\ \A n \in Nat : m \in Seq(Numbered(n)) => MergeOne(m, t) \in Seq(Numbered(n))
<1>1. PICK f \in Seq(AnyTrace), l \in AnyTrace : m = Append(f, l)
  BY SequenceEmptyOrAppend
<1>2. Last(m) = l /\ l.kind = "start"
  BY <1>1, LastAppend
<1> DEFINE w == [l EXCEPT !.kind = "speech"]
<1>3. w \in AnyTrace /\ MergeOne(m, t) = Append(f, w)
  BY <1>1, <1>2, MergeLast
<1>4. w.kind = "speech" /\ w.said = l.said
  BY <1>2 DEF AnyTrace
<1> HIDE DEF w
<1>5. Append(f, w) \in Seq(AnyTrace) /\ Append(f, w) # <<>>
  BY <1>3, LastAppend, AppendProperties
<1>6. \A K : (Has(m, K) <=> Has(f, K) \/ l \in K) /\ (Has(Append(f, w), K) <=> Has(f, K) \/ w \in K)
  BY <1>1, <1>3, HasAppend
<1>7. (\A q : l \notin Says(q)) /\ w \in Says(l.said)
  BY <1>2, <1>3, <1>4 DEF Says
<1>8. Spoke(m) = Spoke(f) /\ Spoke(Append(f, w)) = Spoke(f) \o l.said
  BY <1>1, <1>2, <1>3, <1>4, SpokeAppend
<1>9. ASSUME NEW n \in Nat, m \in Seq(Numbered(n)) PROVE Append(f, w) \in Seq(Numbered(n))
  <2>1. f \in Seq(Numbered(n)) /\ l \in Numbered(n)
    BY <1>1, <1>9, AppendSplits
  <2>2. w \in Numbered(n)
    BY <1>3, <1>4, <2>1 DEF Numbered
  <2> QED BY <2>1, <2>2, AppendProperties
<1> QED BY <1>2, <1>3, <1>4, <1>5, <1>6, <1>7, <1>8, <1>9 DEF Keeps

\* A last piece that follows no start changes nothing.
LEMMA AddLastToNone ==
  ASSUME NEW m \in Seq(AnyTrace), m # <<>>, Last(m).kind # "start", NEW t \in AnyTrace,
         t.kind = "last"
  PROVE  MergeOne(m, t) = m
BY MergeDropped

\* What is remembered of what was spoken.
LEMMA RememberMore ==
  ASSUME NEW N, NEW q \in Seq(Nat), NEW h \in Seq(Nat \ N)
  PROVE  Only(q \o h, Nat \ N) = Only(q, Nat \ N) \o h
<1> DEFINE V == Nat
           R == Nat \ N
<1>1. q \in Seq(V) /\ h \in Seq(R) /\ R \subseteq V
  OBVIOUS
<1> HIDE DEF V, R
<1>2. h \in Seq(V)
  BY <1>1, SeqMonotonic
<1>3. Only(q \o h, R) = Only(q, R) \o Only(h, R)
  BY <1>1, <1>2, OnlyConcat
<1>4. Only(h, R) = h
  BY <1>1, OnlyAll
<1> QED BY <1>3, <1>4 DEF R

\* A piece that is to be forgotten changes nothing that is remembered.
LEMMA ForgetNotice ==
  ASSUME NEW n \in Nat, NEW N \in SUBSET (1..n), NEW q \in Seq(1..n)
  PROVE  Only(q \o <<n + 1>>, Nat \ (N \cup {n + 1})) = Only(q, Nat \ N)
<1> DEFINE E == 1..n
           F == 1..(n + 1)
           R == Nat \ N
           S == Nat \ (N \cup {n + 1})
<1>1. E \cap R = E \cap S /\ q \in Seq(E) /\ E \subseteq F /\ n + 1 \in F /\ n + 1 \notin S
  OBVIOUS
<1> HIDE DEF E, F, R, S
<1>2. q \in Seq(F)
  BY <1>1, SeqMonotonic
<1>3. Append(q, n + 1) = q \o <<n + 1>>
  BY <1>1, <1>2, AppendIsConcat
<1>4. Only(Append(q, n + 1), S) = Only(q, S)
  BY <1>1, <1>2, OnlyAppend
<1>5. Only(q, R) = Only(q, S)
  BY <1>1, OnlyAlike
<1> QED BY <1>3, <1>4, <1>5 DEF R, S

-----------------------------------------------------------------------------
\* Adding each of the traces of a turn.

\* Pieces said so far.
Count(s) == Len(Said(s))

\* What holds of the traces s of a turn, of what is remembered and repeated,
\* and of the pieces N that are notices.
Sound(s, m, q, N) ==
  /\ s \in Seq(AnyTrace)
  /\ InOrder(KindsOf(s))
  /\ Merge(s) \in Seq(Numbered(Count(s)))
  /\ N \in SUBSET (1..Count(s))
  /\ m = Only(Spoke(Merge(s)), Nat \ N)
  /\ q \in Seq(Nat) /\ (q # <<>> => Has(Merge(s), Says(q)))

\* The number of pieces grows with each that is said.
LEMMA CountType ==
  ASSUME NEW s \in Seq(AnyTrace)
  PROVE  Count(s) \in Nat
<1>1. Said(s) \in Seq(Nat)
  BY SaidType
<1> QED BY <1>1, LenProperties DEF Count

LEMMA CountAppend ==
  ASSUME NEW s \in Seq(AnyTrace), NEW t \in AnyTrace
  PROVE  Count(Append(s, t)) = Count(s) + Len(t.said)
<1>1. Said(s) \in Seq(Nat) /\ t.said \in Seq(Nat)
  BY SaidType DEF AnyTrace
<1>2. \A a, b \in Seq(Nat) : Len(a \o b) = Len(a) + Len(b)
  BY ConcatProperties
<1> QED BY <1>1, <1>2, SaidAppend DEF Count

\* More pieces than are needed do no harm.
LEMMA NumberedGrows ==
  ASSUME NEW n \in Nat, NEW k \in Nat, n <= k, NEW m \in Seq(Numbered(n))
  PROVE  m \in Seq(Numbered(k)) /\ m \in Seq(AnyTrace)
<1>1. 1..n \subseteq 1..k
  OBVIOUS
<1>2. Seq(1..n) \subseteq Seq(1..k)
  BY <1>1, SeqMonotonic
<1>3. Numbered(n) \subseteq Numbered(k) /\ Numbered(n) \subseteq AnyTrace
  BY <1>2 DEF Numbered
<1> QED BY <1>3, SeqMonotonic

\* A trace that says nothing, or the next piece.
LEMMA TracesOfTurn ==
  ASSUME NEW k \in Kinds, NEW n \in Nat
  PROVE  /\ Trace(k, <<>>, 1) \in Numbered(n) /\ Trace(k, <<>>, 1).said = <<>>
         /\ Len(Trace(k, <<>>, 1).said) = 0
         /\ Trace(k, <<n + 1>>, 1) \in Numbered(n + 1) /\ Trace(k, <<n + 1>>, 1).said = <<n + 1>>
         /\ Len(Trace(k, <<n + 1>>, 1).said) = 1
         /\ Trace(k, <<>>, 1).kind = k /\ Trace(k, <<n + 1>>, 1).kind = k
         /\ Trace(k, <<>>, 1) \in AnyTrace /\ Trace(k, <<n + 1>>, 1) \in AnyTrace
<1>1. <<>> \in Seq(Nat) /\ <<>> \in Seq(1..n) /\ Len(<<>>) = 0
  BY EmptySeq
<1>2. <<n + 1>> \in Seq(Nat) /\ <<n + 1>> \in Seq(1..(n + 1)) /\ Len(<<n + 1>>) = 1
  OBVIOUS
<1> QED BY <1>1, <1>2 DEF Trace, AnyTrace, Numbered

\* A debug trace comes after what is merged.
LEMMA AddsDebug ==
  ASSUME NEW s, NEW m, NEW q, NEW N, Sound(s, m, q, N)
  PROVE  LET u == Append(s, Trace("debug", <<>>, 1)) IN
         /\ Sound(u, m, q, N) /\ Count(u) = Count(s) /\ u # <<>>
         /\ Merge(u) # <<>> /\ Last(Merge(u)).kind = "debug"
<1> DEFINE t == Trace("debug", <<>>, 1)
           u == Append(s, t)
           n == Count(s)
<1>1. s \in Seq(AnyTrace) /\ n \in Nat /\ Merge(s) \in Seq(Numbered(n))
      /\ Merge(s) \in Seq(AnyTrace)
  BY CountType, NumberedGrows DEF Sound
<1>2. t \in Numbered(n) /\ t \in AnyTrace /\ Len(t.said) = 0 /\ t.kind = "debug"
  BY <1>1, TracesOfTurn DEF Kinds
<1> HIDE DEF t
<1>3. u \in Seq(AnyTrace) /\ u # <<>> /\ Count(u) = n
  <2>1. Count(Append(s, t)) = Count(s) + Len(t.said)
    BY <1>1, <1>2, CountAppend
  <2>2. Append(s, t) \in Seq(AnyTrace) /\ Append(s, t) # <<>> /\ Last(Append(s, t)) = t
    BY <1>1, <1>2, LastAppend, AppendProperties
  <2> QED BY <1>1, <1>2, <2>1, <2>2
<1>4. Merge(u) = MergeOne(Merge(s), t)
  BY <1>1, <1>2, MergeAppend
<1>5. Keeps(Merge(s), Merge(u)) /\ Merge(u) = Append(Merge(s), t) /\ Last(Merge(u)) = t
      /\ Spoke(Merge(u)) = Spoke(Merge(s))
  BY <1>1, <1>2, <1>4, AddTrace
<1>6. Merge(u) \in Seq(Numbered(n))
  BY <1>1, <1>2, <1>5, AppendProperties
<1>7. InOrder(KindsOf(u))
  BY <1>1, <1>2, OrderedAppend DEF Sound
<1>8. Sound(u, m, q, N)
  BY <1>3, <1>5, <1>6, <1>7 DEF Sound, Keeps
<1> QED BY <1>2, <1>3, <1>5, <1>8 DEF t, Keeps

\* The first piece of a completion.
LEMMA AddsStart ==
  ASSUME NEW s, NEW m, NEW q, NEW N, Sound(s, m, q, N)
  PROVE  LET u == Append(s, Trace("start", <<Count(s) + 1>>, 1)) IN
         /\ Sound(u, m, q, N) /\ Count(u) = Count(s) + 1 /\ u # <<>> /\ Last(u).kind = "start"
         /\ Merge(u) # <<>> /\ Last(Merge(u)).kind = "start"
         /\ Last(Merge(u)).said = <<Count(s) + 1>>
<1> DEFINE n == Count(s)
           t == Trace("start", <<n + 1>>, 1)
           u == Append(s, t)
<1>1. s \in Seq(AnyTrace) /\ n \in Nat /\ Merge(s) \in Seq(Numbered(n))
      /\ Merge(s) \in Seq(Numbered(n + 1)) /\ Merge(s) \in Seq(AnyTrace)
  <2>1. s \in Seq(AnyTrace) /\ n \in Nat /\ Merge(s) \in Seq(Numbered(n))
    BY CountType DEF Sound
  <2>2. n + 1 \in Nat /\ n <= n + 1
    BY <2>1
  <2> HIDE DEF n
  <2> QED BY <2>1, <2>2, NumberedGrows
<1>2. t \in Numbered(n + 1) /\ t \in AnyTrace /\ Len(t.said) = 1 /\ t.kind = "start"
      /\ t.said = <<n + 1>>
  BY <1>1, TracesOfTurn DEF Kinds, Pieces
<1> HIDE DEF t
<1>3. u \in Seq(AnyTrace) /\ u # <<>> /\ Count(u) = n + 1 /\ Last(u) = t
  <2>1. Count(Append(s, t)) = Count(s) + Len(t.said)
    BY <1>1, <1>2, CountAppend
  <2>2. Append(s, t) \in Seq(AnyTrace) /\ Append(s, t) # <<>> /\ Last(Append(s, t)) = t
    BY <1>1, <1>2, LastAppend, AppendProperties
  <2> QED BY <1>1, <1>2, <2>1, <2>2
<1>4. Merge(u) = MergeOne(Merge(s), t)
  BY <1>1, <1>2, MergeAppend
<1>5. Keeps(Merge(s), Merge(u)) /\ Merge(u) = Append(Merge(s), t) /\ Last(Merge(u)) = t
      /\ Spoke(Merge(u)) = Spoke(Merge(s))
  BY <1>1, <1>2, <1>4, AddTrace
<1>6. Merge(u) \in Seq(Numbered(n + 1))
  BY <1>1, <1>2, <1>5, AppendProperties
<1>7. InOrder(KindsOf(u))
  BY <1>1, <1>2, OrderedAppend DEF Sound
<1>8. N \in SUBSET (1..(n + 1))
  BY <1>1 DEF Sound
<1>9. Sound(u, m, q, N)
  <2> HIDE DEF u
  <2> QED BY <1>3, <1>5, <1>6, <1>7, <1>8 DEF Sound, Keeps
<1> QED BY <1>2, <1>3, <1>5, <1>9 DEF t, Keeps

\* A further piece of a completion that has started.
LEMMA AddsMore ==
  ASSUME NEW s, NEW m, NEW q, NEW N, Sound(s, m, q, N), s # <<>>, Last(s).kind \in {"start",
         "more"},
         Merge(s) # <<>>, Last(Merge(s)).kind = "start"
  PROVE  LET u == Append(s, Trace("more", <<Count(s) + 1>>, 1)) IN
         /\ Sound(u, m, q, N) /\ Count(u) = Count(s) + 1 /\ u # <<>> /\ Last(u).kind = "more"
         /\ Merge(u) # <<>> /\ Last(Merge(u)).kind = "start"
         /\ Last(Merge(u)).said = Last(Merge(s)).said \o <<Count(s) + 1>>
<1> DEFINE n == Count(s)
           t == Trace("more", <<n + 1>>, 1)
           u == Append(s, t)
<1>1. s \in Seq(AnyTrace) /\ n \in Nat /\ Merge(s) \in Seq(Numbered(n))
      /\ Merge(s) \in Seq(Numbered(n + 1)) /\ Merge(s) \in Seq(AnyTrace)
  <2>1. s \in Seq(AnyTrace) /\ n \in Nat /\ Merge(s) \in Seq(Numbered(n))
    BY CountType DEF Sound
  <2>2. n + 1 \in Nat /\ n <= n + 1
    BY <2>1
  <2> HIDE DEF n
  <2> QED BY <2>1, <2>2, NumberedGrows
<1>2. t \in Numbered(n + 1) /\ t \in AnyTrace /\ Len(t.said) = 1 /\ t.kind = "more"
      /\ t.said = <<n + 1>>
  BY <1>1, TracesOfTurn DEF Kinds, Pieces
<1> HIDE DEF t
<1>3. u \in Seq(AnyTrace) /\ u # <<>> /\ Count(u) = n + 1 /\ Last(u) = t
  <2>1. Count(Append(s, t)) = Count(s) + Len(t.said)
    BY <1>1, <1>2, CountAppend
  <2>2. Append(s, t) \in Seq(AnyTrace) /\ Append(s, t) # <<>> /\ Last(Append(s, t)) = t
    BY <1>1, <1>2, LastAppend, AppendProperties
  <2> QED BY <1>1, <1>2, <2>1, <2>2
<1>4. Merge(u) = MergeOne(Merge(s), t)
  BY <1>1, <1>2, MergeAppend
<1>5. /\ Keeps(Merge(s), Merge(u)) /\ Spoke(Merge(u)) = Spoke(Merge(s))
      /\ Last(Merge(u)).kind = "start" /\ Last(Merge(u)).said = Last(Merge(s)).said \o t.said
      /\ \A k \in Nat : Merge(s) \in Seq(Numbered(k)) /\ t \in Numbered(k) => Merge(u) \in Seq(Numbered(k))
  BY <1>1, <1>2, <1>4, AddMore
<1>6. Merge(u) \in Seq(Numbered(n + 1))
  BY <1>1, <1>2, <1>5
<1>7. InOrder(KindsOf(u))
  BY <1>1, <1>2, OrderedAppend DEF Sound
<1>8. N \in SUBSET (1..(n + 1))
  BY <1>1 DEF Sound
<1>9. Sound(u, m, q, N)
  <2> HIDE DEF u
  <2> QED BY <1>3, <1>5, <1>6, <1>7, <1>8 DEF Sound, Keeps
<1> QED BY <1>2, <1>3, <1>5, <1>9 DEF t, Keeps

\* Speech with the next piece: remembered, or a notice.
LEMMA AddsSpeech ==
  ASSUME NEW s, NEW m, NEW q, NEW N, Sound(s, m, q, N)
  PROVE  LET u == Append(s, Trace("speech", <<Count(s) + 1>>, 1)) IN
         /\ Sound(u, Append(m, Count(s) + 1), q, N)
         /\ Sound(u, m, q, N \cup {Count(s) + 1})
<1> DEFINE n == Count(s)
           t == Trace("speech", <<n + 1>>, 1)
           u == Append(s, t)
<1>1. s \in Seq(AnyTrace) /\ n \in Nat /\ Merge(s) \in Seq(Numbered(n))
      /\ Merge(s) \in Seq(Numbered(n + 1)) /\ Merge(s) \in Seq(AnyTrace)
  <2>1. s \in Seq(AnyTrace) /\ n \in Nat /\ Merge(s) \in Seq(Numbered(n))
    BY CountType DEF Sound
  <2>2. n + 1 \in Nat /\ n <= n + 1
    BY <2>1
  <2> HIDE DEF n
  <2> QED BY <2>1, <2>2, NumberedGrows
<1>2. t \in Numbered(n + 1) /\ t \in AnyTrace /\ Len(t.said) = 1 /\ t.kind = "speech"
      /\ t.said = <<n + 1>>
  BY <1>1, TracesOfTurn DEF Kinds, Pieces
<1> HIDE DEF t
<1>3. u \in Seq(AnyTrace) /\ u # <<>> /\ Count(u) = n + 1
  <2>1. Count(Append(s, t)) = Count(s) + Len(t.said)
    BY <1>1, <1>2, CountAppend
  <2>2. Append(s, t) \in Seq(AnyTrace) /\ Append(s, t) # <<>> /\ Last(Append(s, t)) = t
    BY <1>1, <1>2, LastAppend, AppendProperties
  <2> QED BY <1>1, <1>2, <2>1, <2>2
<1>4. Merge(u) = MergeOne(Merge(s), t)
  BY <1>1, <1>2, MergeAppend
<1>5. Keeps(Merge(s), Merge(u)) /\ Merge(u) = Append(Merge(s), t)
      /\ Spoke(Merge(u)) = Spoke(Merge(s)) \o <<n + 1>>
  <2>1. t.kind \notin {"more", "last"} /\ t.kind = "speech"
    BY <1>2
  <2> HIDE DEF n, u
  <2>2. /\ Keeps(Merge(s), MergeOne(Merge(s), t)) /\ MergeOne(Merge(s), t) = Append(Merge(s), t)
        /\ Spoke(MergeOne(Merge(s), t)) = Spoke(Merge(s)) \o t.said
    BY <1>1, <1>2, <2>1, AddTrace
  <2> QED BY <1>2, <1>4, <2>2
<1>6. Merge(u) \in Seq(Numbered(n + 1))
  BY <1>1, <1>2, <1>5, AppendProperties
<1>7. InOrder(KindsOf(u))
  BY <1>1, <1>2, OrderedAppend DEF Sound
<1>8. N \in SUBSET (1..n) /\ N \in SUBSET (1..(n + 1)) /\ N \cup {n + 1} \in SUBSET (1..(n + 1))
  <2>1. N \in SUBSET (1..n)
    BY DEF Sound
  <2>2. n \in Nat
    BY <1>1
  <2> HIDE DEF n
  <2> QED BY <2>1, <2>2
<1>9. Spoke(Merge(s)) \in Seq(1..n) /\ Spoke(Merge(s)) \in Seq(Nat)
  BY <1>1, SpokeIn, SpokeType
<1>10. Only(Spoke(Merge(u)), Nat \ (N \cup {n + 1})) = m
  <2> HIDE DEF n, u
  <2>1. Only(Spoke(Merge(s)) \o <<n + 1>>, Nat \ (N \cup {n + 1})) = Only(Spoke(Merge(s)), Nat \ N)
    BY <1>1, <1>8, <1>9, ForgetNotice
  <2>2. Only(Spoke(Merge(s)), Nat \ N) = m
    BY DEF Sound
  <2> QED BY <1>5, <2>1, <2>2
<1>11. Only(Spoke(Merge(u)), Nat \ N) = Append(m, n + 1)
  <2>1. n + 1 \in Nat \ N
    BY <1>1, <1>8
  <2>2. <<n + 1>> \in Seq(Nat \ N)
    BY <2>1
  <2>3. Only(Spoke(Merge(s)) \o <<n + 1>>, Nat \ N) = Only(Spoke(Merge(s)), Nat \ N) \o <<n + 1>>
    <3> HIDE DEF n
    <3> QED BY <1>9, <2>2, RememberMore
  <2>4. Append(m, n + 1) = m \o <<n + 1>>
    <3> DEFINE V == Nat
               R == Nat \ N
               x == n + 1
    <3>1. m = Only(Spoke(Merge(s)), R) /\ Spoke(Merge(s)) \in Seq(V) /\ x \in V
      BY <1>9, <2>1 DEF Sound
    <3> HIDE DEF V, R, x
    <3>2. m \in Seq(V \cap R)
      BY <3>1, OnlyType
    <3>3. m \in Seq(V)
      BY <3>2, SeqMonotonic
    <3>4. Append(m, x) = m \o <<x>>
      BY <3>1, <3>3, AppendIsConcat
    <3> QED BY <3>4 DEF x
  <2> QED BY <1>5, <2>3, <2>4 DEF Sound
<1> HIDE DEF u
<1>12. Sound(u, Append(m, n + 1), q, N)
  BY <1>3, <1>5, <1>6, <1>7, <1>8, <1>11 DEF Sound, Keeps
<1>13. Sound(u, m, q, N \cup {n + 1})
  BY <1>3, <1>5, <1>6, <1>7, <1>8, <1>10 DEF Sound, Keeps
<1> QED BY <1>12, <1>13 DEF u, t

\* The end of a completion, of which h was heard, or nothing.
LEMMA AddsLast ==
  ASSUME NEW s, NEW m, NEW q, NEW N, Sound(s, m, q, N), s # <<>>, Merge(s) # <<>>
  PROVE  LET u == Append(s, Trace("last", <<>>, 1))
             h == Last(Merge(s)).said
         IN
         /\ Last(Merge(s)).kind = "start" /\ h \in Seq(Nat \ N) => Sound(u, m \o h, h, N)
         /\ Last(Merge(s)).kind # "start" => Sound(u, m, q, N)
<1> DEFINE n == Count(s)
           t == Trace("last", <<>>, 1)
           u == Append(s, t)
           h == Last(Merge(s)).said
<1>1. s \in Seq(AnyTrace) /\ n \in Nat /\ Merge(s) \in Seq(Numbered(n))
      /\ Merge(s) \in Seq(AnyTrace)
  BY CountType, NumberedGrows DEF Sound
<1>2. t \in Numbered(n) /\ t \in AnyTrace /\ Len(t.said) = 0 /\ t.kind = "last"
  BY <1>1, TracesOfTurn DEF Kinds, Pieces
<1> HIDE DEF t
<1>3. u \in Seq(AnyTrace) /\ u # <<>> /\ Count(u) = n
  <2>1. Count(Append(s, t)) = Count(s) + Len(t.said)
    BY <1>1, <1>2, CountAppend
  <2>2. Append(s, t) \in Seq(AnyTrace) /\ Append(s, t) # <<>> /\ Last(Append(s, t)) = t
    BY <1>1, <1>2, LastAppend, AppendProperties
  <2> QED BY <1>1, <1>2, <2>1, <2>2
<1>4. Merge(u) = MergeOne(Merge(s), t)
  BY <1>1, <1>2, MergeAppend
<1>5. InOrder(KindsOf(u))
  BY <1>1, <1>2, OrderedAppend DEF Sound
<1>6. ASSUME Last(Merge(s)).kind = "start", h \in Seq(Nat \ N) PROVE Sound(u, m \o h, h, N)
  <2>1. /\ Keeps(Merge(s), Merge(u)) /\ Spoke(Merge(u)) = Spoke(Merge(s)) \o h
        /\ Has(Merge(u), Says(h)) /\ Merge(u) \in Seq(Numbered(n))
    BY <1>1, <1>2, <1>4, <1>6, AddLast
  <2>2. Spoke(Merge(s)) \in Seq(Nat)
    BY <1>1, SpokeType
  <2>3. h \in Seq(Nat)
    <3>1. Nat \ N \subseteq Nat
      OBVIOUS
    <3> QED BY <1>6, <3>1, SeqMonotonic
  <2>4. Only(Spoke(Merge(u)), Nat \ N) = m \o h
    <3> HIDE DEF h
    <3>1. Only(Spoke(Merge(s)) \o h, Nat \ N) = Only(Spoke(Merge(s)), Nat \ N) \o h
      BY <1>6, <2>2, RememberMore
    <3> QED BY <2>1, <3>1 DEF Sound
  <2> HIDE DEF u, h
  <2> QED BY <1>3, <1>5, <2>1, <2>3, <2>4 DEF Sound
<1>7. ASSUME Last(Merge(s)).kind # "start" PROVE Sound(u, m, q, N)
  <2>1. Merge(u) = Merge(s)
    BY <1>1, <1>2, <1>4, <1>7, AddLastToNone
  <2> HIDE DEF u
  <2> QED BY <1>3, <1>5, <2>1 DEF Sound
<1> QED BY <1>6, <1>7 DEF t

-----------------------------------------------------------------------------
\* The steps of a turn, and the theorems of AiResponse.

\* Two traces, or three alike and another, added one by one.
LEMMA PutTwo ==
  ASSUME NEW E, NEW s \in Seq(E), NEW a \in E, NEW b \in E
  PROVE  s \o <<a, b>> = Append(Append(s, a), b)
<1> DEFINE p == <<a, b>>
           q == Append(<<a>>, b)
<1>1. <<a>> \in Seq(E) /\ Len(<<a>>) = 1 /\ <<a>>[1] = a
  OBVIOUS
<1>2. q \in Seq(E) /\ Len(q) = 2 /\ q[1] = a /\ q[2] = b
  <2>1. \A o \in Seq(E), x \in E :
           /\ Append(o, x) \in Seq(E) /\ Len(Append(o, x)) = Len(o) + 1
           /\ Append(o, x)[Len(o) + 1] = x
           /\ \A i \in 1..Len(o) : Append(o, x)[i] = o[i]
    BY AppendProperties
  <2>2. /\ Append(<<a>>, b) \in Seq(E) /\ Len(Append(<<a>>, b)) = 1 + 1
        /\ Append(<<a>>, b)[1 + 1] = b
        /\ \A i \in 1..1 : Append(<<a>>, b)[i] = <<a>>[i]
    BY <1>1, <2>1
  <2>3. 1 \in 1..1 /\ 1 + 1 = 2
    OBVIOUS
  <2> QED BY <1>1, <2>2, <2>3
<1>3. p \in Seq(E) /\ Len(p) = 2 /\ p[1] = a /\ p[2] = b
  OBVIOUS
<1>4. p = q
  <2> HIDE DEF p, q
  <2> QED BY <1>2, <1>3, SeqEqual
<1>5. s \o q = Append(s \o <<a>>, b)
  BY <1>1, ConcatAppend
<1>6. s \o <<a>> = Append(s, a)
  BY AppendIsConcat
<1> QED BY <1>4, <1>5, <1>6

LEMMA PutThrice ==
  ASSUME NEW E, NEW s \in Seq(E), NEW a \in E, NEW b \in E
  PROVE  s \o [i \in 1..3 |-> a] \o <<b>> = Append(Append(Append(Append(s, a), a), a), b)
<1> DEFINE r == [i \in 1..3 |-> a]
           p == Append(<<a, a>>, a)
<1>1. <<a, a>> \in Seq(E) /\ Len(<<a, a>>) = 2 /\ <<a, a>>[1] = a /\ <<a, a>>[2] = a
  OBVIOUS
<1>2. r \in Seq(E) /\ Len(r) = 3 /\ \A i \in 1..3 : r[i] = a
  <2>1. r \in Seq(E)
    OBVIOUS
  <2>2. DOMAIN r = 1..Len(r) /\ DOMAIN r = 1..3 /\ Len(r) \in Nat
    BY <2>1, LenProperties
  <2> QED BY <2>1, <2>2
<1>3. r = p
  <2>1. p \in Seq(E) /\ Len(p) = 3 /\ (\A i \in 1..2 : p[i] = <<a, a>>[i]) /\ p[3] = a
    BY <1>1, AppendProperties
  <2>2. \A i \in 1..3 : p[i] = a
    <3>1. \A i \in 1..3 : i \in 1..2 \/ i = 3
      OBVIOUS
    <3>2. \A i \in 1..2 : <<a, a>>[i] = a
      OBVIOUS
    <3> QED BY <2>1, <3>1, <3>2
  <2> HIDE DEF r, p
  <2> QED BY <1>2, <2>1, <2>2, SeqEqual
<1>4. s \o Append(<<a, a>>, a) = Append(s \o <<a, a>>, a)
  BY <1>1, ConcatAppend
<1>5. s \o <<a, a>> = Append(Append(s, a), a)
  BY PutTwo
<1>6. s \o r \in Seq(E)
  <2> HIDE DEF r
  <2> QED BY <1>2, ConcatProperties
<1>7. (s \o r) \o <<b>> = Append(s \o r, b)
  <2> HIDE DEF r
  <2> QED BY <1>6, AppendIsConcat
<1> QED BY <1>3, <1>4, <1>5, <1>7

\* What the node at hand has been heard to say is the last of the traces.
Going ==
  /\ items \in Seq((0..Count(traced)) \ notices)
  /\ traced # <<>> /\ Merge(traced) # <<>>
  /\ Heard = <<>> => Last(Merge(traced)).kind = "debug"
  /\ Heard # <<>> => /\ Last(Merge(traced)).kind = "start" /\ Last(Merge(traced)).said = Heard
                     /\ stage = "open" => Last(traced).kind \in {"start", "more"}

\* The inductive invariant of a turn: until the traces are merged what is
\* remembered is what the merge would make of them, all but the notices.
TurnInv ==
  /\ stage \in {"next", "open", "closed", "asked", "counted", "stuck", "over", "merged"}
  /\ stage # "merged" => Sound(traced, memory, output, notices)
  /\ stage \in {"open", "closed"} => Going
  /\ SpokenIsRemembered

\* The traces a turn adds are traces.
LEMMA Block ==
  /\ Trace("debug", <<>>, 1) \in AnyTrace /\ Trace("last", <<>>, 1) \in AnyTrace
  /\ \A n \in Nat : /\ Trace("speech", <<n + 1>>, 1) \in AnyTrace
                    /\ Trace("start", <<n + 1>>, 1) \in AnyTrace
                    /\ Trace("more", <<n + 1>>, 1) \in AnyTrace
<1>1. {"debug", "last", "speech", "start", "more"} \subseteq Kinds /\ 0 \in Nat
  BY DEF Kinds, Pieces
<1> QED BY <1>1, TracesOfTurn

\* The number of the next piece.
LEMMA Piece ==
  ASSUME Sound(traced, memory, output, notices)
  PROVE  NextPiece = Count(traced) + 1 /\ Count(traced) \in Nat /\ traced \in Seq(AnyTrace)
BY CountType DEF NextPiece, Count, Sound

\* An item without output is not heard.
LEMMA HeardSilent ==
  ASSUME NEW n \in Nat, NEW N \in SUBSET (1..n), NEW s \in Seq((0..n) \ N)
  PROVE  /\ Only(s, Nat \ {SILENT}) \in Seq(Nat \ N)
         /\ Append(s, SILENT) \in Seq((0..n) \ N)
         /\ Only(Append(s, SILENT), Nat \ {SILENT}) = Only(s, Nat \ {SILENT})
<1> DEFINE E == (0..n) \ N
           R == Nat \ {SILENT}
           V == Nat \ N
<1>1. SILENT \in E /\ SILENT \notin R /\ E \cap R \subseteq V
  BY DEF SILENT
<1> HIDE DEF E, R, V
<1>2. s \in Seq(E)
  BY DEF E
<1>3. Only(s, R) \in Seq(E \cap R)
  BY <1>2, OnlyType
<1>4. Only(s, R) \in Seq(V)
  BY <1>1, <1>3, SeqMonotonic
<1>5. Append(s, SILENT) \in Seq(E) /\ Only(Append(s, SILENT), R) = Only(s, R)
  BY <1>1, <1>2, AppendProperties, OnlyAppend
<1> QED BY <1>4, <1>5 DEF E, R, V

\* The next piece is heard.
LEMMA HeardNext ==
  ASSUME NEW n \in Nat, NEW N \in SUBSET (1..n), NEW s \in Seq((0..n) \ N)
  PROVE  /\ Append(s, n + 1) \in Seq((0..(n + 1)) \ N)
         /\ Only(Append(s, n + 1), Nat \ {SILENT}) = Only(s, Nat \ {SILENT}) \o <<n + 1>>
<1> DEFINE E == (0..n) \ N
           F == (0..(n + 1)) \ N
           R == Nat \ {SILENT}
           x == n + 1
<1>1. E \subseteq F /\ x \in F /\ x \in R
  BY DEF SILENT
<1> HIDE DEF E, F, R, x
<1>2. s \in Seq(F)
  <2>1. s \in Seq(E)
    BY DEF E
  <2> QED BY <1>1, <2>1, SeqMonotonic
<1>3. Append(s, x) \in Seq(F) /\ Only(Append(s, x), R) = Append(Only(s, R), x)
  BY <1>1, <1>2, AppendProperties, OnlyAppend
<1>4. Only(s, R) \in Seq(F)
  <2>1. Only(s, R) \in Seq(F \cap R)
    BY <1>2, OnlyType
  <2>2. F \cap R \subseteq F
    OBVIOUS
  <2> QED BY <2>1, <2>2, SeqMonotonic
<1>5. Append(Only(s, R), x) = Only(s, R) \o <<x>>
  BY <1>1, <1>4, AppendIsConcat
<1> QED BY <1>3, <1>5 DEF F, R, x

\* One lemma for each step of a turn.
LEMMA BeginKeeps ==
  ASSUME TurnInv, NEW source \in {"gateway", "nothing", "refusal"}, Begin(source)
  PROVE  TurnInv'
<1> DEFINE d == Trace("debug", <<>>, 1)
           u == Append(traced, d)
           n == Count(traced)
<1>1. /\ Sound(traced, memory, output, notices) /\ UNCHANGED <<memory, output, notices>>
      /\ stage' = IF source = "gateway" THEN "open" ELSE "closed"
  BY DEF TurnInv, Begin
<1>2. NextPiece = n + 1 /\ n \in Nat /\ traced \in Seq(AnyTrace) /\ notices \in SUBSET (1..n)
  BY <1>1, Piece DEF Sound
<1>3. /\ Sound(u, memory, output, notices) /\ Count(u) = n /\ u # <<>>
      /\ Merge(u) # <<>> /\ Last(Merge(u)).kind = "debug"
  BY <1>1, AddsDebug
<1>4. CASE source \in {"gateway", "nothing"}
  <2>1. traced' = u /\ items' = IF source = "gateway" THEN <<>> ELSE <<SILENT>>
    BY <1>4 DEF Begin
  <2>2. items' \in Seq((0..n) \ notices) /\ Only(items', Nat \ {SILENT}) = <<>>
    <3>1. <<>> \in Seq((0..n) \ notices) /\ Only(<<>>, Nat \ {SILENT}) = <<>>
      BY EmptySeq, OnlyEmpty
    <3>2. Append(<<>>, SILENT) = <<SILENT>>
      OBVIOUS
    <3> HIDE DEF n
    <3>3. Append(<<>>, SILENT) \in Seq((0..n) \ notices)
          /\ Only(Append(<<>>, SILENT), Nat \ {SILENT}) = <<>>
      BY <1>2, <3>1, HeardSilent
    <3> QED BY <2>1, <3>1, <3>2, <3>3
  <2>3. Going'
    <3> HIDE DEF u
    <3> QED BY <1>1, <1>3, <2>1, <2>2 DEF Going, Heard, Count
  <2> HIDE DEF u
  <2> QED BY <1>1, <1>3, <2>1, <2>3 DEF TurnInv, SpokenIsRemembered
<1>5. CASE source = "refusal"
  <2> DEFINE t == Trace("start", <<n + 1>>, 1)
             w == Append(u, t)
  <2>1. traced' = traced \o <<d, t>> /\ items' = <<n + 1>>
    BY <1>2, <1>5 DEF Begin
  <2>2. traced' = w
    <3>1. d \in AnyTrace /\ t \in AnyTrace
      BY <1>2, Block
    <3> HIDE DEF d, t
    <3> QED BY <1>2, <2>1, <3>1, PutTwo
  <2>3. /\ Sound(w, memory, output, notices) /\ Count(w) = n + 1 /\ w # <<>>
        /\ Last(w).kind = "start"
        /\ Merge(w) # <<>> /\ Last(Merge(w)).kind = "start" /\ Last(Merge(w)).said = <<n + 1>>
    <3> HIDE DEF u
    <3> QED BY <1>3, AddsStart
  <2>4. items' \in Seq((0..(n + 1)) \ notices) /\ Only(items', Nat \ {SILENT}) = <<n + 1>>
    <3>1. <<>> \in Seq((0..n) \ notices) /\ Only(<<>>, Nat \ {SILENT}) = <<>>
      BY EmptySeq, OnlyEmpty
    <3>2. Append(<<>>, n + 1) = <<n + 1>> /\ <<>> \o <<n + 1>> = <<n + 1>>
      OBVIOUS
    <3> HIDE DEF n
    <3>3. Append(<<>>, n + 1) \in Seq((0..(n + 1)) \ notices)
          /\ Only(Append(<<>>, n + 1), Nat \ {SILENT}) = <<>> \o <<n + 1>>
      BY <1>2, <3>1, HeardNext
    <3> QED BY <2>1, <3>2, <3>3
  <2>5. <<n + 1>> # <<>>
    OBVIOUS
  <2>6. Going'
    <3> HIDE DEF w, u
    <3> QED BY <1>1, <2>2, <2>3, <2>4, <2>5 DEF Going, Heard, Count
  <2> HIDE DEF w, u
  <2> QED BY <1>1, <1>5, <2>2, <2>3, <2>6 DEF TurnInv, SpokenIsRemembered
<1> QED BY <1>4, <1>5

LEMMA ItemKeeps ==
  ASSUME TurnInv, NEW piece \in BOOLEAN, Item(piece)
  PROVE  TurnInv'
<1> DEFINE n == Count(traced)
<1>1. /\ Sound(traced, memory, output, notices) /\ UNCHANGED <<memory, output, notices, stage>>
      /\ stage = "open" /\ Going
  BY DEF TurnInv, Item
<1>2. NextPiece = n + 1 /\ n \in Nat /\ traced \in Seq(AnyTrace) /\ notices \in SUBSET (1..n)
      /\ items \in Seq((0..n) \ notices)
  BY <1>1, Piece DEF Sound, Going
<1>3. CASE ~piece
  <2>1. items' = Append(items, SILENT) /\ UNCHANGED traced
    BY <1>3 DEF Item
  <2>2. items' \in Seq((0..n) \ notices) /\ Only(items', Nat \ {SILENT}) = Heard
    <3> HIDE DEF n
    <3> QED BY <1>2, <2>1, HeardSilent DEF Heard
  <2>3. Going'
    BY <1>1, <2>1, <2>2 DEF Going, Heard, Count
  <2> QED BY <1>1, <2>1, <2>3 DEF TurnInv, SpokenIsRemembered
<1>4. CASE piece
  <2>1. items' = Append(items, n + 1)
    BY <1>2, <1>4 DEF Item
  <2>2. items' \in Seq((0..(n + 1)) \ notices)
        /\ Only(items', Nat \ {SILENT}) = Heard \o <<n + 1>>
    <3> HIDE DEF n
    <3> QED BY <1>2, <2>1, HeardNext DEF Heard
  <2>a. Heard \in Seq(Nat)
    <3>1. Heard \in Seq(Nat \ notices)
      <4> HIDE DEF n
      <4> QED BY <1>2, HeardSilent DEF Heard
    <3> QED BY <3>1, SeqMonotonic
  <2>b. Heard \o <<n + 1>> # <<>>
    <3>1. <<n + 1>> \in Seq(Nat) /\ Len(<<n + 1>>) = 1
      BY <1>2
    <3>2. Len(Heard \o <<n + 1>>) = Len(Heard) + 1 /\ Len(Heard) \in Nat
      BY <2>a, <3>1, ConcatProperties, LenProperties
    <3> QED BY <3>2, EmptySeq
  <2>3. CASE Heard = <<>>
    <3> DEFINE w == Append(traced, Trace("start", <<n + 1>>, 1))
    <3>1. traced' = w
      BY <1>2, <1>4, <2>3 DEF Item
    <3>2. /\ Sound(w, memory, output, notices) /\ Count(w) = n + 1 /\ w # <<>>
          /\ Last(w).kind = "start"
          /\ Merge(w) # <<>> /\ Last(Merge(w)).kind = "start" /\ Last(Merge(w)).said = <<n + 1>>
      BY <1>1, AddsStart
    <3>3. Heard \o <<n + 1>> = <<n + 1>>
      BY <2>3
    <3> HIDE DEF w
    <3>4. Going'
      BY <1>1, <2>2, <2>b, <3>1, <3>2, <3>3 DEF Going, Heard, Count
    <3> QED BY <1>1, <3>1, <3>2, <3>4 DEF TurnInv, SpokenIsRemembered
  <2>4. CASE Heard # <<>>
    <3> DEFINE w == Append(traced, Trace("more", <<n + 1>>, 1))
    <3>1. traced' = w
      BY <1>2, <1>4, <2>4 DEF Item
    <3>2. /\ Sound(w, memory, output, notices) /\ Count(w) = n + 1 /\ w # <<>>
          /\ Last(w).kind = "more"
          /\ Merge(w) # <<>> /\ Last(Merge(w)).kind = "start"
          /\ Last(Merge(w)).said = Heard \o <<n + 1>>
      <4>1. /\ traced # <<>> /\ Last(traced).kind \in {"start", "more"}
            /\ Merge(traced) # <<>> /\ Last(Merge(traced)).kind = "start"
            /\ Last(Merge(traced)).said = Heard
        BY <1>1, <2>4 DEF Going
      <4> QED BY <1>1, <4>1, AddsMore
    <3> HIDE DEF w
    <3>4. Going'
      BY <1>1, <2>2, <2>b, <3>1, <3>2 DEF Going, Heard, Count
    <3> QED BY <1>1, <3>1, <3>2, <3>4 DEF TurnInv, SpokenIsRemembered
  <2> QED BY <2>3, <2>4
<1> QED BY <1>3, <1>4

LEMMA SettleKeeps ==
  ASSUME TurnInv, Settle
  PROVE  TurnInv'
<1> DEFINE l == Trace("last", <<>>, 1)
           d == Trace("debug", <<>>, 1)
           u == Append(traced, l)
           w == Append(u, d)
<1>1. /\ Sound(traced, memory, output, notices) /\ UNCHANGED <<items, notices>>
      /\ stage = "closed" /\ stage' = "next" /\ Going
  BY DEF TurnInv, Settle
<1>2. traced \in Seq(AnyTrace) /\ Count(traced) \in Nat /\ notices \in SUBSET (1..Count(traced))
  BY <1>1, Piece DEF Sound
<1>3. traced' = w
  <2>1. [i \in DOMAIN <<"last", "debug">> |-> Trace(<<"last", "debug">>[i], <<>>, 1)] = <<l, d>>
    OBVIOUS
  <2>2. traced' = traced \o <<l, d>>
    BY <2>1 DEF Settle, Add
  <2>3. l \in AnyTrace /\ d \in AnyTrace
    BY Block
  <2> HIDE DEF l, d
  <2> QED BY <1>2, <2>2, <2>3, PutTwo
<1>4. Heard \in Seq(Nat \ notices)
  <2> DEFINE n == Count(traced)
  <2>1. items \in Seq((0..n) \ notices) /\ n \in Nat /\ notices \in SUBSET (1..n)
    BY <1>1, <1>2 DEF Going
  <2> HIDE DEF n
  <2> QED BY <2>1, HeardSilent DEF Heard
<1>5. Sound(u, memory', output', notices)
  <2>1. CASE Heard = <<>>
    <3>1. Last(Merge(traced)).kind # "start" /\ traced # <<>> /\ Merge(traced) # <<>>
          /\ UNCHANGED <<memory, output>>
      BY <1>1, <2>1 DEF Going, Settle
    <3> QED BY <1>1, <3>1, AddsLast
  <2>2. CASE Heard # <<>>
    <3>1. /\ Last(Merge(traced)).kind = "start" /\ Last(Merge(traced)).said = Heard
          /\ traced # <<>> /\ Merge(traced) # <<>>
          /\ memory' = memory \o Heard /\ output' = Heard
      BY <1>1, <2>2 DEF Going, Settle
    <3> QED BY <1>1, <1>4, <3>1, AddsLast
  <2> QED BY <2>1, <2>2
<1>6. Sound(w, memory', output', notices)
  <2> HIDE DEF u
  <2> QED BY <1>5, AddsDebug
<1> HIDE DEF w
<1> QED BY <1>1, <1>3, <1>6 DEF TurnInv, SpokenIsRemembered

LEMMA BreakKeeps ==
  ASSUME TurnInv, Break
  PROVE  TurnInv'
<1> DEFINE n == Count(traced)
           t == Trace("speech", <<n + 1>>, 1)
           d == Trace("debug", <<>>, 1)
           u == Append(traced, t)
           w == Append(u, d)
<1>1. /\ Sound(traced, memory, output, notices) /\ UNCHANGED <<memory, output>>
      /\ stage' = "next"
  BY DEF TurnInv, Break
<1>2. NextPiece = n + 1 /\ n \in Nat /\ traced \in Seq(AnyTrace)
  BY <1>1, Piece
<1>3. traced' = w /\ notices' = notices \cup {n + 1}
  <2>1. traced' = traced \o <<t, d>> /\ notices' = notices \cup {n + 1}
    BY <1>2 DEF Break
  <2>2. t \in AnyTrace /\ d \in AnyTrace
    BY <1>2, Block
  <2> HIDE DEF t, d
  <2> QED BY <1>2, <2>1, <2>2, PutTwo
<1>4. Sound(u, memory, output, notices \cup {n + 1})
  BY <1>1, AddsSpeech
<1>5. Sound(w, memory, output, notices \cup {n + 1})
  <2> HIDE DEF u, n
  <2> QED BY <1>4, AddsDebug
<1> HIDE DEF w, n
<1> QED BY <1>1, <1>3, <1>5 DEF TurnInv, SpokenIsRemembered

\* One debug trace is added.
LEMMA AddsOne ==
  ASSUME Sound(traced, memory, output, notices), Add(<<"debug">>)
  PROVE  Sound(traced', memory, output, notices)
<1> DEFINE d == Trace("debug", <<>>, 1)
           u == Append(traced, d)
<1>1. traced' = u
  <2>1. [i \in DOMAIN <<"debug">> |-> Trace(<<"debug">>[i], <<>>, 1)] = <<d>>
    OBVIOUS
  <2>2. traced' = traced \o <<d>>
    BY <2>1 DEF Add
  <2>3. d \in AnyTrace /\ traced \in Seq(AnyTrace)
    BY Block, Piece
  <2> HIDE DEF d
  <2> QED BY <2>2, <2>3, AppendIsConcat
<1>2. Sound(u, memory, output, notices)
  BY AddsDebug
<1> HIDE DEF u
<1> QED BY <1>1, <1>2

LEMMA AskKnowledgeKeeps ==
  ASSUME TurnInv, AskKnowledge \/ CountTokens
  PROVE  TurnInv'
<1>1. /\ Sound(traced, memory, output, notices) /\ UNCHANGED <<memory, output, notices>>
      /\ Add(<<"debug">>) /\ stage' \in {"asked", "counted"}
  BY DEF TurnInv, AskKnowledge, CountTokens
<1>2. Sound(traced', memory, output, notices)
  BY <1>1, AddsOne
<1> QED BY <1>1, <1>2 DEF TurnInv, SpokenIsRemembered

LEMMA KnowledgeKeeps ==
  ASSUME TurnInv, NEW found \in BOOLEAN, AnswerKnowledge(found)
  PROVE  TurnInv'
<1> DEFINE n == Count(traced)
           d == Trace("debug", <<>>, 1)
           t == Trace("speech", <<n + 1>>, 1)
           a == Append(traced, d)
           w == Append(a, t)
<1>1. /\ Sound(traced, memory, output, notices) /\ UNCHANGED <<output, notices>>
      /\ stage' = "next"
  BY DEF TurnInv, AnswerKnowledge
<1>2. NextPiece = n + 1 /\ n \in Nat /\ traced \in Seq(AnyTrace)
  BY <1>1, Piece
<1>3. d \in AnyTrace /\ t \in AnyTrace
  BY <1>2, Block
<1>4. Sound(a, memory, output, notices) /\ Count(a) = n
  BY <1>1, AddsDebug
<1>5. CASE found
  <2>1. traced' = traced \o <<d, t>> /\ memory' = Append(memory, n + 1)
    BY <1>2, <1>5 DEF AnswerKnowledge
  <2>2. traced' = w
    <3>1. traced \in Seq(AnyTrace)
      BY <1>2
    <3> HIDE DEF d, t
    <3>2. traced \o <<d, t>> = w
      BY <1>3, <3>1, PutTwo
    <3> HIDE DEF a, w
    <3> QED BY <2>1, <3>2
  <2>3. Sound(w, memory', output, notices)
    <3> HIDE DEF a
    <3> QED BY <1>4, <2>1, AddsSpeech
  <2> HIDE DEF w
  <2> QED BY <1>1, <2>2, <2>3 DEF TurnInv, SpokenIsRemembered
<1>6. CASE ~found
  <2>1. UNCHANGED <<traced, memory>>
    BY <1>6 DEF AnswerKnowledge
  <2> QED BY <1>1, <2>1 DEF TurnInv, SpokenIsRemembered, Sound, Count, KindsOf, Spoke, Numbered, Has, Says
<1> QED BY <1>5, <1>6

LEMMA AbortKeeps ==
  ASSUME TurnInv, Abort
  PROVE  TurnInv'
<1>1. Sound(traced, memory, output, notices) /\ UNCHANGED <<memory, output, notices>>
      /\ Add(<<"debug">>) /\ stage' = "over"
  BY DEF TurnInv, Abort
<1>2. Sound(traced', memory, output, notices)
  BY <1>1, AddsOne
<1> QED BY <1>1, <1>2 DEF TurnInv, SpokenIsRemembered

LEMMA MergeTracesKeeps ==
  ASSUME TurnInv, MergeTraces
  PROVE  TurnInv'
<1>1. Sound(traced, memory, output, notices) /\ UNCHANGED <<memory, output, notices>>
      /\ stage' = "merged" /\ traced' = Merge(traced)
  BY DEF TurnInv, MergeTraces
<1> DEFINE m == Merge(traced)
           S == Of({"speech"})
<1>2. m \in Seq(AnyTrace)
  <2>1. m \in Seq(Numbered(Count(traced))) /\ Count(traced) \in Nat
    BY <1>1, Piece DEF Sound
  <2> QED BY <2>1, NumberedGrows
<1>3. Speech' = Only(m, S)
  BY <1>1 DEF Speech, OfKinds
<1>4. memory' = Only(Said(Speech'), Nat \ notices')
  BY <1>1, <1>3 DEF Sound, Spoke, OfKinds
<1>5. ASSUME output' # <<>> PROVE \E t \in ToSet(Speech') : t.said = output'
  <2>1. Has(m, Says(output))
    BY <1>1, <1>5 DEF Sound
  <2>2. S \cap Says(output) = Says(output)
    BY DEF Of, Says
  <2> HIDE DEF m, S
  <2>3. Has(Only(m, S), Says(output))
    BY <1>2, <2>1, <2>2, OnlyHas
  <2> QED BY <1>1, <1>3, <2>3 DEF Has, Says, ToSet
<1>6. SpokenIsRemembered'
  BY <1>4, <1>5 DEF SpokenIsRemembered
<1> QED BY <1>1, <1>6 DEF TurnInv

LEMMA TurnKeeps ==
  ASSUME TurnInv, [TurnNext]_turnVars
  PROVE  TurnInv'
<1>1. CASE Close
  <2>1. stage = "open" /\ stage' = "closed"
        /\ UNCHANGED <<items, traced, memory, output, notices>>
    BY <1>1 DEF Close
  <2> QED BY <2>1 DEF TurnInv, Going, Heard, SpokenIsRemembered, Sound, Count, KindsOf, Spoke,
     Numbered, Has, Says
<1>2. CASE Hang \/ Stop
  <2>1. stage # "merged" /\ stage' \in {"stuck", "over"}
        /\ UNCHANGED <<traced, memory, output, notices>>
    BY <1>2 DEF Hang, Stop
  <2> QED BY <2>1 DEF TurnInv, SpokenIsRemembered, Sound, Count, KindsOf, Spoke, Numbered, Has,
     Says
<1>3. CASE UNCHANGED turnVars
  BY <1>3 DEF turnVars, TurnInv, Going, Heard, SpokenIsRemembered, Speech, Sound, Count,
     KindsOf, Spoke, Numbered, Has, Says
<1> QED BY <1>1, <1>2, <1>3, BeginKeeps, ItemKeeps, SettleKeeps, BreakKeeps, AbortKeeps,
           AskKnowledgeKeeps, KnowledgeKeeps, MergeTracesKeeps DEF TurnNext, Turn

\* A turn starts with nothing traced.
LEMMA TurnStarts ==
  ASSUME TurnInit
  PROVE  TurnInv
<1>1. traced = <<>> /\ memory = <<>> /\ output = <<>> /\ notices = {} /\ stage = "next"
  BY DEF TurnInit
<1>2. <<>> \in Seq(AnyTrace) /\ <<>> \in Seq(Nat) /\ \A n : <<>> \in Seq(Numbered(n))
  BY EmptySeq
<1>3. InOrder(KindsOf(<<>>))
  BY EmptySeq DEF InOrder, KindsOf
<1>4. Spoke(<<>>) = <<>>
  BY OnlyEmpty, SaidEmpty DEF Spoke, OfKinds
<1>5. Sound(<<>>, <<>>, <<>>, {})
  BY <1>2, <1>3, <1>4, MergeEmpty, OnlyEmpty DEF Sound
<1> QED BY <1>1, <1>5 DEF TurnInv, SpokenIsRemembered

\* The invariant of a turn holds throughout, for any number of nodes and
\* items.
THEOREM TurnInductive == TurnSpec => []TurnInv
BY TurnStarts, TurnKeeps, PTL DEF TurnSpec

\* Once the traces are merged the assistant is remembered to have said what
\* the speech of the answer says, in order, but for the notices; what a repeat
\* says again is one whole speech of it (the AI response node, addOutputTrace
\* and MergeCompletion.handle).
THEOREM SpokenRemembered == TurnSpec => []SpokenIsRemembered
<1>1. TurnInv => SpokenIsRemembered
  BY DEF TurnInv
<1> QED BY <1>1, TurnInductive, PTL

\* The traces a turn of completions leaves are in the order that Interact
\* takes of the outputs of a runtime.
THEOREM TurnsInOrder == TurnSpec => [](stage = "over" => InOrder(KindsOf(traced)))
<1>1. TurnInv => (stage = "over" => InOrder(KindsOf(traced)))
  BY DEF TurnInv, Sound
<1> QED BY <1>1, TurnInductive, PTL

-----------------------------------------------------------------------------
\* Predictor: what the settings were passed through, and its theorems.

\* Predictor's stages.
Stages == {"closed", "nlu", "llm", "complete", "picked", "open", "predicted", "done", "stuck"}

\* What the settings have been passed through on the way to each phase.
WayHere ==
  /\ type \in {"nlu", "llm"} /\ asking \in Stages
  /\ asking = "closed" => type = "nlu"
  /\ asking \in {"closed", "nlu"} => nlu = NULL
  /\ asking = "nlu" /\ type = "nlu" => trained /\ "closed" \in missed
  /\ asking \in {"llm", "complete", "picked"} => type = "llm" /\ nlu \in Prediction
  /\ asking = "open" =>
       /\ type = "nlu" => "closed" \in missed
       /\ trained => nlu \in Prediction \/ "nlu" \in missed

Settled == WayHere /\ SlotsAreOfIntent /\ NoneIsLast

\* A prediction starts with nothing asked.
LEMMA ClassifierInit == PredictorInit => Settled
BY DEF PredictorInit, Settled, WayHere, Stages, SlotsAreOfIntent, NoneIsLast, Predicted

\* What is answered by a classifier that has matched.
LEMMA AnswerKeeps ==
  ASSUME Settled, NEW i, NEW s, NEW c \in Classifiers, Answer(i, s, c), s \subseteq SlotSet(i),
         UNCHANGED settings
  PROVE  Settled'
BY DEF Settled, WayHere, Stages, SlotsAreOfIntent, NoneIsLast, Predicted, Answer, Classifiers,
   settings

\* No intent is NULL.
LEMMA NullApart == NULL \notin Intents \cup {NONE, Stale}
BY PredictorAssumption

\* The service's prediction has slots of its intent.
LEMMA PredictionFits ==
  ASSUME NEW p \in Prediction
  PROVE  p.slots \subseteq SlotSet(p.intent)
BY DEF Prediction

\* Regular expressions: a match has slots of the intent that is matched.
LEMMA MatchesKeep ==
  ASSUME Settled, NEW i \in Intents, MatchClosed(i) \/ MatchOpen(i)
  PROVE  Settled'
<1>1. PICK s \in SUBSET SlotsOf[i] : \E c \in {"closed", "open"} : Answer(i, s, c)
  BY DEF MatchClosed, MatchOpen
<1>2. s \subseteq SlotSet(i)
  BY <1>1 DEF SlotSet
<1>3. UNCHANGED settings
  BY DEF MatchClosed, MatchOpen
<1> QED BY <1>1, <1>2, <1>3, AnswerKeeps DEF Classifiers

\* Regular expressions that match nothing: the next classifier is asked.
LEMMA MissesKeep ==
  ASSUME Settled, MissClosed \/ MissOpen
  PROVE  Settled'
<1>1. CASE MissClosed
  BY <1>1 DEF Settled, WayHere, Stages, SlotsAreOfIntent, NoneIsLast, Predicted, MissClosed,
     Miss, settings
<1>2. CASE MissOpen
  <2>1. WayHere'
    BY <1>2 DEF Settled, WayHere, Stages, MissOpen, Answer, settings
  <2>2. SlotsAreOfIntent'
    BY <1>2 DEF SlotsAreOfIntent, MissOpen, Answer
  <2>3. NoneIsLast'
    BY <1>2, NullAssumption DEF Settled, WayHere, NoneIsLast, Predicted, MissOpen, Answer,
       settings
  <2> QED BY <2>1, <2>2, <2>3 DEF Settled
<1> QED BY <1>1, <1>2

\* The service: asked last only if the model or expressions cannot be asked.
LEMMA ServiceKeeps ==
  ASSUME Settled, Untrained \/ PredictFails \/ \E p \in Prediction : Predict(p)
  PROVE  Settled'
<1>1. CASE Untrained
  BY <1>1 DEF Settled, WayHere, Stages, SlotsAreOfIntent, NoneIsLast, Predicted, Untrained,
     Answer, settings
<1>2. CASE PredictFails
  BY <1>2 DEF Settled, WayHere, Stages, SlotsAreOfIntent, NoneIsLast, Predicted, PredictFails,
     Answer, Miss,
              settings
<1>3. ASSUME NEW p \in Prediction, Predict(p)
      PROVE  Settled'
  <2>1. CASE type = "nlu" /\ p.sure
    <3>1. Answer(p.intent, p.slots, "nlu") /\ UNCHANGED settings
      BY <1>3, <2>1 DEF Predict
    <3> QED BY <3>1, PredictionFits, AnswerKeeps DEF Classifiers
  <2>2. CASE ~(type = "nlu" /\ p.sure)
    BY <1>3, <2>2 DEF Settled, WayHere, Stages, SlotsAreOfIntent, NoneIsLast, Predicted,
       Predict, Miss, settings
  <2> QED BY <2>1, <2>2
<1> QED BY <1>1, <1>2, <1>3

\* The language model: what it cannot decide is the service's prediction.
LEMMA ModelKeeps ==
  ASSUME Settled,
         \/ NoCandidates \/ CompleteFails
         \/ \E result \in {"prompt", "failure", "silence"} : Wrap(result)
         \/ \E i \in Intents : Complete(i)
  PROVE  Settled'
<1>1. CASE NoCandidates
  BY <1>1 DEF Settled, WayHere, Stages, SlotsAreOfIntent, NoneIsLast, Predicted, NoCandidates,
     settings
<1>2. CASE CompleteFails
  <2>1. Answer(nlu.intent, nlu.slots, "nlu") /\ UNCHANGED settings /\ nlu \in Prediction
    BY <1>2 DEF CompleteFails, Settled, WayHere
  <2> QED BY <2>1, PredictionFits, AnswerKeeps DEF Classifiers
<1>3. ASSUME NEW result \in {"prompt", "failure", "silence"}, Wrap(result)
      PROVE  Settled'
  <2>1. CASE result = "failure"
    <3>1. Answer(nlu.intent, nlu.slots, "nlu") /\ UNCHANGED settings /\ nlu \in Prediction
      BY <1>3, <2>1 DEF Wrap, Settled, WayHere
    <3> QED BY <3>1, PredictionFits, AnswerKeeps DEF Classifiers
  <2>2. CASE result = "prompt"
    BY <1>3, <2>2 DEF Settled, WayHere, Stages, SlotsAreOfIntent, NoneIsLast, Predicted, Wrap,
       settings
  <2>3. CASE result = "silence"
    BY <1>3, <2>3 DEF Settled, WayHere, Stages, SlotsAreOfIntent, NoneIsLast, Predicted, Wrap,
       settings
  <2> QED BY <1>3, <2>1, <2>2, <2>3
<1>4. ASSUME NEW i \in Intents, Complete(i)
      PROVE  Settled'
  BY <1>4 DEF Settled, WayHere, Stages, SlotsAreOfIntent, NoneIsLast, Predicted, Complete,
     settings
<1> QED BY <1>1, <1>2, <1>3, <1>4

\* What the model chose is answered with no slots, or those the service fills.
LEMMA PickKeeps ==
  ASSUME Settled,
         \/ AnswerPick \/ FillFails
         \/ \E i \in Intents \cup {NONE, Stale}, s \in SUBSET Slots : FillSlots(i, s)
  PROVE  Settled'
<1>1. CASE AnswerPick \/ FillFails
  <2>1. Answer(pick, {}, "llm") /\ UNCHANGED settings
    BY <1>1 DEF AnswerPick, FillFails
  <2> QED BY <2>1, AnswerKeeps DEF Classifiers
<1>2. ASSUME NEW i \in Intents \cup {NONE, Stale}, NEW s \in SUBSET Slots, FillSlots(i, s)
      PROVE  Settled'
  <2>1. /\ asking = "picked" /\ Answer(pick, s, "llm") /\ s \subseteq SlotSet(i)
        /\ filled' = i /\ UNCHANGED <<pick, nlu, missed>> /\ UNCHANGED settings
    BY <1>2 DEF FillSlots
  <2>2. i # NULL
    BY PredictorAssumption, NullApart
  <2>3. SlotsAreOfIntent'
    BY <2>1, <2>2 DEF SlotsAreOfIntent, Answer
  <2>4. WayHere' /\ NoneIsLast'
    BY <2>1 DEF Settled, WayHere, Stages, NoneIsLast, Predicted, Answer, settings
  <2> QED BY <2>3, <2>4 DEF Settled
<1> QED BY <1>1, <1>2

\* What becomes of the prediction afterwards changes none of it.
LEMMA WrapKeeps == Settled /\ (Request \/ UNCHANGED predictorVars) => Settled'
BY DEF Settled, WayHere, Stages, SlotsAreOfIntent, NoneIsLast, Predicted, Request, settings,
   predictorVars

\* The invariant of a prediction holds throughout.
LEMMA ClassifierInductive == PredictorSpec => []Settled
<1>1. Settled /\ [PredictorNext]_predictorVars => Settled'
  BY MatchesKeep, MissesKeep, ServiceKeeps, ModelKeeps, PickKeeps, WrapKeeps DEF PredictorNext
<1> QED BY ClassifierInit, <1>1, PTL DEF PredictorSpec

\* For every project and whatever the services answer, intent and slots of an
\* answer go together, unless the service, asked for slots of the intent that was
\* picked, filled those of another (Predictor.predict).
THEOREM SlotsFit == PredictorSpec => []SlotsAreOfIntent
BY ClassifierInductive, PTL DEF Settled

\* For every project an utterance is given up only after every classifier the
\* settings provide for has missed (Predictor.predict).
THEOREM GivenUpLast == PredictorSpec => []NoneIsLast
BY ClassifierInductive, PTL DEF Settled
=============================================================================
